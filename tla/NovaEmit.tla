------------------------------- MODULE NovaEmit -------------------------------
(***************************************************************************)
(* The emitters of src/src/codegen.cpp: the LLVM instructions and the C    *)
(* expressions written for a function of the intermediate representation.  *)
(* Both are sequences and trees of records here; spelling is left out, but *)
(* for what the target reads from it: names, counters and how a number is  *)
(* written.  The 1024 characters an LLVM argument list may take are not    *)
(* modelled.                                                               *)
(*                                                                         *)
(* An operator whose comment begins with "Mistake:" is a faulty variant of *)
(* the one below it, for checking that the property named notices.         *)
(***************************************************************************)
EXTENDS NovaIR

\* type_to_llvm, llvm_expr_type: lists, functions, variants and unknown types
\* are doubles, as is an expression that is missing
LLVMType(type) ==
  LET kind == types[type].kind
  IN CASE kind = "bool" -> "i1" [] kind = "string" -> "ptr" [] kind = "unit" -> "void"
       [] OTHER -> "double"
TypeOfNode(node) == IF node = None THEN "double" ELSE LLVMType(node.type)

\* what a value is written as: a number with a point, an integer, a register, or
\* whatever the buffer held
FloatText(text) == [kind |-> "float", text |-> text]
IntText(text)   == [kind |-> "int", text |-> text]
Reg(name)   == [kind |-> "reg", text |-> name]
Garbage     == [kind |-> "garbage", text |-> ""]

\* LLVMEmitter: code of the function, temp_counter, label_counter
Write(em, instruction) == [em EXCEPT !.code = Append(@, instruction)]

LabelOp(name)                  == [op |-> "label", name |-> name]
Br(to)                         == [op |-> "br", to |-> to]
CondBr(condition, then, else)  == [op |-> "cbr", condition |-> condition, then |-> then, else |-> else]
CallOp(dest, type, name, args) == [op |-> "call", dest |-> dest, type |-> type, name |-> name, args |-> args]
Phi(dest, type, in)            == [op |-> "phi", dest |-> dest, type |-> type, in |-> in]
Ret(type, value)               == [op |-> "ret", type |-> type, value |-> value]

Emitted(em, value) == [ok |-> TRUE, em |-> em, value |-> value]
Unsupported(em)    == [ok |-> FALSE, em |-> em, value |-> Garbage]

TempName(em) == "t" \o ToString(em.temps)
\* Mistake: the counter stays where it is (FirstOrderCompiles).
TakeTempAgain(em) == em
\* llvm_new_temp
TakeTemp(em) == [em EXCEPT !.temps = @ + 1]

\* llvm_new_label, three in a row
Label(em, prefix, i) == prefix \o ToString(em.labels + i)
TakeLabels(em) == [em EXCEPT !.labels = @ + 3]

RECURSIVE EmitExpr(_, _)
RECURSIVE EmitStatement(_, _)

\* Expressions in turn as the arguments of a call.
EmitArgs(em, args) ==
  FoldLeft(
    LAMBDA st, arg :
      IF ~st.ok THEN st
      ELSE LET r == EmitExpr(st.em, arg)
           IN IF r.ok THEN Emitted(r.em, Append(st.value, [type |-> TypeOfNode(arg), value |-> r.value]))
              ELSE r,
    Emitted(em, <<>>), args)

EmitStatements(em, nodes) ==
  FoldLeft(LAMBDA st, node : IF st.ok THEN EmitStatement(st.em, node) ELSE st,
           Emitted(em, IntText("0")), nodes)

\* a call, once its arguments are written
WriteCall(args, type, name) ==
  IF ~args.ok THEN args
  ELSE IF type = "void"
  THEN Emitted(Write(args.em, CallOp(None, type, name, args.value)), IntText("0"))
  ELSE Emitted(Write(TakeTemp(args.em), CallOp(TempName(args.em), type, name, args.value)),
               Reg(TempName(args.em)))

EmitCall(em, node) == WriteCall(EmitArgs(em, node.kids), LLVMType(node.type), node.name)

EmitSequence(em, node) ==
  LET first == EmitStatements(em, Front(node.kids))
  IN IF node.kids = <<>> THEN Emitted(em, IntText("0"))
     ELSE IF first.ok THEN EmitExpr(first.em, Last(node.kids)) ELSE first

\* Mistake: the two values of the phi change places (AcceptedLLVMIsRight).
PhiOfSwapped(dest, type, then, thenLabel, else, elseLabel) ==
  Phi(dest, type, <<[value |-> else, label |-> thenLabel], [value |-> then, label |-> elseLabel]>>)
PhiOf(dest, type, then, thenLabel, else, elseLabel) ==
  Phi(dest, type, <<[value |-> then, label |-> thenLabel], [value |-> else, label |-> elseLabel]>>)

\* An if, in the order in which it is written: condition, branches, phi.  The phi
\* names the blocks the branches begin with, whatever they contain.
IfLabels(em) == [then |-> Label(em, "if.then.", 0), else |-> Label(em, "if.else.", 1),
                 end  |-> Label(em, "if.end.", 2)]

EmitPhi(em, node, labels, then, else) ==
  LET type == LLVMType(node.type)
  IN IF type = "void" THEN Emitted(em, IntText("0"))
     ELSE Emitted(Write(TakeTemp(em),
                        PhiOf(TempName(em), type, then, labels.then, else, labels.else)),
                  Reg(TempName(em)))

EmitElse(then, node, labels) ==
  LET else == EmitExpr(Write(Write(then.em, Br(labels.end)), LabelOp(labels.else)), node.kids[3])
  IN IF ~else.ok THEN else
     ELSE EmitPhi(Write(Write(else.em, Br(labels.end)), LabelOp(labels.end)),
                  node, labels, then.value, else.value)

EmitThen(condition, node, labels) ==
  LET branch == CondBr(condition.value, labels.then, labels.else)
      then   == EmitExpr(Write(Write(TakeLabels(condition.em), branch), LabelOp(labels.then)),
                         node.kids[2])
  IN IF then.ok THEN EmitElse(then, node, labels) ELSE then

EmitIf(em, node) ==
  LET condition == EmitExpr(em, node.kids[1])
  IN IF condition.ok THEN EmitThen(condition, node, IfLabels(condition.em)) ELSE condition

\* emit_expr_llvm
EmitExpr(em, node) ==
  IF node = None THEN Emitted(em, FloatText("0"))
  ELSE CASE node.kind = "number"     -> Emitted(em, FloatText(node.text))
         [] node.kind = "bool"       -> Emitted(em, IntText(IF node.text = "true" THEN "1" ELSE "0"))
         [] node.kind = "unit"       -> Emitted(em, IntText("0"))
         [] node.kind = "identifier" -> Emitted(em, Reg(node.name))
         [] node.kind = "call"       -> EmitCall(em, node)
         [] node.kind = "sequence"   -> EmitSequence(em, node)
         [] node.kind = "if"         -> EmitIf(em, node)
         [] node.kind = "while"      -> [EmitStatement(em, node) EXCEPT !.value = Garbage]
         [] node.kind \in {"string", "list", "match"} -> Unsupported(em)

\* A while: the condition in a block of its own, to which the body jumps back.
WhileLabels(em) == [cond |-> Label(em, "while.cond.", 0), body |-> Label(em, "while.body.", 1),
                    end  |-> Label(em, "while.end.", 2)]

EmitBody(condition, node, labels) ==
  LET branch == CondBr(condition.value, labels.body, labels.end)
      body == EmitStatement(Write(Write(condition.em, branch), LabelOp(labels.body)), node.kids[2])
  IN IF body.ok THEN Emitted(Write(Write(body.em, Br(labels.cond)), LabelOp(labels.end)), Garbage)
     ELSE body

EmitWhile(em, node, labels) ==
  LET condition == EmitExpr(Write(Write(TakeLabels(em), Br(labels.cond)), LabelOp(labels.cond)),
                            node.kids[1])
  IN IF condition.ok THEN EmitBody(condition, node, labels) ELSE condition

\* emit_statement_llvm; the value is of no use
EmitStatement(em, node) ==
  IF node = None THEN Emitted(em, Garbage)
  ELSE IF node.kind = "sequence" THEN EmitStatements(em, node.kids)
  ELSE IF node.kind = "while" THEN EmitWhile(em, node, WhileLabels(em))
  ELSE EmitExpr(em, node)

\* One function of emit_program_llvm.  The counters go on from one function to
\* the next.
WriteReturn(fn, type, body) ==
  LET end == Write(body.em, Ret(type, IF type = "void" THEN IntText("0") ELSE body.value))
  IN [ok |-> body.ok, em |-> end,
      text |-> [name |-> fn.name, result |-> type, code |-> end.code,
                params |-> [p \in DOMAIN fn.params |->
                              [name |-> fn.params[p].name, type |-> LLVMType(fn.params[p].type)]]]]

EmitLLVM(em, fn) ==
  LET start == [em EXCEPT !.code = <<LabelOp("entry")>>]
      type  == LLVMType(fn.result)
  IN WriteReturn(fn, type, IF type = "void" THEN EmitStatement(start, fn.body)
                           ELSE EmitExpr(start, fn.body))

-----------------------------------------------------------------------------
(* C.  A tree that cannot be written contains a node of kind "unsupported". *)

\* type_to_c
CType(type) ==
  LET kind == types[type].kind
  IN CASE kind = "bool" -> "bool" [] kind = "string" -> "char*" [] kind = "unit" -> "void"
       [] OTHER -> "double"

CONSTANT SixDigits  \* what %g makes of the text of a number

CTree(kind, kids)   == [kind |-> kind, kids |-> kids]
CNumber(text)       == [kind |-> "number", text |-> text, kids |-> <<>>]
CUnsupported        == CTree("unsupported", <<>>)

\* Mistake: only the last of a sequence is written (AcceptedCIsRight).
CommaLast(trees) == Last(trees)
Comma(trees) == CTree("comma", trees)

\* emit_expr
RECURSIVE CExpr(_)
CExpr(node) ==
  IF node = None THEN CNumber("0")
  ELSE LET kids == [k \in DOMAIN node.kids |-> CExpr(node.kids[k])]
       IN CASE node.kind = "number" -> CNumber(SixDigits[node.text])
            [] node.kind = "unit"   -> CNumber("0")
            [] node.kind \in {"bool", "string"} -> [kind |-> node.kind, text |-> node.text, kids |-> <<>>]
            [] node.kind = "identifier" -> [kind |-> "name", name |-> node.name, kids |-> <<>>]
            [] node.kind = "call" -> [kind |-> "call", name |-> node.name, kids |-> kids]
            [] node.kind = "sequence" /\ kids = <<>>   -> CNumber("0")
            [] node.kind = "sequence" /\ Len(kids) = 1 -> kids[1]
            [] node.kind = "sequence"                  -> Comma(kids)
            [] node.kind = "if" /\ kids[1].kind = "bool" -> kids[IF kids[1].text = "true" THEN 2 ELSE 3]
            [] node.kind = "if"                          -> CTree("?:", kids)
            [] node.kind \in {"while", "list", "match"}  -> CUnsupported

\* emit_statement
RECURSIVE CStatement(_)
CStatement(node) ==
  CASE node = None -> CTree("statements", <<>>)
    [] node # None /\ node.kind = "sequence" ->
         CTree("statements", [k \in DOMAIN node.kids |-> CStatement(node.kids[k])])
    [] node # None /\ node.kind = "while" ->
         CTree("while", <<CExpr(node.kids[1]), CStatement(node.kids[2])>>)
    [] OTHER -> CTree("statements", <<CExpr(node)>>)

RECURSIVE Writable(_)
Writable(tree) == tree.kind # "unsupported" /\ \A k \in DOMAIN tree.kids : Writable(tree.kids[k])

\* emit_function
EmitC(fn) ==
  LET type == CType(fn.result)
      body == IF type = "void" THEN CStatement(fn.body) ELSE CExpr(fn.body)
  IN [ok |-> Writable(body),
      text |-> [name |-> fn.name, result |-> type, body |-> body,
                params |-> [p \in DOMAIN fn.params |->
                              [name |-> fn.params[p].name, type |-> CType(fn.params[p].type)]]]]
=============================================================================
