------------------------------ MODULE NovaTarget ------------------------------
(***************************************************************************)
(* The languages the compiler writes, as far as it uses them: what the     *)
(* LLVM verifier and the C compiler accept, and what accepted code does.   *)
(* None of this is code of the repository; m is a module, the functions    *)
(* written, in order.                                                      *)
(***************************************************************************)
EXTENDS NovaMeaning

Function(m, name) == m[Min({f \in DOMAIN m : m[f].name = name})]
NamesOf(m) == {m[f].name : f \in DOMAIN m}
DistinctNames(m) == Cardinality(NamesOf(m)) = Len(m)
TypesOf(fn) == [p \in DOMAIN fn.params |-> fn.params[p].type]

-----------------------------------------------------------------------------
(* LLVM.  A function is a list of instructions that labels cut in blocks.  *)

Places(code, op) == {i \in DOMAIN code : code[i].op = op}
Labels(code) == {code[i].name : i \in Places(code, "label")}

\* the label of the block an instruction is in
BlockOf(code, i) == code[Max({l \in Places(code, "label") : l <= i})].name

Jumps(code) ==
  {<<BlockOf(code, i), code[i].to>> : i \in Places(code, "br")}
  \cup UNION {{<<BlockOf(code, i), code[i].then>>, <<BlockOf(code, i), code[i].else>>} :
                i \in Places(code, "cbr")}
Predecessors(code, label) == {j[1] : j \in {j \in Jumps(code) : j[2] = label}}

\* The instructions that define a register, and the registers with their types.
Definitions(code) == {i \in Places(code, "call") \cup Places(code, "phi") : code[i].dest # None}
Registers(fn) ==
  {<<fn.params[p].name, fn.params[p].type>> : p \in DOMAIN fn.params}
  \cup {<<fn.code[i].dest, fn.code[i].type>> : i \in Definitions(fn.code)}

\* Registers and labels share one space of names, and each is defined once.
NamesUnique(fn) ==
  LET names == [p \in DOMAIN fn.params |-> fn.params[p].name]
               \o SetToSeq({<<i, fn.code[i].dest>> : i \in Definitions(fn.code)})
               \o SetToSeq({<<i, fn.code[i].name>> : i \in Places(fn.code, "label")})
      all == ToSet([p \in DOMAIN fn.params |-> fn.params[p].name])
             \cup {fn.code[i].dest : i \in Definitions(fn.code)} \cup Labels(fn.code)
  IN Cardinality(all) = Len(names)

\* a value written where one of the type is expected
Fits(fn, type, value) ==
  CASE value.kind = "float" -> type = "double"
    [] value.kind = "int"   -> type = "i1"
    [] value.kind = "reg"   -> type # "void" /\ <<value.text, type>> \in Registers(fn)
    [] OTHER -> FALSE

InstructionValid(m, fn, i) ==
  LET op == fn.code[i]
  IN CASE op.op = "label" -> TRUE
       [] op.op = "br"    -> op.to \in Labels(fn.code)
       [] op.op = "cbr"   -> Fits(fn, "i1", op.condition) /\ {op.then, op.else} \subseteq Labels(fn.code)
       [] op.op = "call"  -> /\ op.name \in NamesOf(m)
                             /\ \A a \in DOMAIN op.args : Fits(fn, op.args[a].type, op.args[a].value)
       [] op.op = "phi"   -> /\ \A v \in DOMAIN op.in : Fits(fn, op.type, op.in[v].value)
                             /\ {op.in[v].label : v \in DOMAIN op.in} =
                                  Predecessors(fn.code, BlockOf(fn.code, i))
       [] op.op = "ret"   -> op.type = "void" \/ Fits(fn, op.type, op.value)

\* The phis of a function name exactly the blocks that jump to theirs.
PhisNamePredecessors(fn) ==
  \A i \in Places(fn.code, "phi") :
    {fn.code[i].in[v].label : v \in DOMAIN fn.code[i].in}
      = Predecessors(fn.code, BlockOf(fn.code, i))

\* the LLVM verifier; that a call has the type of the function it calls is not
\* among the rules
Verified(m) ==
  /\ DistinctNames(m)
  /\ \A f \in DOMAIN m : /\ NamesUnique(m[f]) /\ "void" \notin ToSet(TypesOf(m[f]))
                         /\ \A i \in DOMAIN m[f].code : InstructionValid(m, m[f], i)

\* Values are those of NovaMeaning, as a register or a literal holds them.
AsLLVM(v) ==
  CASE v.kind = "number" -> [kind |-> "float", text |-> v.text]
    [] v.kind = "bool"   -> [kind |-> "int", text |-> IF v.text = "true" THEN "1" ELSE "0"]
    [] OTHER             -> v
Read(regs, value) ==
  IF value.kind = "reg" THEN IF value.text \in DOMAIN regs THEN regs[value.text] ELSE Scalar("poison", "")
  ELSE value

\* Execution from place i, reached from block prev, with jumps left: an outcome
\* as in NovaMeaning.  A call of another type than the function is undefined.
RECURSIVE ExecLLVM(_, _, _, _, _, _, _)
ExecLLVM(m, fn, i, prev, regs, jumps, depth) ==
  LET op == fn.code[i]
      here == BlockOf(fn.code, i)
      Goto(label) == IF jumps = 0 THEN Diverges
                     ELSE ExecLLVM(m, fn, CHOOSE l \in Places(fn.code, "label") : fn.code[l].name = label,
                                   here, regs, jumps - 1, depth)
  IN CASE op.op = "label" -> ExecLLVM(m, fn, i + 1, prev, regs, jumps, depth)
       [] op.op = "br"    -> Goto(op.to)
       [] op.op = "cbr"   -> IF Read(regs, op.condition).text = "1" THEN Goto(op.then) ELSE Goto(op.else)
       [] op.op = "ret"   -> Value(IF op.type = "void" THEN UnitValue ELSE Read(regs, op.value))
       [] op.op = "phi"   ->
            LET from == CHOOSE v \in DOMAIN op.in : op.in[v].label = prev
            IN ExecLLVM(m, fn, i + 1, prev, (op.dest :> Read(regs, op.in[from].value)) @@ regs, jumps, depth)
       [] op.op = "call"  ->
            LET callee == Function(m, op.name)
                args == [a \in DOMAIN op.args |-> Read(regs, op.args[a].value)]
                r == IF depth = 0 THEN Diverges
                     ELSE ExecLLVM(m, callee, 1, "", Bind([p \in DOMAIN callee.params |-> callee.params[p].name], args),
                                   jumps, depth - 1)
                called == [effects |-> {}, calls |-> <<[name |-> op.name, args |-> args]>>]
                rest == ExecLLVM(m, fn, i + 1, prev,
                                 IF op.dest = None THEN regs ELSE (op.dest :> r.value) @@ regs, jumps, depth)
            IN IF op.type # callee.result \/ [a \in DOMAIN op.args |-> op.args[a].type] # TypesOf(callee)
               THEN Stuck("undefined")
               ELSE IF r.status = "value" THEN After(called, After(r, rest)) ELSE After(called, r)

RunLLVM(m, name, args, jumps, depth) ==
  LET fn == Function(m, name)
      called == [effects |-> {}, calls |-> <<[name |-> name, args |-> args]>>]
  IN After(called, ExecLLVM(m, fn, 1, "", Bind([p \in DOMAIN fn.params |-> fn.params[p].name], args),
                            jumps, depth))

-----------------------------------------------------------------------------
(* C.  A function is a tree of expressions; scope is the functions declared *)
(* up to it, itself included.                                              *)

ParamNamesOf(fn) == {fn.params[p].name : p \in DOMAIN fn.params}

\* May a value of the type be given where one of the other is expected?  The
\* number types convert to each other, and nothing else does but a literal 0,
\* which does not occur for a string.
Converts(from, to) == {from, to} \subseteq {"double", "bool"} \/ (from = to /\ from = "char*")

\* the type of a tree, "error" if the compiler rejects it
RECURSIVE CTypeOf(_, _, _)
CTypeOf(scope, fn, tree) ==
  LET kids == [k \in DOMAIN tree.kids |-> CTypeOf(scope, fn, tree.kids[k])]
      isParam == tree.name \in ParamNamesOf(fn)
      callee  == Function(scope, tree.name)
  IN CASE "error" \in ToSet(kids) -> "error"
       [] tree.kind = "number" -> "double"
       [] tree.kind = "bool"   -> "bool"
       [] tree.kind = "string" -> "char*"
       [] tree.kind = "name" ->
            IF isParam THEN fn.params[Min({p \in DOMAIN fn.params : fn.params[p].name = tree.name})].type
            ELSE IF tree.name \in NamesOf(scope) THEN "function" ELSE "error"
       [] tree.kind = "call" ->
            IF /\ ~isParam /\ tree.name \in NamesOf(scope) /\ Len(callee.params) = Len(kids)
               /\ \A k \in DOMAIN kids : Converts(kids[k], callee.params[k].type)
            THEN callee.result ELSE "error"
       [] tree.kind = "comma" -> Last(kids)
       [] tree.kind = "?:" ->
            IF kids[1] = "void" \/ "function" \in {kids[2], kids[3]} THEN "error"
            ELSE IF "void" \in {kids[2], kids[3]} THEN "void"
            ELSE IF Converts(kids[2], kids[3]) THEN kids[2] ELSE "error"
       [] tree.kind = "while" -> IF kids[1] = "void" THEN "error" ELSE "void"
       [] tree.kind = "statements" -> "void"

\* the C compiler: a body of void functions is statements
Compiled(m) ==
  /\ DistinctNames(m)
  /\ \A f \in DOMAIN m :
       /\ "void" \notin ToSet(TypesOf(m[f]))
       /\ Cardinality(ParamNamesOf(m[f])) = Len(m[f].params)
       /\ LET type == CTypeOf(SubSeq(m, 1, f), m[f], m[f].body)
          IN IF m[f].result = "void" THEN type # "error" ELSE Converts(type, m[f].result)

\* Values as C has them: true is 1.
AsC(v) ==
  CASE v.kind = "bool" -> Scalar("number", IF v.text = "true" THEN "1" ELSE "0")
    [] OTHER           -> v
Converted(v, type) ==
  IF type = "bool" THEN Scalar("number", IF v.text = "0" THEN "0" ELSE "1") ELSE v

RECURSIVE EvalC(_, _, _, _)

\* a call, once the arguments are known
CallC(m, name, args, depth) ==
  LET fn == Function(m, name)
      given == [a \in DOMAIN args |-> Converted(args[a], fn.params[a].type)]
      r == IF depth = 0 THEN Diverges
           ELSE EvalC(m, Bind([p \in DOMAIN fn.params |-> fn.params[p].name], given), fn.body, depth - 1)
      v == IF r.status # "value" THEN r.value
           ELSE IF fn.result = "void" THEN UnitValue ELSE Converted(r.value, fn.result)
  IN [r EXCEPT !.value = v, !.calls = <<[name |-> name, args |-> given]>> \o @]

\* Expressions in turn.  The order of arguments, which C leaves open, is the
\* order in which they are written.
EvalAllC(m, env, trees, depth) ==
  FoldLeft(LAMBDA o, tree :
             IF o.status # "value" THEN o
             ELSE LET r == EvalC(m, env, tree, depth)
                      v == IF r.status = "value" THEN Append(o.value, r.value) ELSE r.value
                  IN [After(o, r) EXCEPT !.value = v],
           Value(<<>>), trees)

\* As in NovaMeaning, a loop that is entered never ends.
EvalC(m, env, tree, depth) ==
  LET first == EvalC(m, env, tree.kids[1], depth)
      all   == EvalAllC(m, env, tree.kids, depth)
      taken == first.value.text # "0"
  IN CASE tree.kind \in {"number", "string", "bool"} -> Value(AsC(Scalar(tree.kind, tree.text)))
       [] tree.kind = "name" ->
            Value(IF tree.name \in DOMAIN env THEN env[tree.name] ELSE Scalar("function", tree.name))
       [] tree.kind = "call" ->
            IF all.status = "value" THEN After(all, CallC(m, tree.name, all.value, depth)) ELSE all
       [] tree.kind \in {"comma", "statements"} ->
            IF all.status # "value" THEN all
            ELSE [all EXCEPT !.value = IF @ = <<>> THEN UnitValue ELSE Last(@)]
       [] tree.kind = "?:" ->
            IF first.status # "value" THEN first
            ELSE After(first, EvalC(m, env, tree.kids[IF taken THEN 2 ELSE 3], depth))
       [] tree.kind = "while" ->
            IF first.status # "value" THEN first
            ELSE IF ~taken THEN After(first, Value(UnitValue))
            ELSE After(first, After(EvalC(m, env, tree.kids[2], depth), Diverges))
=============================================================================
