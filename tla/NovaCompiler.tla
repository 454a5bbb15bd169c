----------------------------- MODULE NovaCompiler -----------------------------
(***************************************************************************)
(* The compiler from an analyzed program to the text of its functions:     *)
(* main of tools/nova_check.cpp after the analysis, nova_ir_lower          *)
(* (src/src/ir.cpp), emit_program_llvm and emit_program_c                  *)
(* (src/src/codegen.cpp), a declaration or function a step, on top of the  *)
(* analyzer of NovaAnalyzer.  What happens to the files is the subject of  *)
(* NovaBuild; here the output is what the functions written so far say.    *)
(***************************************************************************)
EXTENDS NovaEmit, NovaTarget

VARIABLES
  stage,    \* "analysis", "lowering", "emission", "emitted", "unsupported"
  index,    \* the next declaration or function
  ir,       \* NovaIRProgram: the functions lowered so far
  backend,  \* NOVA_CODEGEN_BACKEND: "c" or "llvm", None before it is read
  emitter,  \* LLVMEmitter
  output    \* the functions written, None where there is no file

backVars == <<stage, index, ir, backend, emitter, output>>
compilerVars == <<frontVars, backVars>>

BackInit ==
  /\ stage = "analysis" /\ index = 1 /\ ir = <<>> /\ backend = None
  /\ emitter = [code |-> <<>>, temps |-> 0, labels |-> 0] /\ output = None

\* the diagnostics added by diagnostics_warning; all others are errors
Warnings == {"tuple type has no fields", "tuple field missing type annotation",
             "match expression may be non-exhaustive"}
Errors == {i \in DOMAIN diagnostics : diagnostics[i].message \notin Warnings}

\* main: a program with errors goes no further
StartLowering ==
  /\ stage = "analysis" /\ pass = "done" /\ Errors = {}
  /\ stage' = "lowering"
  /\ UNCHANGED <<index, ir, backend, emitter, output>>

\* nova_ir_lower: the loop over the declarations
LowerDeclaration ==
  /\ stage = "lowering" /\ index \in DOMAIN program
  /\ ir' = IF program[index].kind = "fun" THEN Append(ir, LowerFunction(index)) ELSE ir
  /\ index' = index + 1
  /\ UNCHANGED <<stage, backend, emitter, output>>

\* use_llvm_backend; emit_program_llvm and emit_program_c up to their loops
StartEmission ==
  /\ stage = "lowering" /\ index \notin DOMAIN program
  /\ backend' \in {"c", "llvm"}
  /\ stage' = "emission" /\ index' = 1 /\ output' = <<>>
  /\ UNCHANGED <<ir, emitter>>

\* One function is written.  If the backend does not support it, the file is
\* removed.
WriteFunction(r, counters) ==
  /\ emitter' = counters
  /\ IF r.ok
     THEN output' = Append(output, r.text) /\ index' = index + 1 /\ UNCHANGED stage
     ELSE output' = None /\ stage' = "unsupported" /\ UNCHANGED index
  /\ UNCHANGED <<ir, backend>>

WriteLLVM(r) == WriteFunction(r, [r.em EXCEPT !.code = <<>>])

EmitFunction ==
  /\ stage = "emission" /\ index \in DOMAIN ir
  /\ \/ backend = "llvm" /\ WriteLLVM(EmitLLVM(emitter, ir[index]))
     \/ backend = "c" /\ WriteFunction(EmitC(ir[index]), emitter)

\* emit_program_llvm, emit_program_c: the end of the loop
FinishEmission ==
  /\ stage = "emission" /\ index \notin DOMAIN ir
  /\ stage' = "emitted"
  /\ UNCHANGED <<index, ir, backend, emitter, output>>

BackNext ==
  StartLowering \/ LowerDeclaration \/ StartEmission \/ EmitFunction \/ FinishEmission

CompilerInit == FrontInit /\ BackInit
CompilerNext ==
  \/ stage = "analysis" /\ FrontNext /\ UNCHANGED backVars
  \/ BackNext /\ UNCHANGED frontVars
CompilerSpec == CompilerInit /\ [][CompilerNext]_compilerVars

-----------------------------------------------------------------------------
(* What the properties exempt: each is a fault of the compiler that the    *)
(* README describes.                                                       *)

RECURSIVE Nodes(_)
Nodes(node) == IF node = None THEN {None}
               ELSE {node} \cup UNION {Nodes(node.kids[k]) : k \in DOMAIN node.kids}
IRNodes == UNION {Nodes(ir[f].body) : f \in DOMAIN ir}

\* An expression could not be lowered: a lambda, a call of what is no name.
Missing == None \in IRNodes

FunBodies == {program[d].body : d \in Funs}
AllWithin == UNION {Within(body) : body \in FunBodies}

\* Does e call or loop?
Acts(e) == \E x \in Within(e) : x.kind \in {"call", "pipe", "while"}

\* The optimizer removes the scrutinee of a match with one arm.
DropsCalls ==
  \E e \in AllWithin :
    e.kind = "match" /\ Len(e.arms) = 1 /\ e.arms[1].bindings = <<>> /\ Acts(e.kids[1])

ResultOf(d) == types[scope[program[d].name].type].result

\* The types the emitters write are those the analyzer checked: nothing is left
\* without annotation, an annotated result is that of the body, which is not a
\* parenthesis (it has no record), and a function that calls itself, whose
\* result is unknown at that call, returns what is written like an unknown.
TypesKnown ==
  /\ \A e \in AllWithin : e.kind = "lambda" => None \notin ToSet(Annotations(e.params))
  /\ \A d \in DOMAIN program : program[d].kind = "sum" =>
       \A v \in ToSet(program[d].variants) : None \notin ToSet(v.payload)
  /\ \A d \in Funs :
       /\ None \notin ToSet(Annotations(program[d].params))
       /\ <<d>> \in DOMAIN info /\ ResultOf(d) = info[<<d>>].type
       /\ program[d].name \in FreeNames(program[d].body) => LLVMType(ResultOf(d)) = "double"

-----------------------------------------------------------------------------
(* Properties *)

RECURSIVE TypesIn(_)
TypesIn(node) == IF node = None THEN {}
                 ELSE {node.type} \cup UNION {TypesIn(node.kids[k]) : k \in DOMAIN node.kids}

\* The type invariant: the tables have their types, every type that is recorded
\* or in the representation is one of the pool, and there is a file exactly
\* while and after functions are written.
CompilerTypeOK ==
  /\ RegistryTypeOK
  /\ \A at \in DOMAIN info : info[at].type \in DOMAIN types
  /\ stage \in {"analysis", "lowering", "emission", "emitted", "unsupported"}
  /\ \A f \in DOMAIN ir :
       /\ {ir[f].result} \cup TypesIn(ir[f].body) \subseteq DOMAIN types
       /\ \A p \in DOMAIN ir[f].params : ir[f].params[p].type \in DOMAIN types
  /\ (output = None) = (stage \notin {"emission", "emitted"})
  /\ output # None => Len(output) <= Len(ir)
  /\ backend \in {"c", "llvm", None} /\ emitter.temps \in Nat /\ emitter.labels \in Nat

\* functions compared by name, since lowering rewrites their bodies
RECURSIVE NamedValue(_)
NamedValue(v) ==
  CASE v.kind = "function" -> [kind |-> "function", name |-> v.name]
    [] v.kind \in {"variant", "list"} ->
         [v EXCEPT !.items = [i \in DOMAIN @ |-> NamedValue(@[i])]]
    [] OTHER -> v
NamedCalls(calls) ==
  [c \in DOMAIN calls |-> [calls[c] EXCEPT !.args = [a \in DOMAIN @ |-> NamedValue(@[a])]]]

\* A node of the representation as the expression it stands for.
RECURSIVE Source(_)
Source(node) ==
  LET kids == [k \in DOMAIN node.kids |-> Source(node.kids[k])]
  IN CASE node.kind = "call"     -> Call(Id(node.name), kids)
       [] node.kind = "sequence" -> Block(kids)
       [] OTHER                  -> [node EXCEPT !.kids = kids]

FunctionNamed(d) == CHOOSE f \in DOMAIN ir : ir[f].name = program[d].name
LoweredProgram ==
  [d \in DOMAIN program |->
     IF d \in Funs THEN [program[d] EXCEPT !.body = Source(ir[FunctionNamed(d)].body)]
     ELSE program[d]]

\* README.md:29-30, 152-153 (lowering from the tree, constant folding of if and
\* match): the representation of a program whose expressions can all be lowered
\* computes what its source does: the same value after the same calls, and it
\* ends exactly if the source does.  Programs on which the source has no
\* meaning, and those in which the scrutinee that optimize_ir_expr removes acts,
\* are left out.
OptimizedIsSource ==
  stage = "lowering" /\ index \notin DOMAIN program /\ ~Missing /\ ~DropsCalls =>
    LET lowered == LoweredProgram
    IN \A d \in Funs : \A args \in Arguments(d) :
         LET o == Meaning(program, d, args, CallDepth)
             r == Meaning(lowered, d, args, CallDepth)
         IN o.status # "stuck" =>
              /\ r.status = o.status /\ NamedCalls(r.calls) = NamedCalls(o.calls)
              /\ o.status = "value" => NamedValue(r.value) = NamedValue(o.value)

\* Does the outcome of compiled code agree with that of the source, seen through
\* a conversion of values?  A loop that never ends may have acted more often.
Agrees(o, r, as(_)) ==
  LET calls == [c \in DOMAIN o.calls |->
                  [o.calls[c] EXCEPT !.args = [a \in DOMAIN @ |-> as(@[a])]]]
  IN CASE o.status = "value" -> /\ r.status = "value" /\ r.calls = calls
                                /\ r.value = as(o.value)
       [] o.status = "diverges" -> r.status = "diverges" /\ IsPrefix(calls, r.calls)
       [] OTHER -> TRUE

MaxJumps == 12

\* README.md:33-34 (native code generation) and the tests of the LLVM backend:
\* if LLVM accepts what emit_program_llvm wrote, the code computes what the
\* source does, with the same calls in the same order.
AcceptedLLVMIsRight ==
  /\ stage = "emitted" /\ backend = "llvm" /\ TypesKnown /\ ~Missing /\ ~DropsCalls
  /\ Verified(output)
  => \A d \in Funs : \A args \in Arguments(d) :
       Agrees(Meaning(program, d, args, CallDepth),
              RunLLVM(output, program[d].name, [a \in DOMAIN args |-> AsLLVM(args[a])],
                      MaxJumps, CallDepth - 1),
              AsLLVM)

\* C keeps six digits of a number and does not order arguments.
Rounded == \E n \in IRNodes : n.kind = "number" /\ SixDigits[n.text] # n.text
Unordered ==
  \E n \in IRNodes : n.kind = "call" /\ Cardinality({k \in DOMAIN n.kids : Acts(n.kids[k])}) > 1

\* The same for the C that emit_program_c wrote.
AcceptedCIsRight ==
  /\ stage = "emitted" /\ backend = "c" /\ TypesKnown /\ ~Missing /\ ~DropsCalls
  /\ ~Rounded /\ ~Unordered /\ Compiled(output)
  => \A d \in Funs : \A args \in Arguments(d) :
       Agrees(Meaning(program, d, args, CallDepth),
              CallC(output, program[d].name, [a \in DOMAIN args |-> AsC(args[a])], CallDepth),
              AsC)

-----------------------------------------------------------------------------
(* Programs both backends are made for.                                    *)

\* the names e calls
Called(e) ==
  {x.kids[1].name : x \in {x \in Within(e) : x.kind = "call" /\ x.kids[1].kind = "identifier"}}
  \cup UNION {{StageCallee(x.kids[k]).name : k \in {k \in 2..Len(x.kids) :
                 StageCallee(x.kids[k]).kind = "identifier"}} :
              x \in {x \in Within(e) : x.kind = "pipe"}}

\* Functions of numbers and truth values that call each other by name.
FirstOrderKinds ==
  {"number", "bool", "identifier", "call", "pipe", "block", "if", "while",
   "async", "await", "effect", "paren"}
FirstOrder ==
  /\ Funs = DOMAIN program
  /\ \A e \in AllWithin : e.kind \in FirstOrderKinds
  /\ \A d \in Funs :
       /\ ToSet(Annotations(program[d].params)) \subseteq {"Number", "Bool"}
       /\ FreeNames(program[d].body) \cap Called(program[d].body) \cap ParamNames(program[d]) = {}
       /\ Called(program[d].body) \subseteq {program[f].name : f \in Funs}
       /\ \A e \in Within(program[d].body) : e.kind = "identifier" =>
            e.name \in ParamNames(program[d]) \cup Called(program[d].body)

\* A pipeline with a stage that gives too few arguments.
ShortStage ==
  \E e \in AllWithin : e.kind = "pipe" /\ \E k \in 2..Len(e.kids) :
    \E d \in Funs : /\ StageCallee(e.kids[k]) = Id(program[d].name)
                    /\ Len(program[d].params) # Len(StageArgs(e.kids[k])) + 1

\* A branch that contains another branch: its value does not come from the
\* block the branch begins with.
BranchInBranch ==
  \E n \in IRNodes : /\ n.kind = "if" /\ LLVMType(n.type) # "void"
                     /\ \E k \in 2..3 : \E x \in Nodes(n.kids[k]) : x.kind \in {"if", "while"}

\* a name that the emitter gives out itself
NamesTaken ==
  {"entry"} \cup {"t" \o ToString(n) : n \in 0..emitter.temps}

\* C has no loop inside an expression.
LoopInExpression ==
  \E f \in DOMAIN ir : \E n \in Nodes(ir[f].body) :
    n.kind = "while" /\ (LLVMType(ir[f].result) # "void"
                         \/ \E x \in Nodes(ir[f].body) :
                              x.kind \notin {"sequence", "while"} /\ n \in Nodes(x))

\* Functions of numbers and truth values that use each other by name are
\* written by both backends, and what is written is accepted, whatever the
\* order, nesting and number of their calls, loops and branches
\* (docs/language.md:94, 108, 116; emit_expr_llvm, emit_expr).
FirstOrderCompiles ==
  /\ stage \in {"emitted", "unsupported"} /\ FirstOrder /\ TypesKnown /\ ~Missing /\ ~ShortStage
  => /\ backend = "llvm" /\ ~BranchInBranch
          /\ (\A d \in Funs : ParamNames(program[d]) \cap NamesTaken = {})
        => stage = "emitted" /\ Verified(output)
     /\ backend = "c" /\ ~LoopInExpression => stage = "emitted" /\ Compiled(output)

\* docs/language.md:116: `if` is an expression, so one may stand in a branch of
\* another; then each phi must name the blocks its values come from.
PhisNameTheirBlocks ==
  stage = "emitted" /\ backend = "llvm" => \A f \in DOMAIN output : PhisNamePredecessors(output[f])
=============================================================================
