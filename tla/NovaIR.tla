-------------------------------- MODULE NovaIR --------------------------------
(***************************************************************************)
(* Lowering of an analyzed program to the intermediate representation and  *)
(* its optimization (src/src/ir.cpp).  A node of the representation is a   *)
(* record with its kind, its type and its children, like those of          *)
(* NovaSyntax; None is the NULL that lowering an expression may return.    *)
(*                                                                         *)
(* An operator whose comment begins with "Mistake:" is a faulty variant of *)
(* the one below it, for checking that the property named notices.         *)
(***************************************************************************)
EXTENDS NovaAnalyzer

\* Mistake: an expression without record has no type at all (CompilerTypeOK).
TypeAtNone(at) == IF at \in DOMAIN info THEN info[at].type ELSE 0
\* the type in the record of an expression, the unknown one if there is none
TypeAt(at) == IF at \in DOMAIN info THEN info[at].type ELSE Unknown

Node(kind, type, kids) == [kind |-> kind, type |-> type, kids |-> kids]
UnitNode == [kind |-> "unit", type |-> Unit, text |-> "", kids |-> <<>>]
CallNode(name, type, args) == [kind |-> "call", name |-> name, type |-> type, kids |-> args]

\* a node none of whose children may be missing
Whole(node) == IF None \in ToSet(node.kids) THEN None ELSE node

RECURSIVE Lower(_, _)

\* lower_pipeline: each stage is a call whose first argument is what came before
LowerPipeline(e, at) ==
  FoldLeftDomain(
    LAMBDA current, k :
      IF k = 1 \/ current = None THEN current
      ELSE LET stage == e.kids[k]
               args  == [a \in DOMAIN StageArgs(stage) |->
                           Lower(StageArgs(stage)[a], at \o <<k, a + 1>>)]
           IN IF StageCallee(stage).kind # "identifier" THEN None
              ELSE Whole(CallNode(StageCallee(stage).name, TypeAt(Append(at, k)),
                                  <<current>> \o args)),
    Lower(e.kids[1], Append(at, 1)), e.kids)

\* lower_call: only a name can be called; an argument may be missing
LowerCall(e, at, kids) ==
  IF e.kids[1].kind # "identifier" THEN None
  ELSE CallNode(e.kids[1].name, TypeAt(at), Tail(kids))

\* lower_if: the else branch that is not written is a unit
LowerIf(at, kids) ==
  Whole(Node("if", TypeAt(at), IF Len(kids) = 3 THEN kids ELSE Append(kids, UnitNode)))

\* a block of one expression is that expression
LowerBlock(at, kids) ==
  CASE Len(kids) = 0 -> UnitNode
    [] Len(kids) = 1 -> kids[1]
    [] OTHER         -> Whole(Node("sequence", TypeAt(at), kids))

\* lower_expr, lower_literal, lower_while, lower_match
Lower(e, at) ==
  LET kids == [k \in DOMAIN e.kids |-> Lower(e.kids[k], Append(at, k))]
      type == TypeAt(at)
  IN CASE e.kind \in {"number", "string", "bool", "unit"} ->
            [kind |-> e.kind, type |-> type, text |-> e.text, kids |-> <<>>]
       [] e.kind = "identifier" ->
            [kind |-> "identifier", type |-> type, name |-> e.name, kids |-> <<>>]
       [] e.kind \in {"list", "while"} -> Whole(Node(e.kind, type, kids))
       [] e.kind = "match" ->
            Whole([kind |-> "match", type |-> type, kids |-> kids, arms |-> e.arms])
       [] e.kind = "call"   -> LowerCall(e, at, kids)
       [] e.kind = "pipe"   -> LowerPipeline(e, at)
       [] e.kind = "if"     -> LowerIf(at, kids)
       [] e.kind = "block"  -> LowerBlock(at, kids)
       [] e.kind \in {"paren", "async", "await", "effect"} -> kids[1]
       [] e.kind = "lambda" -> None

-----------------------------------------------------------------------------
IsConstant(node, text) == node # None /\ node.kind = "bool" /\ node.text = text

\* Mistake: a loop that never ends is removed like one that never starts
\* (OptimizedIsSource).
RemovableLoopConstant(condition) == IsConstant(condition, "true") \/ IsConstant(condition, "false")
RemovableLoop(condition) == IsConstant(condition, "false")

\* a match with one arm that binds nothing, which optimize_ir_expr replaces by
\* the body of the arm, scrutinee and all
OnlyArm(node) == Len(node.arms) = 1 /\ node.arms[1].bindings = <<>>

\* optimize_ir_expr
RECURSIVE Optimize(_)
Optimize(node) ==
  IF node = None THEN None
  ELSE LET inner == [node EXCEPT !.kids = [k \in DOMAIN @ |-> Optimize(@[k])]]
           kids  == inner.kids
       IN CASE node.kind = "sequence" /\ kids = <<>>    -> [UnitNode EXCEPT !.type = node.type]
            [] node.kind = "sequence" /\ Len(kids) = 1  -> Optimize(kids[1])
            [] node.kind = "if" /\ IsConstant(kids[1], "true")  -> Optimize(kids[2])
            [] node.kind = "if" /\ IsConstant(kids[1], "false") -> Optimize(kids[3])
            [] node.kind = "while" /\ RemovableLoop(kids[1]) ->
                 [UnitNode EXCEPT !.type = node.type]
            [] node.kind = "match" /\ OnlyArm(node)     -> Optimize(kids[2])
            [] OTHER -> inner

\* One function of nova_ir_lower.  The result has the type recorded for the
\* body, which a parenthesized body has not.
LowerFunction(d) ==
  [name   |-> program[d].name,
   params |-> [p \in DOMAIN program[d].params |->
                 [name |-> program[d].params[p].name,
                  type |-> Resolve(records, program[d].params[p].type)]],
   result |-> TypeAt(<<d>>),
   body   |-> Optimize(Lower(program[d].body, <<d>>))]
=============================================================================
