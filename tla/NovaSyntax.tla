------------------------------ MODULE NovaSyntax ------------------------------
(***************************************************************************)
(* The trees the parser hands to the rest of the front end (NovaExpr,      *)
(* NovaDecl, src/include/nova/ast.h).  A node is a record with its kind    *)
(* and its children "kids", in the order of the source; a place in a       *)
(* program is the number of the declaration followed by the numbers of the *)
(* children on the way down, and stands for the address of a node.  Labels *)
(* of arguments, which nothing reads, and tokens other than names and      *)
(* literals are left out.                                                  *)
(***************************************************************************)
EXTENDS Integers, SequencesExt

CONSTANT None  \* an annotation that is not written, a pointer that is NULL

\* NovaLiteral; parse_literal_value gives it its kind and keeps the token
Literal(kind, text) == [kind |-> kind, text |-> text, kids |-> <<>>]
List(elements)      == [kind |-> "list", kids |-> elements]
Id(name)            == [kind |-> "identifier", name |-> name, kids |-> <<>>]
Call(callee, args)  == [kind |-> "call", kids |-> <<callee>> \o args]
Pipe(target, stages) == [kind |-> "pipe", kids |-> <<target>> \o stages]
Block(items)        == [kind |-> "block", kids |-> items]
Lambda(params, body) == [kind |-> "lambda", params |-> params, kids |-> <<body>>]

\* Branches and loop bodies are blocks, but for the `if` after an `else`.
If(condition, then)           == [kind |-> "if", kids |-> <<condition, Block(then)>>]
IfElse(condition, then, else) ==
  [kind |-> "if", kids |-> <<condition, Block(then), Block(else)>>]
ElseIf(condition, then, if) == [kind |-> "if", kids |-> <<condition, Block(then), if>>]
While(condition, body)        == [kind |-> "while", kids |-> <<condition, Block(body)>>]

\* An arm is [name, bindings, body], bindings being names.
Match(scrutinee, arms) ==
  [kind |-> "match", kids |-> <<scrutinee>> \o [a \in DOMAIN arms |-> arms[a].body],
   arms |-> [a \in DOMAIN arms |-> [name |-> arms[a].name, bindings |-> arms[a].bindings]]]

\* NOVA_EXPR_ASYNC, _AWAIT, _EFFECT, _PAREN
Unary(kind, value) == [kind |-> kind, kids |-> <<value>>]

Param(name, type) == [name |-> name, type |-> type]

Fun(name, params, result, body) ==
  [kind |-> "fun", name |-> name, params |-> params, result |-> result, body |-> body]
Let(name, type, value) == [kind |-> "let", name |-> name, type |-> type, value |-> value]

Variant(name, payload) == [name |-> name, payload |-> payload]
Sum(name, variants) ==
  [kind |-> "sum", name |-> name, variants |-> variants, fields |-> <<>>]
Tuple(name, fields) ==
  [kind |-> "tuple", name |-> name, variants |-> <<>>, fields |-> fields]

\* the stage of a pipeline: what it calls, the further arguments it gives
StageCallee(stage) == IF stage.kind = "call" THEN stage.kids[1] ELSE stage
StageArgs(stage)   == IF stage.kind = "call" THEN Tail(stage.kids) ELSE <<>>
=============================================================================
