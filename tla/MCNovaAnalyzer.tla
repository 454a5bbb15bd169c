---------------------------- MODULE MCNovaAnalyzer ----------------------------
(***************************************************************************)
(* Two families of programs: up to three types and a function that matches *)
(* on one of them, where the array of records starts with two places       *)
(* instead of four, so that the third type makes it grow; and one type, a  *)
(* declaration f of some kind and a function g with any small body.        *)
(***************************************************************************)
EXTENDS NovaAnalyzer

CONSTANT MaxTypes

X1 == Variant("X", <<>>)

\* Constructors shared between types, recursive and forward payloads, a payload
\* without annotation.
Types ==
  {Sum(n, variants) : n \in {"A", "B"},
     variants \in {<<X1>>, <<X1, Variant("Y", <<"Number">>)>>,
                   <<Variant("Y", <<"A">>), Variant("Z", <<>>)>>,
                   <<Variant("X", <<"B", None>>)>>}}
  \cup {Tuple("A", <<>>), Tuple("B", <<"Number", None>>)}

Arm(name, bindings) ==
  [name |-> name, bindings |-> bindings,
   body |-> IF bindings = <<>> THEN Literal("number", "1") ELSE Id(bindings[1])]
MatchFun(name, type, arms) == Fun(name, <<Param("p", type)>>, None, Match(Id("p"), arms))

MatchFunctions ==
  {MatchFun("f", type, arms) : type \in {"A", "B", "Number", None},
     arms \in {<<Arm("X", <<>>), Arm("X", <<>>)>>, <<Arm("X", <<>>), Arm("Y", <<"a">>)>>,
               <<Arm("Z", <<>>), Arm("Y", <<"a">>)>>,
               <<Arm("Y", <<"a", "b">>), Arm("X", <<"a", "b">>)>>}}
  \cup {MatchFun("Z", "A", <<Arm("X", <<>>)>>)}

\* The function stands before or after the last type.
TypePrograms ==
  \E n \in 1..MaxTypes : \E ts \in [1..n -> Types], f \in MatchFunctions, at \in {n, n + 1} :
    program = InsertAt(ts, at, f)

-----------------------------------------------------------------------------
TheType == Sum("T", <<X1, Variant("Y", <<"Number">>)>>)

One  == Literal("number", "1")
True == Literal("bool", "true")
x == Id("x")
Effect(e) == Unary("effect", e)

\* f as a value, a lambda, and functions pure and not, of every type of
\* parameter, with none and two parameters, that recur, return a function, trust
\* an annotation
Helpers ==
  {Let("f", "Number", One), Let("f", None, Effect(True)),
   Let("f", None, Lambda(<<Param("x", "Bool")>>, Effect(x))),
   Fun("f", <<Param("x", "Number")>>, None, x),
   Fun("f", <<>>, None, Unary("async", Block(<<One>>))),
   Fun("f", <<Param("x", "Bool")>>, None, Effect(If(x, <<>>))),
   Fun("f", <<Param("x", "T")>>, None,
       Match(x, <<Arm("Y", <<"a">>), Arm("X", <<>>)>>)),
   Fun("f", <<Param("x", "Number"), Param("y", "Bool")>>, None,
       IfElse(Id("y"), <<x>>, <<Effect(One)>>)),
   Fun("f", <<Param("x", "Number")>>, None, Lambda(<<Param("y", "Bool")>>, Effect(x))),
   Fun("f", <<Param("x", "Bool")>>, None,
       IfElse(x, <<Call(Id("f"), <<Literal("bool", "false")>>)>>, <<Effect(True)>>)),
   Fun("f", <<Param("x", None)>>, None, x),
   Fun("f", <<Param("x", "Bool")>>, "Number", x)}

Leaves == {One, True, x, Id("f"), Id("X"), Id("Y")}
Callees == {Id("f"), Id("Y"), Id("g")}

Small ==
  Leaves
  \cup {Call(c, <<a>>) : c \in Callees, a \in Leaves}
  \cup {Call(Id("f"), <<>>), Call(Id("f"), <<One, True>>), Call(Call(Id("f"), <<One>>), <<True>>)}
  \cup {Pipe(a, <<s>>) : a \in Leaves, s \in {Id("f"), Id("Y"), Call(Id("f"), <<x>>)}}
  \cup {IfElse(x, <<a>>, <<b>>) : a \in {One, x, Id("X")}, b \in Leaves}
  \cup {Match(a, <<[name |-> "X", bindings |-> <<>>, body |-> b],
                   [name |-> "Y", bindings |-> <<"x">>, body |-> x]>>) :
          a \in Leaves, b \in {One, x}}
  \cup {Lambda(<<Param("x", "Number")>>, a) : a \in {x, Id("f")}}
  \cup {List(<<a, b>>) : a \in {One, x}, b \in {One, x}}
  \cup {While(a, <<Id("f")>>) : a \in {x, True}}

\* bodies around a smaller one
Bodies ==
  Small
  \cup {Effect(e) : e \in Small} \cup {Unary("paren", e) : e \in Small}
  \cup {Block(<<e, One>>) : e \in Small} \cup {Block(<<One, e>>) : e \in Small}
  \cup {Call(Id("f"), <<e>>) : e \in Small} \cup {Pipe(e, <<Id("f")>>) : e \in Small}
  \cup {If(e, <<>>) : e \in Small} \cup {IfElse(True, <<e>>, <<One>>) : e \in Small}
  \cup {Match(e, <<Arm("X", <<>>), Arm("Y", <<"x">>)>>) : e \in Small}
  \cup {Call(Lambda(<<Param("x", "Number")>>, e), <<One>>) : e \in Small}

Main(type, body) == Fun("g", <<Param("x", type)>>, None, body)

\* f by way of h
Forwarders ==
  {Fun("f", <<Param("x", "Bool")>>, None, Call(Id("h"), <<x>>)),
   Fun("f", <<Param("x", "Number")>>, None, Pipe(x, <<Id("h")>>)),
   Fun("f", <<Param("x", "Number")>>, None, Id("h")),
   Let("f", None, Id("h")), Let("f", None, Call(Id("h"), <<One>>))}

\* g stands after f, before it, or after an f that uses h
ExprPrograms ==
  \E f \in Helpers :
    \/ \E type \in {"Number", "Bool", "T"}, body \in Bodies :
         program = <<TheType, f, Main(type, body)>>
    \/ \E body \in Small : program = <<TheType, Main("Bool", body), f>>
    \/ \E g \in Forwarders, body \in Small :
         program = <<TheType, [f EXCEPT !.name = "h"], g, Main("Bool", body)>>

-----------------------------------------------------------------------------
MCFrontInit == (TypePrograms \/ ExprPrograms) /\ Start /\ info = <<>>
MCFrontSpec == MCFrontInit /\ [][FrontNext]_frontVars

\* the declarations of these programs
FrontDecls ==
  Types \cup MatchFunctions \cup {TheType} \cup Helpers \cup Forwarders
  \cup {[f EXCEPT !.name = "h"] : f \in Helpers}
  \cup {Main(type, body) : type \in {"Number", "Bool", "T"}, body \in Bodies}
=============================================================================
