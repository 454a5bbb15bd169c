---------------------------- MODULE MCNovaCompiler ----------------------------
(***************************************************************************)
(* The programs of MCNovaAnalyzer through the whole compiler, and further  *)
(* ones without a type: the program nova-new writes; a helper f, g with a  *)
(* body of two or three levels, and a function h that branches on calls of *)
(* g.                                                                      *)
(***************************************************************************)
EXTENDS MCNovaAnalyzer, NovaCompiler

False == Literal("bool", "false")
Two   == Literal("number", "2")
Long  == Literal("number", "1234567")
F(e)  == Call(Id("f"), <<e>>)
OneArm(e, body) == Match(e, <<[name |-> "X", bindings |-> <<>>, body |-> body]>>)

\* %g
ShortTexts == [n \in {"0", "1", "2", "42"} |-> n] @@ ("1234567" :> "1.23457e+06")

\* f with a parameter of each type, two or none, and a result of each type, that
\* branches, loops, recurs or calls nothing, whose parameter has the name of a
\* register, whose annotation is wrong
FirstHelpers ==
  {Fun("f", <<Param("x", type)>>, None, x) : type \in {"Number", "Bool"}}
  \cup {Fun("f", <<Param("t0", "Bool")>>, None, IfElse(Id("t0"), <<Two>>, <<One>>)),
        Fun("f", <<Param("x", "Bool")>>, None, IfElse(x, <<False>>, <<True>>)),
        Fun("f", <<Param("x", "Bool")>>, None, While(x, <<x>>)),
        Fun("f", <<Param("x", "Bool")>>, None, IfElse(x, <<F(False)>>, <<One>>)),
        Fun("f", <<Param("x", "Bool")>>, None, IfElse(x, <<F(False)>>, <<True>>)),
        Fun("f", <<Param("x", "Bool")>>, "Number", x),
        Fun("f", <<Param("x", "Bool")>>, None, Unary("paren", x)),
        Fun("f", <<>>, None, One),
        Fun("f", <<Param("x", "Number"), Param("y", "Bool")>>, None,
            IfElse(Id("y"), <<x>>, <<Two>>))}

Terms == {One, Long, True, x}
Uses  == {F(One), F(x), Call(Id("f"), <<>>), Call(Id("f"), <<One, x>>),
          Pipe(x, <<Id("f")>>), Pipe(One, <<Call(Id("f"), <<x>>)>>)}

Inner ==
  {IfElse(c, <<a>>, <<b>>) : c \in {x, False, F(x)}, a \in Uses \cup {One, x}, b \in {True, Long}}
  \cup {While(c, <<a>>) : c \in {x, True, False, F(x)}, a \in Uses}
  \cup {Block(<<a, b>>) : a \in Uses, b \in Uses \cup {x}} \cup {Block(<<>>)}
  \cup {Unary("paren", F(x)), Unary("await", F(x)), Lambda(<<Param("y", "Bool")>>, x)}
  \cup {OneArm(a, b) : a \in {x, F(x)}, b \in {One, F(x)}}

Outer(e) ==
  {F(e), Block(<<e, x>>), Block(<<x, e>>), IfElse(x, <<e>>, <<One>>), IfElse(e, <<One>>, <<Two>>),
   While(x, <<e>>), If(e, <<>>), Pipe(e, <<Id("f"), Id("f")>>), Call(Id("f"), <<e, F(True)>>)}
  \cup {ElseIf(F(x), <<One>>, if) : if \in {if \in {e} : if.kind = "if"}}

H == Fun("h", <<Param("x", "Bool")>>, None,
         IfElse(x, <<Call(Id("g"), <<x>>)>>, <<Call(Id("g"), <<False>>)>>))

\* src/main.nova of a new project (main_contents in tools/nova_new.cpp)
Skeleton ==
  <<Fun("answer", <<>>, "Number", Literal("number", "42")),
    Fun("main", <<>>, "Number",
        IfElse(True, <<Call(Id("answer"), <<>>)>>, <<Literal("number", "0")>>))>>

FirstOrderPrograms ==
  \/ program = Skeleton
  \/ \E type \in {"Bool", "Number"}, body \in Terms \cup Inner : program = <<Main(type, body)>>
  \/ \E f \in FirstHelpers :
       \/ \E type \in {"Bool", "Number"}, body \in Uses \cup Inner :
            program = <<f, Main(type, body)>>
       \/ \E e \in Inner : \E body \in Outer(e) : program = <<f, Main("Bool", body)>>
       \/ \E body \in Uses \cup Inner : program = <<f, Main("Bool", body), H>>

CompilerDecls ==
  FrontDecls \cup ToSet(Skeleton) \cup FirstHelpers \cup {H}
  \cup {Main(type, body) : type \in {"Bool", "Number"},
                           body \in Terms \cup Uses \cup Inner \cup UNION {Outer(e) : e \in Inner}}

-----------------------------------------------------------------------------
MCInit == (TypePrograms \/ ExprPrograms \/ FirstOrderPrograms) /\ Start /\ info = <<>> /\ BackInit
MCSpec == MCInit /\ [][CompilerNext]_compilerVars
=============================================================================
