------------------------ MODULE NovaParserStackProofs ------------------------
(***************************************************************************)
(* Theorems about what NovaParser has still to do: that no declaration is  *)
(* lost on the way, and how deep its recursion goes, for every token array *)
(* and every stack size.                                                   *)
(***************************************************************************)
EXTENDS NovaParserProofs

DeclKeywords == {"let", "fun", "type"}
DeclFunctions == {"let_decl", "fun_decl", "type_decl"}
\* the steps up to the keyword that a declaration starts with
Opening == {<<f>> : f \in DeclFunctions} \cup {<<"take", t>> : t \in DeclKeywords}
\* the steps that have nothing to do with where a declaration starts
Plain == Instructions \ (Opening \cup {<<"decls">>})

\* How many more calls than for x itself are ever active, before x has read a
\* token or is done.
Grow(x) ==
  IF x[1] = "decls" THEN 7
  ELSE IF x[1] = "decl" THEN 6
  ELSE IF x[1] \in {"let_decl", "fun_decl", "match_expr", "lambda", "block_expression",
                    "items", "items_sep", "arms", "arms_sep", "argument_list", "arg",
                    "list_literal", "list_items"} THEN 5
  ELSE IF x[1] = "expression" THEN 4
  ELSE IF x[1] = "unary_or_pipe" THEN 3
  ELSE IF x[1] = "pipe_expr" THEN 2
  ELSE IF x[1] \in {"call_expr", "param_list", "variant_list", "module_decl",
                    "import_decl"} THEN 1
  ELSE 0

\* the same, and the call that x itself may be, for the function that has x to do
Cost(x) == Enter(x) + Grow(x)

\* The steps of todo make at most g calls deep.
Fits(todo, g) == \A i \in 1..Len(todo) : Cost(todo[i]) <= g
\* No step of the stack s, with the calls d active, makes more than n calls be
\* active before a token is read.
Paid(s, d, n) == \A i \in 1..Len(s) : d[i] + Grow(s[i]) <= n

-----------------------------------------------------------------------------
(* Stacks                                                                  *)

LEMMA GrowIsNat == \A x : Grow(x) \in 0..7 /\ Enter(x) \in 0..1 /\ Cost(x) \in 0..8
BY DEF Grow, Enter, Cost

LEMMA FitsTuples ==
  ASSUME NEW g \in Nat
  PROVE  /\ Fits(<<>>, g)
         /\ \A a : Cost(a) <= g => Fits(<<a>>, g)
         /\ \A a, b : Cost(a) <= g /\ Cost(b) <= g => Fits(<<a, b>>, g)
         /\ \A a, b, c : Cost(a) <= g /\ Cost(b) <= g /\ Cost(c) <= g => Fits(<<a, b, c>>, g)
         /\ \A a, b, c, d : Cost(a) <= g /\ Cost(b) <= g /\ Cost(c) <= g /\ Cost(d) <= g
              => Fits(<<a, b, c, d>>, g)
         /\ \A a, b, c, d, e :
              Cost(a) <= g /\ Cost(b) <= g /\ Cost(c) <= g /\ Cost(d) <= g /\ Cost(e) <= g
              => Fits(<<a, b, c, d, e>>, g)
         /\ \A a, b, c, d, e, f, h :
              /\ Cost(a) <= g /\ Cost(b) <= g /\ Cost(c) <= g /\ Cost(d) <= g
              /\ Cost(e) <= g /\ Cost(f) <= g /\ Cost(h) <= g
              => Fits(<<a, b, c, d, e, f, h>>, g)
BY DEF Fits

\* The stack after a step: what is new, then what was there below its head.
LEMMA ThenElements ==
  ASSUME NEW S, NEW s \in Seq(S), s # <<>>, NEW todo \in Seq(S)
  PROVE  LET t == todo \o Tail(s)
         IN /\ t \in Seq(S) /\ Len(t) = Len(todo) + Len(s) - 1
            /\ Len(s) \in Nat \ {0} /\ Len(todo) \in Nat /\ Head(s) = s[1]
            /\ \A i \in 1..Len(todo) : t[i] = todo[i]
            /\ \A i \in (Len(todo) + 1)..Len(t) : t[i] = s[i - Len(todo) + 1]
<1>1. /\ Tail(s) \in Seq(S) /\ Len(Tail(s)) = Len(s) - 1 /\ Len(s) \in Nat \ {0} /\ Head(s) = s[1]
      /\ \A i \in 1..Len(Tail(s)) : Tail(s)[i] = s[i+1]
      /\ Len(todo) \in Nat
  BY HeadTailProperties, LenProperties, EmptySeq
<1> DEFINE u == Tail(s)
           t == todo \o u
<1>2. u \in Seq(S) /\ Len(u) = Len(s) - 1 /\ \A i \in 1..Len(u) : u[i] = s[i+1]
  BY <1>1
<1> HIDE DEF u
<1>3. /\ t \in Seq(S) /\ Len(t) = Len(todo) + Len(u)
      /\ \A i \in 1..Len(todo) + Len(u) : t[i] = IF i <= Len(todo) THEN todo[i] ELSE u[i - Len(todo)]
  BY <1>2, ConcatProperties
<1> HIDE DEF t
<1>4. ASSUME NEW i \in (Len(todo) + 1)..Len(t) PROVE t[i] = s[i - Len(todo) + 1]
  <2>1. i - Len(todo) \in 1..Len(u) /\ i \in 1..Len(todo) + Len(u) /\ ~(i <= Len(todo))
    BY <1>1, <1>2, <1>3
  <2>2. t[i] = u[i - Len(todo)] /\ u[i - Len(todo)] = s[(i - Len(todo)) + 1]
    BY <1>2, <1>3, <2>1
  <2> QED
    BY <2>2
<1>5. ASSUME NEW i \in 1..Len(todo) PROVE t[i] = todo[i]
  <2>1. i \in 1..Len(todo) + Len(u) /\ i <= Len(todo)
    BY <1>1, <1>2
  <2> QED
    BY <1>3, <2>1
<1> QED
  BY <1>1, <1>2, <1>3, <1>4, <1>5 DEF t, u

\* How many calls are active for each step of the stack after a step.
LEMMA ThenDepths ==
  ASSUME TypeOK, stack # <<>>, NEW todo \in Seq(Instructions), Then(todo)
  PROVE  /\ Len(stack') = Len(todo) + Len(stack) - 1
         /\ Len(stack) \in Nat \ {0} /\ Len(todo) \in Nat /\ Head(stack) = stack[1]
         /\ Head(depths) = depths[1]
         /\ \A i \in 1..Len(stack) : depths[i] \in Nat
         /\ \A i \in 1..Len(todo) :
              stack'[i] = todo[i] /\ depths'[i] = depths[1] + Enter(todo[i])
         /\ \A i \in (Len(todo) + 1)..Len(stack') :
              stack'[i] = stack[i - Len(todo) + 1] /\ depths'[i] = depths[i - Len(todo) + 1]
<1>1. /\ stack \in Seq(Instructions) /\ depths \in Seq(Nat) /\ Len(depths) = Len(stack)
      /\ stack' = todo \o Tail(stack)
      /\ depths' = [i \in 1..Len(todo) |-> Head(depths) + Enter(todo[i])] \o Tail(depths)
  BY DEF TypeOK, Then
<1>2. /\ Len(stack') = Len(todo) + Len(stack) - 1
      /\ Len(stack) \in Nat \ {0} /\ Len(todo) \in Nat /\ Head(stack) = stack[1]
      /\ \A i \in 1..Len(todo) : stack'[i] = todo[i]
      /\ \A i \in (Len(todo) + 1)..Len(stack') : stack'[i] = stack[i - Len(todo) + 1]
  BY <1>1, ThenElements, Zenon
<1>3. depths # <<>>
  BY <1>1, <1>2, EmptySeq
<1>4. Head(depths) = depths[1] /\ depths[1] \in Nat /\ \A i \in 1..Len(stack) : depths[i] \in Nat
  BY <1>1, <1>2, <1>3, HeadTailProperties, ElementOfSeq
<1>5. PICK D \in Seq(Nat) :
        /\ depths' = D \o Tail(depths) /\ Len(D) = Len(todo)
        /\ \A i \in 1..Len(todo) : D[i] = depths[1] + Enter(todo[i])
  <2> DEFINE new == [i \in 1..Len(todo) |-> Head(depths) + Enter(todo[i])]
  <2>1. \A i \in 1..Len(todo) : Head(depths) + Enter(todo[i]) \in Nat
    BY <1>4, GrowIsNat
  <2>2. /\ new \in Seq(Nat) /\ Len(new) = Len(todo)
        /\ \A i \in 1..Len(todo) : new[i] = depths[1] + Enter(todo[i])
    BY <1>2, <1>4, <2>1
  <2> QED
    BY <1>1, <2>2
<1>6. depths \in Seq(Nat) /\ depths # <<>> /\ depths' = D \o Tail(depths)
  BY <1>1, <1>3, <1>5, Zenon
<1>7. /\ Len(depths') = Len(D) + Len(depths) - 1
      /\ \A i \in 1..Len(D) : depths'[i] = D[i]
      /\ \A i \in (Len(D) + 1)..Len(depths') : depths'[i] = depths[i - Len(D) + 1]
  BY <1>6, ThenElements, SMTT(30)
<1>8. Len(depths') = Len(stack')
  BY <1>1, <1>2, <1>5, <1>7
<1>9. \A i \in (Len(todo) + 1)..Len(stack') : depths'[i] = depths[i - Len(todo) + 1]
  BY <1>5, <1>7, <1>8, Zenon
<1>10. \A i \in 1..Len(todo) : depths'[i] = depths[1] + Enter(todo[i])
  BY <1>5, <1>7, Zenon
<1> QED
  BY <1>2, <1>4, <1>9, <1>10, Zenon

\* What a step calls has been paid for by its own share and the tokens read.
LEMMA PaidThen ==
  ASSUME TypeOK, stack # <<>>, NEW todo \in Seq(Instructions), Then(todo),
         NEW n \in Nat, NEW m \in Nat, n <= m, Paid(stack, depths, n),
         Fits(todo, Grow(Head(stack)) + (m - n))
  PROVE  Paid(stack', depths', m)
<1> SUFFICES ASSUME NEW i \in 1..Len(stack') PROVE depths'[i] + Grow(stack'[i]) <= m
  BY DEF Paid
<1> DEFINE p == Len(todo)
           q == Len(stack)
<1>1. /\ Len(stack') = p + q - 1 /\ q \in Nat \ {0} /\ p \in Nat /\ Head(stack) = stack[1]
      /\ \A k \in 1..q : depths[k] \in Nat
      /\ i \in 1..p => stack'[i] = todo[i] /\ depths'[i] = depths[1] + Enter(todo[i])
      /\ i \in (p + 1)..Len(stack') =>
           stack'[i] = stack[i - p + 1] /\ depths'[i] = depths[i - p + 1]
  BY ThenDepths
<1>2. \A k \in 1..q : depths[k] + Grow(stack[k]) <= n
  BY DEF Paid
<1> HIDE DEF p, q
<1>3. CASE i <= p
  <2>1. i \in 1..p /\ 1 \in 1..q
    BY <1>1, <1>3
  <2>2. Cost(todo[i]) <= Grow(Head(stack)) + (m - n)
    BY <2>1 DEF Fits, p
  <2> DEFINE x == todo[i]
             h == Head(stack)
  <2>3. depths[1] \in Nat /\ depths[1] + Grow(h) <= n
    BY <1>1, <1>2, <2>1
  <2>4. depths'[i] = depths[1] + Enter(x) /\ stack'[i] = x /\ Enter(x) + Grow(x) <= Grow(h) + (m - n)
    BY <1>1, <2>1, <2>2 DEF Cost
  <2> HIDE DEF x, h
  <2>5. Enter(x) \in Nat /\ Grow(x) \in Nat /\ Grow(h) \in Nat
    BY GrowIsNat
  <2>6. depths[1] + Enter(x) + Grow(x) <= m
    BY <2>3, <2>4, <2>5
  <2> QED
    BY <2>4, <2>6
<1>4. CASE i > p
  <2>1. i \in (p + 1)..Len(stack') /\ i - p + 1 \in 1..q
    BY <1>1, <1>4
  <2>2. depths[i - p + 1] + Grow(stack[i - p + 1]) <= n /\ depths[i - p + 1] \in Nat
    BY <1>1, <1>2, <2>1
  <2>3. depths'[i] + Grow(stack'[i]) <= n /\ depths'[i] \in Nat
    BY <1>1, <2>1, <2>2
  <2> QED
    BY <2>3, GrowIsNat
<1> QED
  BY <1>1, <1>3, <1>4

LEMMA Costs ==
  /\ Grow(<<"module_decl">>) = 1 /\ Cost(<<"module_decl">>) = 2
  /\ Grow(<<"module_path">>) = 0 /\ Cost(<<"module_path">>) = 1
  /\ Grow(<<"import_decl">>) = 1 /\ Cost(<<"import_decl">>) = 2
  /\ Grow(<<"decl">>) = 6 /\ Cost(<<"decl">>) = 7
  /\ Grow(<<"let_decl">>) = 5 /\ Cost(<<"let_decl">>) = 6
  /\ Grow(<<"fun_decl">>) = 5 /\ Cost(<<"fun_decl">>) = 6
  /\ Grow(<<"type_decl">>) = 0 /\ Cost(<<"type_decl">>) = 1
  /\ Grow(<<"param_list">>) = 1 /\ Cost(<<"param_list">>) = 2
  /\ Grow(<<"param">>) = 0 /\ Cost(<<"param">>) = 1
  /\ Grow(<<"variant_list">>) = 1 /\ Cost(<<"variant_list">>) = 2
  /\ Grow(<<"variant_decl">>) = 0 /\ Cost(<<"variant_decl">>) = 1
  /\ Grow(<<"expression">>) = 4 /\ Cost(<<"expression">>) = 5
  /\ Grow(<<"match_expr">>) = 5 /\ Cost(<<"match_expr">>) = 6
  /\ Grow(<<"unary_or_pipe">>) = 3 /\ Cost(<<"unary_or_pipe">>) = 4
  /\ Grow(<<"pipe_expr">>) = 2 /\ Cost(<<"pipe_expr">>) = 3
  /\ Grow(<<"call_expr">>) = 1 /\ Cost(<<"call_expr">>) = 2
  /\ Grow(<<"primary">>) = 0 /\ Cost(<<"primary">>) = 1
  /\ Grow(<<"lambda">>) = 5 /\ Cost(<<"lambda">>) = 6
  /\ Grow(<<"argument_list">>) = 5 /\ Cost(<<"argument_list">>) = 6
  /\ Grow(<<"block_expression">>) = 5 /\ Cost(<<"block_expression">>) = 6
  /\ Grow(<<"list_literal">>) = 5 /\ Cost(<<"list_literal">>) = 6
  /\ Grow(<<"path_tail">>) = 0 /\ Cost(<<"path_tail">>) = 0
  /\ Grow(<<"imports">>) = 0 /\ Cost(<<"imports">>) = 0
  /\ Grow(<<"import_symbols">>) = 0 /\ Cost(<<"import_symbols">>) = 0
  /\ Grow(<<"symbols">>) = 0 /\ Cost(<<"symbols">>) = 0
  /\ Grow(<<"symbols_tail">>) = 0 /\ Cost(<<"symbols_tail">>) = 0
  /\ Grow(<<"decls">>) = 7 /\ Cost(<<"decls">>) = 7
  /\ Grow(<<"annotation">>) = 0 /\ Cost(<<"annotation">>) = 0
  /\ Grow(<<"params_tail">>) = 0 /\ Cost(<<"params_tail">>) = 0
  /\ Grow(<<"type_body">>) = 0 /\ Cost(<<"type_body">>) = 0
  /\ Grow(<<"variants_tail">>) = 0 /\ Cost(<<"variants_tail">>) = 0
  /\ Grow(<<"payload">>) = 0 /\ Cost(<<"payload">>) = 0
  /\ Grow(<<"else">>) = 0 /\ Cost(<<"else">>) = 0
  /\ Grow(<<"pipe_tail">>) = 0 /\ Cost(<<"pipe_tail">>) = 0
  /\ Grow(<<"call_tail">>) = 0 /\ Cost(<<"call_tail">>) = 0
  /\ Grow(<<"arg">>) = 5 /\ Cost(<<"arg">>) = 5
  /\ Grow(<<"args_tail">>) = 0 /\ Cost(<<"args_tail">>) = 0
  /\ Grow(<<"items">>) = 5 /\ Cost(<<"items">>) = 5
  /\ Grow(<<"items_sep">>) = 5 /\ Cost(<<"items_sep">>) = 5
  /\ Grow(<<"arms">>) = 5 /\ Cost(<<"arms">>) = 5
  /\ Grow(<<"arms_sep">>) = 5 /\ Cost(<<"arms_sep">>) = 5
  /\ Grow(<<"list_items">>) = 5 /\ Cost(<<"list_items">>) = 5
  /\ Grow(<<"list_tail">>) = 0 /\ Cost(<<"list_tail">>) = 0
  /\ \A t : Grow(<<"take", t>>) = 0 /\ Cost(<<"take", t>>) = 0
BY DEF Grow, Cost, Enter, Functions

LEMMA PlainNamed ==
  /\ <<"module_decl">> \in Plain /\ <<"module_path">> \in Plain /\ <<"import_decl">> \in Plain
  /\ <<"decl">> \in Plain /\ <<"param_list">> \in Plain /\ <<"param">> \in Plain
  /\ <<"variant_list">> \in Plain /\ <<"variant_decl">> \in Plain /\ <<"expression">> \in Plain
  /\ <<"match_expr">> \in Plain /\ <<"unary_or_pipe">> \in Plain /\ <<"pipe_expr">> \in Plain
  /\ <<"call_expr">> \in Plain /\ <<"primary">> \in Plain /\ <<"lambda">> \in Plain
  /\ <<"argument_list">> \in Plain /\ <<"block_expression">> \in Plain /\ <<"list_literal">> \in Plain
  /\ <<"path_tail">> \in Plain /\ <<"imports">> \in Plain /\ <<"import_symbols">> \in Plain
  /\ <<"symbols">> \in Plain /\ <<"symbols_tail">> \in Plain /\ <<"annotation">> \in Plain
  /\ <<"params_tail">> \in Plain /\ <<"type_body">> \in Plain /\ <<"variants_tail">> \in Plain
  /\ <<"payload">> \in Plain /\ <<"else">> \in Plain /\ <<"pipe_tail">> \in Plain
  /\ <<"call_tail">> \in Plain /\ <<"arg">> \in Plain /\ <<"args_tail">> \in Plain
  /\ <<"items">> \in Plain /\ <<"items_sep">> \in Plain /\ <<"arms">> \in Plain
  /\ <<"arms_sep">> \in Plain /\ <<"list_items">> \in Plain /\ <<"list_tail">> \in Plain
  /\ <<"take", "(">> \in Plain /\ <<"take", ")">> \in Plain
  /\ <<"take", "->">> \in Plain /\ <<"take", "=">> \in Plain
  /\ <<"take", "[">> \in Plain /\ <<"take", "]">> \in Plain
  /\ <<"take", "id">> \in Plain /\ <<"take", "module">> \in Plain
  /\ <<"take", "{">> \in Plain /\ <<"take", "}">> \in Plain
<1>1. \A f : f \notin DeclFunctions => <<f>> \notin Opening
  BY DEF Opening
<1>2. \A t : t \notin DeclKeywords => <<"take", t>> \notin Opening \cup {<<"decls">>}
  BY DEF Opening
<1>3. \A f : f \notin DeclFunctions /\ f # "decls" /\ <<f>> \in Instructions => <<f>> \in Plain
  BY <1>1 DEF Plain
<1>4. \A t : t \notin DeclKeywords /\ <<"take", t>> \in Instructions => <<"take", t>> \in Plain
  BY <1>2 DEF Plain
<1>5. \A f : f \in DeclFunctions <=> f = "let_decl" \/ f = "fun_decl" \/ f = "type_decl"
  BY DEF DeclFunctions
<1>6. \A t : t \in DeclKeywords <=> t = "let" \/ t = "fun" \/ t = "type"
  BY DEF DeclKeywords
<1>7. /\ <<"module_decl">> \in Plain /\ <<"module_path">> \in Plain /\ <<"import_decl">> \in Plain
      /\ <<"decl">> \in Plain /\ <<"param_list">> \in Plain /\ <<"param">> \in Plain
      /\ <<"variant_list">> \in Plain /\ <<"variant_decl">> \in Plain /\ <<"expression">> \in Plain
      /\ <<"match_expr">> \in Plain
  BY <1>3, <1>5, Named
<1>8. /\ <<"unary_or_pipe">> \in Plain /\ <<"pipe_expr">> \in Plain /\ <<"call_expr">> \in Plain
      /\ <<"primary">> \in Plain /\ <<"lambda">> \in Plain /\ <<"argument_list">> \in Plain
      /\ <<"block_expression">> \in Plain /\ <<"list_literal">> \in Plain /\ <<"path_tail">> \in Plain
      /\ <<"imports">> \in Plain
  BY <1>3, <1>5, Named
<1>9. /\ <<"import_symbols">> \in Plain /\ <<"symbols">> \in Plain /\ <<"symbols_tail">> \in Plain
      /\ <<"annotation">> \in Plain /\ <<"params_tail">> \in Plain /\ <<"type_body">> \in Plain
      /\ <<"variants_tail">> \in Plain /\ <<"payload">> \in Plain /\ <<"else">> \in Plain
      /\ <<"pipe_tail">> \in Plain
  BY <1>3, <1>5, Named
<1>10. /\ <<"call_tail">> \in Plain /\ <<"arg">> \in Plain /\ <<"args_tail">> \in Plain
      /\ <<"items">> \in Plain /\ <<"items_sep">> \in Plain /\ <<"arms">> \in Plain
      /\ <<"arms_sep">> \in Plain /\ <<"list_items">> \in Plain /\ <<"list_tail">> \in Plain
  BY <1>3, <1>5, Named
<1>11. /\ <<"take", "(">> \in Plain /\ <<"take", ")">> \in Plain
      /\ <<"take", "->">> \in Plain /\ <<"take", "=">> \in Plain
      /\ <<"take", "[">> \in Plain /\ <<"take", "]">> \in Plain
      /\ <<"take", "id">> \in Plain /\ <<"take", "module">> \in Plain
  BY <1>2, NamedTakes DEF Plain, DeclKeywords
<1>12. <<"take", "{">> \in Plain
  BY <1>2, NamedTakes DEF Plain, DeclKeywords
<1>13. <<"take", "}">> \in Plain
  BY <1>2, NamedTakes DEF Plain, DeclKeywords
<1> QED
  BY <1>7, <1>8, <1>9, <1>10, <1>11, <1>12, <1>13, Zenon

LEMMA PlainTuples ==
  /\ <<>> \in Seq(Plain)
  /\ \A a \in Plain : <<a>> \in Seq(Plain)
  /\ \A a, b \in Plain : <<a, b>> \in Seq(Plain)
  /\ \A a, b, c \in Plain : <<a, b, c>> \in Seq(Plain)
  /\ \A a, b, c, d \in Plain : <<a, b, c, d>> \in Seq(Plain)
  /\ \A a, b, c, d, e \in Plain : <<a, b, c, d, e>> \in Seq(Plain)
OBVIOUS

-----------------------------------------------------------------------------
(* The steps that read no keyword of a declaration                         *)

\* Such a step reads nothing, or one token, or stands back before a bracket it
\* has read, which at the end of the input is an old one.
Ordinary ==
  /\ stack # <<>> /\ Head(stack) \in Plain
  /\ UNCHANGED <<tokens, decls, crashed>>
  /\ \E todo \in Seq(Plain) :
       /\ Then(todo)
       /\ \/ current' = current /\ Fits(todo, Grow(Head(stack)))
          \/ /\ ~AtEnd /\ current' = current + 1 /\ Fits(todo, Grow(Head(stack)) + 6)
             /\ Peek(current) \notin DeclKeywords \/ had_error'
          \/ /\ ~AtEnd /\ current' = current
             /\ \/ Peek(current) = "{" /\ todo = <<<<"block_expression">>>>
                \/ Peek(current) = "[" /\ todo = <<<<"list_literal">>>>
          \/ /\ AtEnd /\ Previous(current) \in {"(", "{", "["}
             /\ \/ current' = current
                \/ current' = current - 1 /\ Previous(current) \in {"{", "["}

\* a list of steps that add at most g calls
Fitting(todo, g) == todo \in Seq(Plain) /\ Fits(todo, g)

LEMMA FitsMore ==
  ASSUME NEW todo, NEW g \in Nat, NEW h \in Nat, g <= h, Len(todo) \in Nat, Fits(todo, g)
  PROVE  Fits(todo, h)
BY GrowIsNat DEF Fits

LEMMA StayOrdinary ==
  ASSUME NEW x \in Plain, stack # <<>>, Head(stack) = x,
         NEW todo, Fitting(todo, Grow(x)), current' = current, Then(todo), Frame
  PROVE  Ordinary
BY DEF Ordinary, Frame, Fitting

LEMMA SkipOrdinary ==
  ASSUME TypeOK, NEW x \in Plain, stack # <<>>, Head(stack) = x,
         NEW todo, Fitting(todo, Grow(x)), Skip(todo)
  PROVE  Ordinary
BY StayOrdinary DEF Skip

LEMMA AcceptOrdinary ==
  ASSUME TypeOK, NEW x \in Plain, stack # <<>>, Head(stack) = x,
         NEW t, t \notin DeclKeywords \cup {"EOF"},
         NEW todo, Fitting(todo, Grow(x) + 6), Accept(t, todo)
  PROVE  Ordinary
BY DEF Accept, Ordinary, Frame, Check, AtEnd, Advanced, Fitting

LEMMA MatchOrdinary ==
  ASSUME TypeOK, NEW x \in Plain, stack # <<>>, Head(stack) = x,
         NEW t, t \notin DeclKeywords \cup {"EOF"},
         NEW todo, Fitting(todo, Grow(x) + 6),
         NEW otherwise, Fitting(otherwise, Grow(x)), Match(t, todo, otherwise)
  PROVE  Ordinary
BY AcceptOrdinary, SkipOrdinary DEF Match

LEMMA FittingTuples ==
  ASSUME NEW g \in Nat
  PROVE  /\ Fitting(<<>>, g)
         /\ \A a \in Plain : Cost(a) <= g => Fitting(<<a>>, g)
         /\ \A a, b \in Plain : Cost(a) <= g /\ Cost(b) <= g => Fitting(<<a, b>>, g)
         /\ \A a, b, c \in Plain : Cost(a) <= g /\ Cost(b) <= g /\ Cost(c) <= g
              => Fitting(<<a, b, c>>, g)
         /\ \A a, b, c, d \in Plain : Cost(a) <= g /\ Cost(b) <= g /\ Cost(c) <= g /\ Cost(d) <= g
              => Fitting(<<a, b, c, d>>, g)
         /\ \A a, b, c, d, e \in Plain :
              Cost(a) <= g /\ Cost(b) <= g /\ Cost(c) <= g /\ Cost(d) <= g /\ Cost(e) <= g
              => Fitting(<<a, b, c, d, e>>, g)
BY FitsTuples, PlainTuples DEF Fitting

\* Each function of the parser that no declaration starts in takes such steps.
LEMMA ModulePathOrdinary ==
  ASSUME TypeOK, ModulePath
  PROVE  Ordinary
<1>1. CASE Calling("module_decl") /\ Skip(<<<<"take", "module">>, <<"module_path">>>>)
  <2>1. /\ Grow(<<"module_decl">>) \in Nat
        /\ \A t : Cost(<<"take", t>>) <= Grow(<<"module_decl">>)
        /\ Cost(<<"module_path">>) <= Grow(<<"module_decl">>)
    BY Costs
  <2>2. Fitting(<<<<"take", "module">>, <<"module_path">>>>, Grow(<<"module_decl">>))
    BY <2>1, FittingTuples, PlainNamed, Zenon
  <2> QED
    BY <1>1, <2>2, SkipOrdinary, PlainNamed, Zenon DEF Calling
<1>2. CASE Calling("module_path") /\ Skip(<<<<"take", "id">>, <<"path_tail">>>>)
  <2>1. /\ Grow(<<"module_path">>) \in Nat
        /\ \A t : Cost(<<"take", t>>) <= Grow(<<"module_path">>)
        /\ Cost(<<"path_tail">>) <= Grow(<<"module_path">>)
    BY Costs
  <2>2. Fitting(<<<<"take", "id">>, <<"path_tail">>>>, Grow(<<"module_path">>))
    BY <2>1, FittingTuples, PlainNamed, Zenon
  <2> QED
    BY <1>2, <2>2, SkipOrdinary, PlainNamed, Zenon DEF Calling
<1>3. CASE Calling("path_tail") /\ Match(".", <<<<"take", "id">>, <<"path_tail">>>>, <<>>)
  <2>1. /\ Grow(<<"path_tail">>) + 6 \in Nat
        /\ \A t : Cost(<<"take", t>>) <= Grow(<<"path_tail">>) + 6
        /\ Cost(<<"path_tail">>) <= Grow(<<"path_tail">>) + 6
        /\ Grow(<<"path_tail">>) \in Nat
    BY Costs
  <2>2. /\ Fitting(<<<<"take", "id">>, <<"path_tail">>>>, Grow(<<"path_tail">>) + 6)
        /\ Fitting(<<>>, Grow(<<"path_tail">>))
    BY <2>1, FittingTuples, PlainNamed, Zenon
  <2>3. "." \notin DeclKeywords \cup {"EOF"}
    BY DEF DeclKeywords
  <2> QED
    BY <1>3, <2>2, <2>3, MatchOrdinary, PlainNamed, Zenon DEF Calling
<1> QED
  BY <1>1, <1>2, <1>3 DEF ModulePath

LEMMA ImportsOrdinary ==
  ASSUME TypeOK, Imports
  PROVE  Ordinary
<1>1. CASE Calling("imports") /\ Match("import", <<<<"import_decl">>, <<"imports">>>>, <<>>)
  <2>1. /\ Grow(<<"imports">>) + 6 \in Nat
        /\ Cost(<<"import_decl">>) <= Grow(<<"imports">>) + 6
        /\ Cost(<<"imports">>) <= Grow(<<"imports">>) + 6
        /\ Grow(<<"imports">>) \in Nat
    BY Costs
  <2>2. /\ Fitting(<<<<"import_decl">>, <<"imports">>>>, Grow(<<"imports">>) + 6)
        /\ Fitting(<<>>, Grow(<<"imports">>))
    BY <2>1, FittingTuples, PlainNamed, Zenon
  <2>3. "import" \notin DeclKeywords \cup {"EOF"}
    BY DEF DeclKeywords
  <2> QED
    BY <1>1, <2>2, <2>3, MatchOrdinary, PlainNamed, Zenon DEF Calling
<1>2. CASE Calling("import_decl") /\ Skip(<<<<"module_path">>, <<"import_symbols">>>>)
  <2>1. /\ Grow(<<"import_decl">>) \in Nat
        /\ Cost(<<"module_path">>) <= Grow(<<"import_decl">>)
        /\ Cost(<<"import_symbols">>) <= Grow(<<"import_decl">>)
    BY Costs
  <2>2. Fitting(<<<<"module_path">>, <<"import_symbols">>>>, Grow(<<"import_decl">>))
    BY <2>1, FittingTuples, PlainNamed, Zenon
  <2> QED
    BY <1>2, <2>2, SkipOrdinary, PlainNamed, Zenon DEF Calling
<1>3. CASE Calling("import_symbols") /\ Match("{", <<<<"symbols">>, <<"take", "}">>>>, <<>>)
  <2>1. /\ Grow(<<"import_symbols">>) + 6 \in Nat
        /\ Cost(<<"symbols">>) <= Grow(<<"import_symbols">>) + 6
        /\ \A t : Cost(<<"take", t>>) <= Grow(<<"import_symbols">>) + 6
        /\ Grow(<<"import_symbols">>) \in Nat
    BY Costs
  <2>2. /\ Fitting(<<<<"symbols">>, <<"take", "}">>>>, Grow(<<"import_symbols">>) + 6)
        /\ Fitting(<<>>, Grow(<<"import_symbols">>))
    BY <2>1, FittingTuples, PlainNamed, Zenon
  <2>3. "{" \notin DeclKeywords \cup {"EOF"}
    BY DEF DeclKeywords
  <2> QED
    BY <1>3, <2>2, <2>3, MatchOrdinary, PlainNamed, Zenon DEF Calling
<1>4. CASE /\ Calling("symbols")
           /\ \/ Skip(<<>>)
              \/ Skip(<<<<"take", "id">>, <<"symbols_tail">>>>)
  <2>1. /\ Grow(<<"symbols">>) \in Nat
        /\ \A t : Cost(<<"take", t>>) <= Grow(<<"symbols">>)
        /\ Cost(<<"symbols_tail">>) <= Grow(<<"symbols">>)
    BY Costs
  <2>2. /\ Fitting(<<>>, Grow(<<"symbols">>))
        /\ Fitting(<<<<"take", "id">>, <<"symbols_tail">>>>, Grow(<<"symbols">>))
    BY <2>1, FittingTuples, PlainNamed, Zenon
  <2> QED
    BY <1>4, <2>2, SkipOrdinary, PlainNamed, Zenon DEF Calling
<1>5. CASE Calling("symbols_tail") /\ Match(",", <<<<"symbols">>>>, <<>>)
  <2>1. /\ Grow(<<"symbols_tail">>) + 6 \in Nat
        /\ Cost(<<"symbols">>) <= Grow(<<"symbols_tail">>) + 6
        /\ Grow(<<"symbols_tail">>) \in Nat
    BY Costs
  <2>2. /\ Fitting(<<<<"symbols">>>>, Grow(<<"symbols_tail">>) + 6)
        /\ Fitting(<<>>, Grow(<<"symbols_tail">>))
    BY <2>1, FittingTuples, PlainNamed, Zenon
  <2>3. "," \notin DeclKeywords \cup {"EOF"}
    BY DEF DeclKeywords
  <2> QED
    BY <1>5, <2>2, <2>3, MatchOrdinary, PlainNamed, Zenon DEF Calling
<1> QED
  BY <1>1, <1>2, <1>3, <1>4, <1>5 DEF Imports

LEMMA ParamsOrdinary ==
  ASSUME TypeOK, Params
  PROVE  Ordinary
<1>1. CASE /\ Calling("param_list")
           /\ \/ Skip(<<<<"take", ")">>>>)
              \/ Skip(<<<<"param">>, <<"params_tail">>>>)
  <2>1. /\ Grow(<<"param_list">>) \in Nat
        /\ \A t : Cost(<<"take", t>>) <= Grow(<<"param_list">>)
        /\ Cost(<<"param">>) <= Grow(<<"param_list">>)
        /\ Cost(<<"params_tail">>) <= Grow(<<"param_list">>)
    BY Costs
  <2>2. /\ Fitting(<<<<"take", ")">>>>, Grow(<<"param_list">>))
        /\ Fitting(<<<<"param">>, <<"params_tail">>>>, Grow(<<"param_list">>))
    BY <2>1, FittingTuples, PlainNamed, Zenon
  <2> QED
    BY <1>1, <2>2, SkipOrdinary, PlainNamed, Zenon DEF Calling
<1>2. CASE Calling("param") /\ Skip(<<<<"take", "id">>, <<"annotation">>>>)
  <2>1. /\ Grow(<<"param">>) \in Nat
        /\ \A t : Cost(<<"take", t>>) <= Grow(<<"param">>)
        /\ Cost(<<"annotation">>) <= Grow(<<"param">>)
    BY Costs
  <2>2. Fitting(<<<<"take", "id">>, <<"annotation">>>>, Grow(<<"param">>))
    BY <2>1, FittingTuples, PlainNamed, Zenon
  <2> QED
    BY <1>2, <2>2, SkipOrdinary, PlainNamed, Zenon DEF Calling
<1>3. CASE Calling("params_tail") /\ Match(",", <<<<"param">>, <<"params_tail">>>>, <<<<"take", ")">>>>)
  <2>1. /\ Grow(<<"params_tail">>) + 6 \in Nat
        /\ Cost(<<"param">>) <= Grow(<<"params_tail">>) + 6
        /\ Cost(<<"params_tail">>) <= Grow(<<"params_tail">>) + 6
        /\ Grow(<<"params_tail">>) \in Nat
        /\ \A t : Cost(<<"take", t>>) <= Grow(<<"params_tail">>)
    BY Costs
  <2>2. /\ Fitting(<<<<"param">>, <<"params_tail">>>>, Grow(<<"params_tail">>) + 6)
        /\ Fitting(<<<<"take", ")">>>>, Grow(<<"params_tail">>))
    BY <2>1, FittingTuples, PlainNamed, Zenon
  <2>3. "," \notin DeclKeywords \cup {"EOF"}
    BY DEF DeclKeywords
  <2> QED
    BY <1>3, <2>2, <2>3, MatchOrdinary, PlainNamed, Zenon DEF Calling
<1>4. CASE Calling("annotation") /\ Match(":", <<<<"take", "id">>>>, <<>>)
  <2>1. /\ Grow(<<"annotation">>) + 6 \in Nat
        /\ \A t : Cost(<<"take", t>>) <= Grow(<<"annotation">>) + 6
        /\ Grow(<<"annotation">>) \in Nat
    BY Costs
  <2>2. /\ Fitting(<<<<"take", "id">>>>, Grow(<<"annotation">>) + 6)
        /\ Fitting(<<>>, Grow(<<"annotation">>))
    BY <2>1, FittingTuples, PlainNamed, Zenon
  <2>3. ":" \notin DeclKeywords \cup {"EOF"}
    BY DEF DeclKeywords
  <2> QED
    BY <1>4, <2>2, <2>3, MatchOrdinary, PlainNamed, Zenon DEF Calling
<1>5. CASE Calling("payload") /\ Match("(", <<<<"param_list">>>>, <<>>)
  <2>1. /\ Grow(<<"payload">>) + 6 \in Nat
        /\ Cost(<<"param_list">>) <= Grow(<<"payload">>) + 6
        /\ Grow(<<"payload">>) \in Nat
    BY Costs
  <2>2. /\ Fitting(<<<<"param_list">>>>, Grow(<<"payload">>) + 6)
        /\ Fitting(<<>>, Grow(<<"payload">>))
    BY <2>1, FittingTuples, PlainNamed, Zenon
  <2>3. "(" \notin DeclKeywords \cup {"EOF"}
    BY DEF DeclKeywords
  <2> QED
    BY <1>5, <2>2, <2>3, MatchOrdinary, PlainNamed, Zenon DEF Calling
<1> QED
  BY <1>1, <1>2, <1>3, <1>4, <1>5 DEF Params

LEMMA ExpressionOrdinary ==
  ASSUME TypeOK, Expression
  PROVE  Ordinary
<1>1. CASE /\ Calling("expression")
           /\ \/ Accept("if", <<<<"expression">>, <<"block_expression">>, <<"else">>>>)
              \/ Accept("while", <<<<"expression">>, <<"block_expression">>>>)
              \/ Accept("match", <<<<"match_expr">>>>)
              \/ Accept("async", <<<<"block_expression">>>>)
              \/ Skip(<<<<"unary_or_pipe">>>>)
  <2>1. /\ Grow(<<"expression">>) + 6 \in Nat
        /\ Cost(<<"expression">>) <= Grow(<<"expression">>) + 6
        /\ Cost(<<"block_expression">>) <= Grow(<<"expression">>) + 6
        /\ Cost(<<"else">>) <= Grow(<<"expression">>) + 6
        /\ Cost(<<"match_expr">>) <= Grow(<<"expression">>) + 6
        /\ Grow(<<"expression">>) \in Nat
        /\ Cost(<<"unary_or_pipe">>) <= Grow(<<"expression">>)
    BY Costs
  <2>2. /\ Fitting(<<<<"expression">>, <<"block_expression">>, <<"else">>>>, Grow(<<"expression">>) + 6)
        /\ Fitting(<<<<"expression">>, <<"block_expression">>>>, Grow(<<"expression">>) + 6)
        /\ Fitting(<<<<"match_expr">>>>, Grow(<<"expression">>) + 6)
        /\ Fitting(<<<<"block_expression">>>>, Grow(<<"expression">>) + 6)
        /\ Fitting(<<<<"unary_or_pipe">>>>, Grow(<<"expression">>))
    BY <2>1, FittingTuples, PlainNamed, Zenon
  <2>3. /\ "if" \notin DeclKeywords \cup {"EOF"}
        /\ "while" \notin DeclKeywords \cup {"EOF"}
        /\ "match" \notin DeclKeywords \cup {"EOF"}
        /\ "async" \notin DeclKeywords \cup {"EOF"}
    BY DEF DeclKeywords
  <2> QED
    BY <1>1, <2>2, <2>3, AcceptOrdinary, SkipOrdinary, PlainNamed, Zenon DEF Calling
<1>2. CASE /\ Calling("else")
           /\ \/ Match("else", <<<<"expression">>>>, <<>>)
              \/ Match("else", <<<<"block_expression">>>>, <<>>)
  <2>1. /\ Grow(<<"else">>) + 6 \in Nat
        /\ Cost(<<"expression">>) <= Grow(<<"else">>) + 6
        /\ Grow(<<"else">>) \in Nat
        /\ Cost(<<"block_expression">>) <= Grow(<<"else">>) + 6
    BY Costs
  <2>2. /\ Fitting(<<<<"expression">>>>, Grow(<<"else">>) + 6)
        /\ Fitting(<<>>, Grow(<<"else">>))
        /\ Fitting(<<<<"block_expression">>>>, Grow(<<"else">>) + 6)
    BY <2>1, FittingTuples, PlainNamed, Zenon
  <2>3. "else" \notin DeclKeywords \cup {"EOF"}
    BY DEF DeclKeywords
  <2> QED
    BY <1>2, <2>2, <2>3, MatchOrdinary, PlainNamed, Zenon DEF Calling
<1> QED
  BY <1>1, <1>2 DEF Expression

LEMMA OperandOrdinary ==
  ASSUME TypeOK, Operand
  PROVE  Ordinary
<1>1. CASE /\ Calling("unary_or_pipe")
           /\ \/ Accept("await", <<<<"expression">>>>)
              \/ Accept("!", <<<<"expression">>>>)
              \/ Skip(<<<<"pipe_expr">>>>)
  <2>1. /\ Grow(<<"unary_or_pipe">>) + 6 \in Nat
        /\ Cost(<<"expression">>) <= Grow(<<"unary_or_pipe">>) + 6
        /\ Grow(<<"unary_or_pipe">>) \in Nat
        /\ Cost(<<"pipe_expr">>) <= Grow(<<"unary_or_pipe">>)
    BY Costs
  <2>2. /\ Fitting(<<<<"expression">>>>, Grow(<<"unary_or_pipe">>) + 6)
        /\ Fitting(<<<<"pipe_expr">>>>, Grow(<<"unary_or_pipe">>))
    BY <2>1, FittingTuples, PlainNamed, Zenon
  <2>3. /\ "await" \notin DeclKeywords \cup {"EOF"}
        /\ "!" \notin DeclKeywords \cup {"EOF"}
    BY DEF DeclKeywords
  <2> QED
    BY <1>1, <2>2, <2>3, AcceptOrdinary, SkipOrdinary, PlainNamed, Zenon DEF Calling
<1>2. CASE Calling("pipe_expr") /\ Skip(<<<<"call_expr">>, <<"pipe_tail">>>>)
  <2>1. /\ Grow(<<"pipe_expr">>) \in Nat
        /\ Cost(<<"call_expr">>) <= Grow(<<"pipe_expr">>)
        /\ Cost(<<"pipe_tail">>) <= Grow(<<"pipe_expr">>)
    BY Costs
  <2>2. Fitting(<<<<"call_expr">>, <<"pipe_tail">>>>, Grow(<<"pipe_expr">>))
    BY <2>1, FittingTuples, PlainNamed, Zenon
  <2> QED
    BY <1>2, <2>2, SkipOrdinary, PlainNamed, Zenon DEF Calling
<1>3. CASE Calling("pipe_tail") /\ Match("|>", <<<<"call_expr">>, <<"pipe_tail">>>>, <<>>)
  <2>1. /\ Grow(<<"pipe_tail">>) + 6 \in Nat
        /\ Cost(<<"call_expr">>) <= Grow(<<"pipe_tail">>) + 6
        /\ Cost(<<"pipe_tail">>) <= Grow(<<"pipe_tail">>) + 6
        /\ Grow(<<"pipe_tail">>) \in Nat
    BY Costs
  <2>2. /\ Fitting(<<<<"call_expr">>, <<"pipe_tail">>>>, Grow(<<"pipe_tail">>) + 6)
        /\ Fitting(<<>>, Grow(<<"pipe_tail">>))
    BY <2>1, FittingTuples, PlainNamed, Zenon
  <2>3. "|>" \notin DeclKeywords \cup {"EOF"}
    BY DEF DeclKeywords
  <2> QED
    BY <1>3, <2>2, <2>3, MatchOrdinary, PlainNamed, Zenon DEF Calling
<1>4. CASE Calling("call_expr") /\ Skip(<<<<"primary">>, <<"call_tail">>>>)
  <2>1. /\ Grow(<<"call_expr">>) \in Nat
        /\ Cost(<<"primary">>) <= Grow(<<"call_expr">>)
        /\ Cost(<<"call_tail">>) <= Grow(<<"call_expr">>)
    BY Costs
  <2>2. Fitting(<<<<"primary">>, <<"call_tail">>>>, Grow(<<"call_expr">>))
    BY <2>1, FittingTuples, PlainNamed, Zenon
  <2> QED
    BY <1>4, <2>2, SkipOrdinary, PlainNamed, Zenon DEF Calling
<1>5. CASE Calling("call_tail") /\ Match("(", <<<<"argument_list">>, <<"call_tail">>>>, <<>>)
  <2>1. /\ Grow(<<"call_tail">>) + 6 \in Nat
        /\ Cost(<<"argument_list">>) <= Grow(<<"call_tail">>) + 6
        /\ Cost(<<"call_tail">>) <= Grow(<<"call_tail">>) + 6
        /\ Grow(<<"call_tail">>) \in Nat
    BY Costs
  <2>2. /\ Fitting(<<<<"argument_list">>, <<"call_tail">>>>, Grow(<<"call_tail">>) + 6)
        /\ Fitting(<<>>, Grow(<<"call_tail">>))
    BY <2>1, FittingTuples, PlainNamed, Zenon
  <2>3. "(" \notin DeclKeywords \cup {"EOF"}
    BY DEF DeclKeywords
  <2> QED
    BY <1>5, <2>2, <2>3, MatchOrdinary, PlainNamed, Zenon DEF Calling
<1> QED
  BY <1>1, <1>2, <1>3, <1>4, <1>5 DEF Operand

LEMMA ArgumentsOrdinary ==
  ASSUME TypeOK, Arguments
  PROVE  Ordinary
<1>1. CASE /\ Calling("argument_list")
           /\ \/ Skip(<<<<"take", ")">>>>)
              \/ Skip(<<<<"arg">>, <<"args_tail">>>>)
  <2>1. /\ Grow(<<"argument_list">>) \in Nat
        /\ \A t : Cost(<<"take", t>>) <= Grow(<<"argument_list">>)
        /\ Cost(<<"arg">>) <= Grow(<<"argument_list">>)
        /\ Cost(<<"args_tail">>) <= Grow(<<"argument_list">>)
    BY Costs
  <2>2. /\ Fitting(<<<<"take", ")">>>>, Grow(<<"argument_list">>))
        /\ Fitting(<<<<"arg">>, <<"args_tail">>>>, Grow(<<"argument_list">>))
    BY <2>1, FittingTuples, PlainNamed, Zenon
  <2> QED
    BY <1>1, <2>2, SkipOrdinary, PlainNamed, Zenon DEF Calling
<1>2. CASE /\ Calling("arg")
           /\ \/ Accept("id", <<<<"take", "=">>, <<"expression">>>>)
              \/ Skip(<<<<"expression">>>>)
  <2>1. /\ Grow(<<"arg">>) + 6 \in Nat
        /\ \A t : Cost(<<"take", t>>) <= Grow(<<"arg">>) + 6
        /\ Cost(<<"expression">>) <= Grow(<<"arg">>) + 6
        /\ Grow(<<"arg">>) \in Nat
        /\ Cost(<<"expression">>) <= Grow(<<"arg">>)
    BY Costs
  <2>2. /\ Fitting(<<<<"take", "=">>, <<"expression">>>>, Grow(<<"arg">>) + 6)
        /\ Fitting(<<<<"expression">>>>, Grow(<<"arg">>))
    BY <2>1, FittingTuples, PlainNamed, Zenon
  <2>3. "id" \notin DeclKeywords \cup {"EOF"}
    BY DEF DeclKeywords
  <2> QED
    BY <1>2, <2>2, <2>3, AcceptOrdinary, SkipOrdinary, PlainNamed, Zenon DEF Calling
<1>3. CASE Calling("args_tail") /\ Match(",", <<<<"arg">>, <<"args_tail">>>>, <<<<"take", ")">>>>)
  <2>1. /\ Grow(<<"args_tail">>) + 6 \in Nat
        /\ Cost(<<"arg">>) <= Grow(<<"args_tail">>) + 6
        /\ Cost(<<"args_tail">>) <= Grow(<<"args_tail">>) + 6
        /\ Grow(<<"args_tail">>) \in Nat
        /\ \A t : Cost(<<"take", t>>) <= Grow(<<"args_tail">>)
    BY Costs
  <2>2. /\ Fitting(<<<<"arg">>, <<"args_tail">>>>, Grow(<<"args_tail">>) + 6)
        /\ Fitting(<<<<"take", ")">>>>, Grow(<<"args_tail">>))
    BY <2>1, FittingTuples, PlainNamed, Zenon
  <2>3. "," \notin DeclKeywords \cup {"EOF"}
    BY DEF DeclKeywords
  <2> QED
    BY <1>3, <2>2, <2>3, MatchOrdinary, PlainNamed, Zenon DEF Calling
<1> QED
  BY <1>1, <1>2, <1>3 DEF Arguments

LEMMA LambdaOrdinary ==
  ASSUME TypeOK, Lambda
  PROVE  Ordinary
<1>1. CASE Calling("lambda") /\ Skip(<<<<"param_list">>, <<"take", "->">>, <<"expression">>>>)
  <2>1. /\ Grow(<<"lambda">>) \in Nat
        /\ Cost(<<"param_list">>) <= Grow(<<"lambda">>)
        /\ \A t : Cost(<<"take", t>>) <= Grow(<<"lambda">>)
        /\ Cost(<<"expression">>) <= Grow(<<"lambda">>)
    BY Costs
  <2>2. Fitting(<<<<"param_list">>, <<"take", "->">>, <<"expression">>>>, Grow(<<"lambda">>))
    BY <2>1, FittingTuples, PlainNamed, Zenon
  <2> QED
    BY <1>1, <2>2, SkipOrdinary, PlainNamed, Zenon DEF Calling
<1> QED
  BY <1>1 DEF Lambda

LEMMA BlockOrdinary ==
  ASSUME TypeOK, Block
  PROVE  Ordinary
<1>1. CASE Calling("block_expression") /\ Skip(<<<<"take", "{">>, <<"items">>, <<"take", "}">>>>)
  <2>1. /\ Grow(<<"block_expression">>) \in Nat
        /\ \A t : Cost(<<"take", t>>) <= Grow(<<"block_expression">>)
        /\ Cost(<<"items">>) <= Grow(<<"block_expression">>)
    BY Costs
  <2>2. Fitting(<<<<"take", "{">>, <<"items">>, <<"take", "}">>>>, Grow(<<"block_expression">>))
    BY <2>1, FittingTuples, PlainNamed, Zenon
  <2> QED
    BY <1>1, <2>2, SkipOrdinary, PlainNamed, Zenon DEF Calling
<1>2. CASE /\ Calling("items")
           /\ \/ Skip(<<>>)
              \/ Skip(<<<<"expression">>, <<"items_sep">>>>)
  <2>1. /\ Grow(<<"items">>) \in Nat
        /\ Cost(<<"expression">>) <= Grow(<<"items">>)
        /\ Cost(<<"items_sep">>) <= Grow(<<"items">>)
    BY Costs
  <2>2. /\ Fitting(<<>>, Grow(<<"items">>))
        /\ Fitting(<<<<"expression">>, <<"items_sep">>>>, Grow(<<"items">>))
    BY <2>1, FittingTuples, PlainNamed, Zenon
  <2> QED
    BY <1>2, <2>2, SkipOrdinary, PlainNamed, Zenon DEF Calling
<1>3. CASE Calling("items_sep") /\ Match(";", <<<<"items">>>>, <<<<"items">>>>)
  <2>1. /\ Grow(<<"items_sep">>) + 6 \in Nat
        /\ Cost(<<"items">>) <= Grow(<<"items_sep">>) + 6
        /\ Grow(<<"items_sep">>) \in Nat
        /\ Cost(<<"items">>) <= Grow(<<"items_sep">>)
    BY Costs
  <2>2. /\ Fitting(<<<<"items">>>>, Grow(<<"items_sep">>) + 6)
        /\ Fitting(<<<<"items">>>>, Grow(<<"items_sep">>))
    BY <2>1, FittingTuples, PlainNamed, Zenon
  <2>3. ";" \notin DeclKeywords \cup {"EOF"}
    BY DEF DeclKeywords
  <2> QED
    BY <1>3, <2>2, <2>3, MatchOrdinary, PlainNamed, Zenon DEF Calling
<1> QED
  BY <1>1, <1>2, <1>3 DEF Block

LEMMA ArmsOrdinary ==
  ASSUME TypeOK, Arms
  PROVE  Ordinary
<1>1. CASE Calling("match_expr") /\ Skip(<<<<"expression">>, <<"take", "{">>, <<"arms">>, <<"take", "}">>>>)
  <2>1. /\ Grow(<<"match_expr">>) \in Nat
        /\ Cost(<<"expression">>) <= Grow(<<"match_expr">>)
        /\ \A t : Cost(<<"take", t>>) <= Grow(<<"match_expr">>)
        /\ Cost(<<"arms">>) <= Grow(<<"match_expr">>)
    BY Costs
  <2>2. Fitting(<<<<"expression">>, <<"take", "{">>, <<"arms">>, <<"take", "}">>>>, Grow(<<"match_expr">>))
    BY <2>1, FittingTuples, PlainNamed, Zenon
  <2> QED
    BY <1>1, <2>2, SkipOrdinary, PlainNamed, Zenon DEF Calling
<1>2. CASE /\ Calling("arms")
           /\ \/ Skip(<<>>)
              \/ Skip(<<<<"take", "id">>, <<"payload">>, <<"take", "->">>, <<"expression">>, <<"arms_sep">>>>)
  <2>1. /\ Grow(<<"arms">>) \in Nat
        /\ \A t : Cost(<<"take", t>>) <= Grow(<<"arms">>)
        /\ Cost(<<"payload">>) <= Grow(<<"arms">>)
        /\ Cost(<<"expression">>) <= Grow(<<"arms">>)
        /\ Cost(<<"arms_sep">>) <= Grow(<<"arms">>)
    BY Costs
  <2>2. /\ Fitting(<<>>, Grow(<<"arms">>))
        /\ Fitting(<<<<"take", "id">>, <<"payload">>, <<"take", "->">>, <<"expression">>, <<"arms_sep">>>>, Grow(<<"arms">>))
    BY <2>1, FittingTuples, PlainNamed, Zenon
  <2> QED
    BY <1>2, <2>2, SkipOrdinary, PlainNamed, Zenon DEF Calling
<1>3. CASE Calling("arms_sep") /\ Match(";", <<<<"arms">>>>, <<<<"arms">>>>)
  <2>1. /\ Grow(<<"arms_sep">>) + 6 \in Nat
        /\ Cost(<<"arms">>) <= Grow(<<"arms_sep">>) + 6
        /\ Grow(<<"arms_sep">>) \in Nat
        /\ Cost(<<"arms">>) <= Grow(<<"arms_sep">>)
    BY Costs
  <2>2. /\ Fitting(<<<<"arms">>>>, Grow(<<"arms_sep">>) + 6)
        /\ Fitting(<<<<"arms">>>>, Grow(<<"arms_sep">>))
    BY <2>1, FittingTuples, PlainNamed, Zenon
  <2>3. ";" \notin DeclKeywords \cup {"EOF"}
    BY DEF DeclKeywords
  <2> QED
    BY <1>3, <2>2, <2>3, MatchOrdinary, PlainNamed, Zenon DEF Calling
<1> QED
  BY <1>1, <1>2, <1>3 DEF Arms

LEMMA ListOrdinary ==
  ASSUME TypeOK, List
  PROVE  Ordinary
<1>1. CASE Calling("list_literal") /\ Skip(<<<<"take", "[">>, <<"list_items">>>>)
  <2>1. /\ Grow(<<"list_literal">>) \in Nat
        /\ \A t : Cost(<<"take", t>>) <= Grow(<<"list_literal">>)
        /\ Cost(<<"list_items">>) <= Grow(<<"list_literal">>)
    BY Costs
  <2>2. Fitting(<<<<"take", "[">>, <<"list_items">>>>, Grow(<<"list_literal">>))
    BY <2>1, FittingTuples, PlainNamed, Zenon
  <2> QED
    BY <1>1, <2>2, SkipOrdinary, PlainNamed, Zenon DEF Calling
<1>2. CASE /\ Calling("list_items")
           /\ \/ Skip(<<<<"take", "]">>>>)
              \/ Skip(<<<<"expression">>, <<"list_tail">>>>)
  <2>1. /\ Grow(<<"list_items">>) \in Nat
        /\ \A t : Cost(<<"take", t>>) <= Grow(<<"list_items">>)
        /\ Cost(<<"expression">>) <= Grow(<<"list_items">>)
        /\ Cost(<<"list_tail">>) <= Grow(<<"list_items">>)
    BY Costs
  <2>2. /\ Fitting(<<<<"take", "]">>>>, Grow(<<"list_items">>))
        /\ Fitting(<<<<"expression">>, <<"list_tail">>>>, Grow(<<"list_items">>))
    BY <2>1, FittingTuples, PlainNamed, Zenon
  <2> QED
    BY <1>2, <2>2, SkipOrdinary, PlainNamed, Zenon DEF Calling
<1>3. CASE Calling("list_tail") /\ Match(",", <<<<"expression">>, <<"list_tail">>>>, <<<<"take", "]">>>>)
  <2>1. /\ Grow(<<"list_tail">>) + 6 \in Nat
        /\ Cost(<<"expression">>) <= Grow(<<"list_tail">>) + 6
        /\ Cost(<<"list_tail">>) <= Grow(<<"list_tail">>) + 6
        /\ Grow(<<"list_tail">>) \in Nat
        /\ \A t : Cost(<<"take", t>>) <= Grow(<<"list_tail">>)
    BY Costs
  <2>2. /\ Fitting(<<<<"expression">>, <<"list_tail">>>>, Grow(<<"list_tail">>) + 6)
        /\ Fitting(<<<<"take", "]">>>>, Grow(<<"list_tail">>))
    BY <2>1, FittingTuples, PlainNamed, Zenon
  <2>3. "," \notin DeclKeywords \cup {"EOF"}
    BY DEF DeclKeywords
  <2> QED
    BY <1>3, <2>2, <2>3, MatchOrdinary, PlainNamed, Zenon DEF Calling
<1> QED
  BY <1>1, <1>2, <1>3 DEF List

LEMMA TypeBodyOrdinary ==
  ASSUME TypeOK, TypeBody
  PROVE  Ordinary
<1>1. CASE /\ Calling("type_body")
           /\ \/ Accept("=", <<<<"variant_list">>>>)
              \/ Accept("(", <<<<"param_list">>>>)
              \/ current' = current /\ Then(<<>>) /\ Frame
  <2>1. /\ Grow(<<"type_body">>) + 6 \in Nat
        /\ Cost(<<"variant_list">>) <= Grow(<<"type_body">>) + 6
        /\ Cost(<<"param_list">>) <= Grow(<<"type_body">>) + 6
        /\ Grow(<<"type_body">>) \in Nat
    BY Costs
  <2>2. /\ Fitting(<<<<"variant_list">>>>, Grow(<<"type_body">>) + 6)
        /\ Fitting(<<<<"param_list">>>>, Grow(<<"type_body">>) + 6)
        /\ Fitting(<<>>, Grow(<<"type_body">>))
    BY <2>1, FittingTuples, PlainNamed, Zenon
  <2>3. /\ "=" \notin DeclKeywords \cup {"EOF"}
        /\ "(" \notin DeclKeywords \cup {"EOF"}
    BY DEF DeclKeywords
  <2> QED
    BY <1>1, <2>2, <2>3, AcceptOrdinary, StayOrdinary, PlainNamed, Zenon DEF Calling
<1>2. CASE Calling("variant_list") /\ Skip(<<<<"variant_decl">>, <<"variants_tail">>>>)
  <2>1. /\ Grow(<<"variant_list">>) \in Nat
        /\ Cost(<<"variant_decl">>) <= Grow(<<"variant_list">>)
        /\ Cost(<<"variants_tail">>) <= Grow(<<"variant_list">>)
    BY Costs
  <2>2. Fitting(<<<<"variant_decl">>, <<"variants_tail">>>>, Grow(<<"variant_list">>))
    BY <2>1, FittingTuples, PlainNamed, Zenon
  <2> QED
    BY <1>2, <2>2, SkipOrdinary, PlainNamed, Zenon DEF Calling
<1>3. CASE Calling("variant_decl") /\ Skip(<<<<"take", "id">>, <<"payload">>>>)
  <2>1. /\ Grow(<<"variant_decl">>) \in Nat
        /\ \A t : Cost(<<"take", t>>) <= Grow(<<"variant_decl">>)
        /\ Cost(<<"payload">>) <= Grow(<<"variant_decl">>)
    BY Costs
  <2>2. Fitting(<<<<"take", "id">>, <<"payload">>>>, Grow(<<"variant_decl">>))
    BY <2>1, FittingTuples, PlainNamed, Zenon
  <2> QED
    BY <1>3, <2>2, SkipOrdinary, PlainNamed, Zenon DEF Calling
<1>4. CASE Calling("variants_tail") /\ Match("|", <<<<"variant_decl">>, <<"variants_tail">>>>, <<>>)
  <2>1. /\ Grow(<<"variants_tail">>) + 6 \in Nat
        /\ Cost(<<"variant_decl">>) <= Grow(<<"variants_tail">>) + 6
        /\ Cost(<<"variants_tail">>) <= Grow(<<"variants_tail">>) + 6
        /\ Grow(<<"variants_tail">>) \in Nat
    BY Costs
  <2>2. /\ Fitting(<<<<"variant_decl">>, <<"variants_tail">>>>, Grow(<<"variants_tail">>) + 6)
        /\ Fitting(<<>>, Grow(<<"variants_tail">>))
    BY <2>1, FittingTuples, PlainNamed, Zenon
  <2>3. "|" \notin DeclKeywords \cup {"EOF"}
    BY DEF DeclKeywords
  <2> QED
    BY <1>4, <2>2, <2>3, MatchOrdinary, PlainNamed, Zenon DEF Calling
<1> QED
  BY <1>1, <1>2, <1>3, <1>4 DEF TypeBody

\* consume, unless it is for the keyword that a declaration starts with
LEMMA ConsumeOrdinary ==
  ASSUME TypeOK, Consume, Head(stack) \in Plain
  PROVE  Ordinary
<1>1. PICK t \in Kinds :
        /\ Head(stack) = <<"take", t>>
        /\ \/ Accept(t, <<>>)
           \/ current' = current /\ Then(<<>>) /\ Frame
  BY DEF Consume
<1>2. stack # <<>> /\ t \notin DeclKeywords
  BY <1>1 DEF Consume, Plain, Opening
<1>3. Grow(<<"take", t>>) \in Nat /\ Grow(<<"take", t>>) + 6 \in Nat
  BY GrowIsNat
<1>4. Fitting(<<>>, Grow(<<"take", t>>)) /\ Fitting(<<>>, Grow(<<"take", t>>) + 6)
  BY <1>3, FittingTuples, Zenon
<1>5. CASE t = "EOF" /\ Accept(t, <<>>)
  BY <1>1, <1>2, <1>4, <1>5, StayOrdinary DEF Accept, Advanced, AtEnd, Check
<1>6. CASE t # "EOF" /\ Accept(t, <<>>)
  <2>1. t \notin DeclKeywords \cup {"EOF"}
    BY <1>2, <1>6
  <2> QED
    BY <1>1, <1>2, <1>4, <1>6, <2>1, AcceptOrdinary, Zenon
<1>7. CASE current' = current /\ Then(<<>>) /\ Frame
  BY <1>1, <1>2, <1>4, <1>7, StayOrdinary, Zenon
<1> QED
  BY <1>1, <1>5, <1>6, <1>7

\* parse_primary reads the token before it at the end of the input.
LEMMA ReadsToken ==
  ASSUME TypeOK
  PROVE  /\ AtEnd => Advanced = current /\ Previous(Advanced) = Previous(current)
         /\ ~AtEnd => Advanced = current + 1 /\ Previous(Advanced) = Peek(current)
<1>1. current \in Nat /\ Len(tokens) \in Nat
  BY LenProperties DEF TypeOK
<1> QED
  BY <1>1 DEF Advanced, AtEnd, Peek, Previous

LEMMA PrimaryOrdinary ==
  ASSUME TypeOK, Primary
  PROVE  Ordinary
<1> DEFINE x == <<"primary">>
<1>1. x \in Plain /\ stack # <<>> /\ Head(stack) = x
  BY PlainNamed, Zenon DEF Primary, Calling
<1>2. /\ Grow(x) \in Nat /\ Grow(x) + 6 \in Nat /\ Cost(<<"lambda">>) <= Grow(x) + 6
      /\ Cost(<<"expression">>) <= Grow(x) + 6 /\ \A t : Cost(<<"take", t>>) <= Grow(x) + 6
  BY Costs
<1>3. /\ Fitting(<<<<"lambda">>>>, Grow(x) + 6)
      /\ Fitting(<<<<"expression">>, <<"take", ")">>>>, Grow(x) + 6)
      /\ Fitting(<<>>, Grow(x)) /\ Fitting(<<>>, Grow(x) + 6)
  BY <1>2, FittingTuples, PlainNamed, Zenon
<1>4. /\ <<<<"block_expression">>>> \in Seq(Plain) /\ <<<<"list_literal">>>> \in Seq(Plain)
      /\ <<<<"expression">>, <<"take", ")">>>> \in Seq(Plain)
  BY PlainTuples, PlainNamed, Zenon
<1> HIDE DEF x
<1>5. CASE Accept("(", <<<<"lambda">>>>)
  <2>1. "(" \notin DeclKeywords \cup {"EOF"}
    BY DEF DeclKeywords
  <2> QED
    BY <1>1, <1>3, <1>5, <2>1, AcceptOrdinary, Zenon
<1>6. CASE /\ Frame /\ current' = Advanced /\ Then(<<>>)
           /\ Previous(Advanced) \in {"id", "lit"} \/ had_error'
  <2>1. CASE AtEnd
    BY <1>1, <1>3, <1>6, <2>1, ReadsToken, StayOrdinary
  <2>2. CASE ~AtEnd
    <3>1. current' = current + 1 /\ (Peek(current) \notin DeclKeywords \/ had_error')
      BY <1>6, <2>2, ReadsToken DEF DeclKeywords
    <3> QED
      BY <1>1, <1>3, <1>6, <2>2, <3>1 DEF Ordinary, Fitting, Frame
  <2> QED
    BY <2>1, <2>2
<1>7. CASE /\ Frame /\ current' = Advanced /\ Then(<<<<"expression">>, <<"take", ")">>>>)
           /\ Previous(Advanced) = "("
  <2>1. CASE AtEnd
    BY <1>1, <1>4, <1>7, <2>1, ReadsToken DEF Ordinary, Frame
  <2>2. CASE ~AtEnd
    <3>1. current' = current + 1 /\ Peek(current) \notin DeclKeywords
      BY <1>7, <2>2, ReadsToken DEF DeclKeywords
    <3> QED
      BY <1>1, <1>3, <1>7, <2>2, <3>1 DEF Ordinary, Fitting, Frame
  <2> QED
    BY <2>1, <2>2
<1>8. CASE /\ Frame /\ current' = Advanced - 1
           /\ \/ Previous(Advanced) = "{" /\ Then(<<<<"block_expression">>>>)
              \/ Previous(Advanced) = "[" /\ Then(<<<<"list_literal">>>>)
  <2>1. CASE AtEnd
    BY <1>1, <1>4, <1>8, <2>1, ReadsToken, Zenon DEF Ordinary, Frame
  <2>2. CASE ~AtEnd
    <3>1. current' = current
      <4>1. current \in Nat
        BY LenProperties DEF TypeOK
      <4>2. current' = Advanced - 1 /\ Advanced = current + 1
        BY <1>8, <2>2, ReadsToken, Zenon
      <4> QED
        BY <4>1, <4>2
    <3> QED
      BY <1>1, <1>4, <1>8, <2>2, <3>1, ReadsToken, Zenon DEF Ordinary, Frame
  <2> QED
    BY <2>1, <2>2
<1> QED
  BY <1>5, <1>6, <1>7, <1>8 DEF Primary, Error

\* Every step but those that lead to a declaration's keyword is of this kind.
LEMMA StepKinds ==
  ASSUME TypeOK, Step
  PROVE  Ordinary \/ (Consume /\ Head(stack) \notin Plain) \/ Decl \/ Decls \/ DeclBody
BY ConsumeOrdinary, ModulePathOrdinary, ImportsOrdinary, ParamsOrdinary, TypeBodyOrdinary,
   ExpressionOrdinary, OperandOrdinary, ArgumentsOrdinary, LambdaOrdinary, PrimaryOrdinary,
   BlockOrdinary, ArmsOrdinary, ListOrdinary, Zenon DEF Step

-----------------------------------------------------------------------------
(* Declarations                                                            *)

\* The function for a keyword is one that begins with it.
LEMMA DeclFunctionOf ==
  ASSUME NEW k \in DOMAIN DeclOf
  PROVE  /\ <<DeclOf[k]>> \in Opening /\ <<<<DeclOf[k]>>>> \in Seq(Instructions)
         /\ Fits(<<<<DeclOf[k]>>>>, 6)
<1>1. DOMAIN DeclOf = {"let", "fun", "type"}
  BY DEF DeclOf
<1>2. DeclOf[k] \in DeclFunctions
  BY <1>1 DEF DeclOf, DeclFunctions
<1>3. DeclOf[k] = "let_decl" \/ DeclOf[k] = "fun_decl" \/ DeclOf[k] = "type_decl"
  BY <1>2 DEF DeclFunctions
<1>4. <<DeclOf[k]>> \in Opening
  BY <1>2 DEF Opening
<1>5. <<DeclOf[k]>> \in Instructions
  BY <1>3, Named
<1>6. Cost(<<DeclOf[k]>>) <= 6
  BY <1>3, Costs
<1>7. Fits(<<<<DeclOf[k]>>>>, 6)
  BY <1>6, FitsTuples
<1> QED
  BY <1>4, <1>5, <1>7

\* What the function for a keyword has to do.
LEMMA DeclBodyWay ==
  ASSUME TypeOK, DeclBody
  PROVE  /\ stack # <<>> /\ Head(stack) \in Opening /\ Head(stack) # <<"decls">>
         /\ UNCHANGED <<tokens, current, had_error, decls, crashed>>
         /\ \E todo \in Seq(Instructions) :
              /\ Then(todo) /\ Fits(todo, Grow(Head(stack)))
              /\ Len(todo) \in Nat \ {0} /\ todo[1] \in Opening
              /\ \A i \in 2..Len(todo) : todo[i] \in Plain
<1> DEFINE Way(todo) ==
      /\ todo \in Seq(Instructions) /\ Fits(todo, Grow(Head(stack)))
      /\ Len(todo) \in Nat \ {0} /\ todo[1] \in Opening
      /\ \A i \in 2..Len(todo) : todo[i] \in Plain
<1>1. ASSUME NEW f \in DeclFunctions, Calling(f), NEW todo, Skip(todo), Way(todo)
      PROVE  /\ stack # <<>> /\ Head(stack) \in Opening /\ Head(stack) # <<"decls">>
             /\ UNCHANGED <<tokens, current, had_error, decls, crashed>>
             /\ Then(todo) /\ todo \in Seq(Instructions) /\ Way(todo)
  <2>1. stack # <<>> /\ Head(stack) = <<f>> /\ <<f>> \in Opening
    BY <1>1 DEF Calling, Opening
  <2>2. <<f>> # <<"decls">>
    BY <1>1 DEF DeclFunctions
  <2> QED
    BY <1>1, <2>1, <2>2 DEF Skip, NoError, Frame, errorVars
<1>2. CASE /\ Calling("let_decl")
           /\ Skip(<<<<"take", "let">>, <<"take", "id">>, <<"annotation">>, <<"take", "=">>,
                     <<"expression">>>>)
  <2> DEFINE a == <<"take", "let">>
             b == <<"take", "id">>
             c == <<"annotation">>
             d == <<"take", "=">>
             e == <<"expression">>
  <2>1. a \in Opening /\ a \in Instructions
    BY NamedTakes DEF Opening, DeclKeywords
  <2>2. b \in Plain /\ c \in Plain /\ d \in Plain /\ e \in Plain
    BY PlainNamed, Zenon
  <2>3. Cost(a) = 0 /\ Cost(b) = 0 /\ Cost(c) = 0 /\ Cost(d) = 0 /\ Cost(e) = 5
    BY Costs, Zenon
  <2>4. Grow(Head(stack)) = 5
    BY <1>2, Costs, Zenon DEF Calling
  <2> HIDE DEF a, b, c, d, e
  <2>5. Fits(<<a, b, c, d, e>>, 5)
    BY <2>3, FitsTuples
  <2>6. Way(<<a, b, c, d, e>>)
    BY <2>1, <2>2, <2>4, <2>5 DEF Plain
  <2>7. "let_decl" \in DeclFunctions
    BY DEF DeclFunctions
  <2> HIDE DEF Way
  <2>8. Skip(<<a, b, c, d, e>>)
    BY <1>2, Zenon DEF a, b, c, d, e
  <2> QED
    BY <1>1, <1>2, <2>6, <2>7, <2>8, Zenon DEF Way
<1>3. CASE /\ Calling("fun_decl")
           /\ Skip(<<<<"take", "fun">>, <<"take", "id">>, <<"take", "(">>, <<"param_list">>,
                     <<"annotation">>, <<"take", "=">>, <<"expression">>>>)
  <2> DEFINE a == <<"take", "fun">>
             b == <<"take", "id">>
             c == <<"take", "(">>
             d == <<"param_list">>
             e == <<"annotation">>
             f == <<"take", "=">>
             h == <<"expression">>
  <2>1. a \in Opening /\ a \in Instructions
    BY NamedTakes DEF Opening, DeclKeywords
  <2>2. b \in Plain /\ c \in Plain /\ d \in Plain /\ e \in Plain /\ f \in Plain /\ h \in Plain
    BY PlainNamed, Zenon
  <2>3. /\ Cost(a) = 0 /\ Cost(b) = 0 /\ Cost(c) = 0 /\ Cost(d) = 2 /\ Cost(e) = 0
        /\ Cost(f) = 0 /\ Cost(h) = 5
    BY Costs, Zenon
  <2>4. Grow(Head(stack)) = 5
    BY <1>3, Costs, Zenon DEF Calling
  <2> HIDE DEF a, b, c, d, e, f, h
  <2>5. Fits(<<a, b, c, d, e, f, h>>, 5)
    BY <2>3, FitsTuples
  <2>6. Way(<<a, b, c, d, e, f, h>>)
    BY <2>1, <2>2, <2>4, <2>5 DEF Plain
  <2>7. "fun_decl" \in DeclFunctions
    BY DEF DeclFunctions
  <2> HIDE DEF Way
  <2>8. Skip(<<a, b, c, d, e, f, h>>)
    BY <1>3, Zenon DEF a, b, c, d, e, f, h
  <2> QED
    BY <1>1, <1>3, <2>6, <2>7, <2>8, Zenon DEF Way
<1>4. CASE /\ Calling("type_decl")
           /\ Skip(<<<<"take", "type">>, <<"take", "id">>, <<"type_body">>>>)
  <2> DEFINE a == <<"take", "type">>
             b == <<"take", "id">>
             c == <<"type_body">>
  <2>1. a \in Opening /\ a \in Instructions
    BY NamedTakes DEF Opening, DeclKeywords
  <2>2. b \in Plain /\ c \in Plain
    BY PlainNamed, Zenon
  <2>3. Cost(a) = 0 /\ Cost(b) = 0 /\ Cost(c) = 0
    BY Costs, Zenon
  <2>4. Grow(Head(stack)) = 0
    BY <1>4, Costs, Zenon DEF Calling
  <2> HIDE DEF a, b, c
  <2>5. Fits(<<a, b, c>>, 0)
    BY <2>3, FitsTuples
  <2>6. Way(<<a, b, c>>)
    BY <2>1, <2>2, <2>4, <2>5 DEF Plain
  <2>7. "type_decl" \in DeclFunctions
    BY DEF DeclFunctions
  <2> HIDE DEF Way
  <2>8. Skip(<<a, b, c>>)
    BY <1>4, Zenon DEF a, b, c
  <2> QED
    BY <1>1, <1>4, <2>6, <2>7, <2>8, Zenon DEF Way
<1> QED
  BY <1>2, <1>3, <1>4 DEF DeclBody

\* The two ways of parse_decl.
LEMMA DeclWays ==
  ASSUME TypeOK, Decl
  PROVE  /\ stack # <<>> /\ Head(stack) = <<"decl">> /\ UNCHANGED <<tokens, crashed>>
         /\ decls' = decls \cup {current}
         /\ \/ /\ current' = current /\ UNCHANGED had_error
               /\ \E k \in DOMAIN DeclOf : Then(<<<<DeclOf[k]>>>>)
            \/ /\ had_error' = TRUE /\ Then(<<>>)
               /\ current' \in current..Len(tokens) /\ SyncStops(current')
               /\ \A j \in current..current'-1 : ~SyncStops(j)
BY DEF Decl, Calling, Synchronize, errorVars

-----------------------------------------------------------------------------
(* The depth of the recursion                                              *)

\* The parser stands before a bracket it has read, and is about to read it again.
StandsBefore(f, t) == Head(stack) \in {<<f>>, <<"take", t>>} /\ Check(t)
Ahead == stack # <<>> /\ (StandsBefore("block_expression", "{") \/ StandsBefore("list_literal", "["))
\* the tokens that have paid for calls
Credit == IF Ahead THEN current + 1 ELSE current

PaidInv ==
  /\ ~DeadEnd /\ ~crashed => Paid(stack, depths, 6 * Credit + 8)
  /\ crashed => stack = <<>>
  /\ OverflowsOnlyAtTheEnd

\* Where a step may leave the parser.
LEMMA Moves ==
  ASSUME TypeOK, Step
  PROVE  /\ tokens' = tokens /\ crashed' = crashed
         /\ \/ current' = current
            \/ ~AtEnd /\ current' = current + 1
            \/ AtEnd /\ current' = current - 1 /\ Previous(current) \in {"{", "["}
            \/ /\ current' \in current..Len(tokens)
               /\ \A j \in current..current'-1 : ~SyncStops(j)
<1>1. CASE Ordinary
  BY <1>1, Zenon DEF Ordinary
<1>2. CASE Consume
  BY <1>2 DEF Consume, Accept, Advanced, Frame
<1>3. CASE Decl
  BY <1>3, DeclWays
<1>4. CASE Decls
  BY <1>4 DEF Decls, Skip, Frame
<1>5. CASE DeclBody
  BY <1>5, DeclBodyWay
<1> QED
  BY <1>1, <1>2, <1>3, <1>4, <1>5, StepKinds

LEMMA Stopped ==
  ASSUME NEW c \in Nat, NEW d \in Nat, c <= d
  PROVE  /\ ~(c \in c..d-1) => d = c
         /\ ~(c + 1 \in c..d-1) => d = c \/ d = c + 1
OBVIOUS

\* There is no way out of a dead end.
LEMMA DeadEndStays ==
  ASSUME TypeOK, TypeOK', Step, DeadEnd
  PROVE  DeadEnd'
<1> DEFINE S == {"{", "["}
           B == {"(", "{", "["}
<1>1. S \subseteq B /\ "EOF" \notin B
  BY Zenon
<1>2. /\ tokens' = tokens
      /\ \/ current' = current
         \/ ~AtEnd /\ current' = current + 1
         \/ AtEnd /\ current' = current - 1 /\ Previous(current) \in S
         \/ /\ current' \in current..Len(tokens)
            /\ \A j \in current..current'-1 : ~SyncStops(j)
  BY Moves, Zenon
<1>3. \/ AtEnd /\ Previous(current) \in B
      \/ Peek(current) \in S /\ Peek(current + 1) = "EOF"
  BY Zenon DEF DeadEnd
<1>4. \/ Peek(current') = "EOF" /\ Previous(current') \in B
      \/ Peek(current') \in S /\ Peek(current' + 1) = "EOF"
      => DeadEnd'
  BY <1>2 DEF DeadEnd, AtEnd, Peek, Previous
<1> HIDE DEF S, B
<1>5. current \in Nat /\ Len(tokens) \in Nat /\ current <= Len(tokens) /\ current' \in Nat
  BY LenProperties DEF TypeOK
<1>6. CASE AtEnd /\ Previous(current) \in B
  <2>1. CASE current' = current
    BY <1>4, <1>6, <2>1 DEF AtEnd
  <2>2. CASE current' = current - 1 /\ Previous(current) \in S
    <3>1. Peek(current') = Previous(current) /\ Peek(current' + 1) = Peek(current)
      BY <1>5, <2>2 DEF Peek, Previous
    <3> QED
      BY <1>4, <1>6, <2>2, <3>1 DEF AtEnd
  <2>3. CASE /\ current' \in current..Len(tokens)
             /\ \A j \in current..current'-1 : ~SyncStops(j)
    <3>1. SyncStops(current)
      BY <1>6 DEF SyncStops, AtEnd
    <3>2. ~(current \in current..current'-1)
      BY <2>3, <3>1, Zenon
    <3>3. current <= current'
      BY <1>5, <2>3
    <3>4. current' = current
      BY <1>5, <3>2, <3>3, Stopped
    <3> QED
      BY <2>1, <3>4
  <2> QED
    BY <1>2, <1>6, <2>1, <2>2, <2>3
<1>7. CASE Peek(current) \in S /\ Peek(current + 1) = "EOF"
  <2>1. ~AtEnd
    BY <1>1, <1>7 DEF AtEnd
  <2>2. CASE current' = current
    BY <1>4, <1>7, <2>2
  <2>3. CASE current' = current + 1
    <3>1. Previous(current') = Peek(current)
      BY <1>5, <2>1, <2>3 DEF AtEnd, Peek, Previous
    <3> QED
      BY <1>1, <1>4, <1>7, <2>3, <3>1
  <2>4. CASE /\ current' \in current..Len(tokens)
             /\ \A j \in current..current'-1 : ~SyncStops(j)
    <3>1. SyncStops(current + 1)
      BY <1>7 DEF SyncStops
    <3>2. ~(current + 1 \in current..current'-1)
      BY <2>4, <3>1, Zenon
    <3>3. current <= current'
      BY <1>5, <2>4
    <3>4. current' = current \/ current' = current + 1
      BY <1>5, <3>2, <3>3, Stopped
    <3> QED
      BY <2>2, <2>3, <3>4
  <2> QED
    BY <1>2, <2>1, <2>2, <2>3, <2>4
<1> QED
  BY <1>3, <1>6, <1>7

\* consume reads the token it asks for.
LEMMA ReadsIt ==
  ASSUME Step, stack # <<>>, NEW t, t # "EOF", Head(stack) = <<"take", t>>, Check(t)
  PROVE  Then(<<>>) /\ current' = current + 1
<1>1. \A g : ~Calling(g)
  BY DEF Calling
<1>2. Consume
  BY <1>1 DEF Step, ModulePath, Imports, Params, Decl, Decls, DeclBody, TypeBody, Expression,
             Operand, Arguments, Lambda, Primary, Block, Arms, List
<1>3. \A u : Head(stack) = <<"take", u>> => u = t
  OBVIOUS
<1>4. Accept(t, <<>>)
  BY <1>2, <1>3, Zenon DEF Consume
<1> QED
  BY <1>4 DEF Accept, Advanced, AtEnd, Check

\* One function is active at a time.
LEMMA OnlyCalling ==
  ASSUME NEW f, Head(stack) = <<f>>
  PROVE  ~Consume /\ \A g : Calling(g) => g = f
<1>1. \A t : <<f>> # <<"take", t>>
  OBVIOUS
<1>2. \A g : <<f>> = <<g>> => g = f
  OBVIOUS
<1> QED
  BY <1>1, <1>2, Zenon DEF Consume, Calling

\* The bracket is read next, and what is done before that is not new.
LEMMA AheadStep ==
  ASSUME TypeOK, Step, Ahead
  PROVE  \E todo \in Seq(Instructions) :
           /\ Then(todo) /\ Fits(todo, Grow(Head(stack)))
           /\ (current' = current /\ Ahead') \/ current' = current + 1
<1>1. CASE \E t \in {"{", "["} : Head(stack) = <<"take", t>> /\ Check(t)
  <2>1. PICK t : t # "EOF" /\ Head(stack) = <<"take", t>> /\ Check(t)
    BY <1>1, Zenon
  <2>2. Then(<<>>) /\ current' = current + 1
    BY <2>1, ReadsIt, Zenon DEF Ahead
  <2>3. Grow(Head(stack)) \in Nat
    BY GrowIsNat
  <2>4. <<>> \in Seq(Instructions) /\ Fits(<<>>, Grow(Head(stack)))
    BY <2>3, EmptySeq, FitsTuples, Zenon
  <2> QED
    BY <2>2, <2>4, Zenon
<1>2. CASE Head(stack) = <<"block_expression">> /\ Check("{")
  <2> DEFINE a == <<"take", "{">>
             b == <<"items">>
             c == <<"take", "}">>
  <2>1. Skip(<<a, b, c>>)
    <3>1. ~Consume /\ \A g : Calling(g) => g = "block_expression"
      BY <1>2, OnlyCalling, Zenon
    <3>2. ~ModulePath /\ ~Imports /\ ~Params /\ ~Decl /\ ~Decls /\ ~DeclBody /\ ~TypeBody
      BY <3>1, Zenon DEF ModulePath, Imports, Params, Decl, Decls, DeclBody, TypeBody
    <3>3. ~Expression /\ ~Operand /\ ~Arguments /\ ~Lambda /\ ~Primary /\ ~Arms /\ ~List
      BY <3>1, Zenon DEF Expression, Operand, Arguments, Lambda, Primary, Arms, List
    <3>4. Block
      BY <3>1, <3>2, <3>3, Zenon DEF Step
    <3> QED
      BY <3>1, <3>4, Zenon DEF Block
  <2>2. /\ Grow(Head(stack)) = 5 /\ Cost(a) = 0 /\ Cost(b) = 5 /\ Cost(c) = 0
        /\ a \in Instructions /\ b \in Instructions /\ c \in Instructions
    BY <1>2, Costs, Named, NamedTakes, Zenon
  <2>3. (Head(stack') = a /\ stack' # <<>> /\ UNCHANGED <<tokens, current>>) => Ahead'
    BY <1>2, Zenon DEF Ahead, StandsBefore, Check, Peek
  <2> HIDE DEF a, b, c
  <2>4. stack \in Seq(Instructions) /\ stack # <<>>
    BY DEF TypeOK, Ahead
  <2>5. <<a, b, c>> \in Seq(Instructions) /\ Fits(<<a, b, c>>, Grow(Head(stack)))
    BY <2>2, FitsTuples
  <2>6. Head(stack') = a /\ stack' # <<>>
    BY <2>1, <2>2, <2>4, HeadTailProperties DEF Skip, Then
  <2> QED
    BY <2>1, <2>3, <2>5, <2>6, Zenon DEF Skip, Frame
<1>3. CASE Head(stack) = <<"list_literal">> /\ Check("[")
  <2> DEFINE a == <<"take", "[">>
             b == <<"list_items">>
  <2>1. Skip(<<a, b>>)
    <3>1. ~Consume /\ \A g : Calling(g) => g = "list_literal"
      BY <1>3, OnlyCalling, Zenon
    <3>2. ~ModulePath /\ ~Imports /\ ~Params /\ ~Decl /\ ~Decls /\ ~DeclBody /\ ~TypeBody
      BY <3>1, Zenon DEF ModulePath, Imports, Params, Decl, Decls, DeclBody, TypeBody
    <3>3. ~Expression /\ ~Operand /\ ~Arguments /\ ~Lambda /\ ~Primary /\ ~Arms /\ ~Block
      BY <3>1, Zenon DEF Expression, Operand, Arguments, Lambda, Primary, Arms, Block
    <3>4. List
      BY <3>1, <3>2, <3>3, Zenon DEF Step
    <3> QED
      BY <3>1, <3>4, Zenon DEF List
  <2>2. /\ Grow(Head(stack)) = 5 /\ Cost(a) = 0 /\ Cost(b) = 5
        /\ a \in Instructions /\ b \in Instructions
    BY <1>3, Costs, Named, NamedTakes, Zenon
  <2>3. (Head(stack') = a /\ stack' # <<>> /\ UNCHANGED <<tokens, current>>) => Ahead'
    BY <1>3, Zenon DEF Ahead, StandsBefore, Check, Peek
  <2> HIDE DEF a, b
  <2>4. stack \in Seq(Instructions) /\ stack # <<>>
    BY DEF TypeOK, Ahead
  <2>5. <<a, b>> \in Seq(Instructions) /\ Fits(<<a, b>>, Grow(Head(stack)))
    BY <2>2, FitsTuples
  <2>6. Head(stack') = a /\ stack' # <<>>
    BY <2>1, <2>2, <2>4, HeadTailProperties DEF Skip, Then
  <2> QED
    BY <2>1, <2>3, <2>5, <2>6, Zenon DEF Skip, Frame
<1> QED
  BY <1>1, <1>2, <1>3, Zenon DEF Ahead, StandsBefore

\* Only an active function takes a step.
LEMMA Busy ==
  ASSUME TypeOK, Step
  PROVE  stack # <<>>
BY StepKinds, Zenon DEF Ordinary, Consume, Decl, Decls, DeclBody, Calling

\* What a step adds to the stack when no bracket stands open before the parser.
LEMMA FreshStep ==
  ASSUME TypeOK, TypeOK', Step, ~DeadEnd
  PROVE  \E todo \in Seq(Instructions) :
           /\ Then(todo)
           /\ \/ current <= current' /\ Fits(todo, Grow(Head(stack)))
              \/ current' = current + 1 /\ Fits(todo, Grow(Head(stack)) + 6)
              \/ current' = current /\ Ahead' /\ Fits(todo, Grow(Head(stack)) + 6)
<1>1. current \in Nat /\ current' \in Nat /\ stack \in Seq(Instructions)
  BY DEF TypeOK
<1>2. \A g \in Nat : <<>> \in Seq(Instructions) /\ Fits(<<>>, g)
  BY EmptySeq, FitsTuples
<1>3. Grow(Head(stack)) \in Nat /\ Grow(Head(stack)) + 6 \in Nat
  BY GrowIsNat
<1>4. CASE Ordinary
  <2>1. PICK todo \in Seq(Plain) :
       /\ Then(todo)
       /\ \/ current' = current /\ Fits(todo, Grow(Head(stack)))
          \/ current' = current + 1 /\ Fits(todo, Grow(Head(stack)) + 6)
          \/ current' = current /\ Peek(current) = "{" /\ todo = <<<<"block_expression">>>>
          \/ current' = current /\ Peek(current) = "[" /\ todo = <<<<"list_literal">>>>
    BY <1>4, Zenon DEF Ordinary, DeadEnd
  <2>2. todo \in Seq(Instructions)
    BY DEF Plain
  <2>3. CASE current' = current /\ Fits(todo, Grow(Head(stack)))
    <3>1. current <= current'
      BY <1>1, <2>3
    <3> QED
      BY <2>1, <2>2, <2>3, <3>1, Zenon
  <2>4. CASE current' = current + 1 /\ Fits(todo, Grow(Head(stack)) + 6)
    BY <2>1, <2>2, <2>4
  <2>5. ASSUME NEW f, Cost(f) <= 6, todo = <<f>>, current' = current,
               \/ f = <<"block_expression">> /\ Peek(current) = "{"
               \/ f = <<"list_literal">> /\ Peek(current) = "["
        PROVE  current' = current /\ Ahead' /\ Fits(todo, Grow(Head(stack)) + 6)
    <3>1. Cost(f) <= Grow(Head(stack)) + 6
      <4>1. Cost(f) <= 6
        BY <2>5, Zenon
      <4>2. Cost(f) \in Nat
        BY GrowIsNat
      <4> QED
        BY <1>3, <4>1, <4>2
    <3>2. Fits(todo, Grow(Head(stack)) + 6)
      BY <1>3, <2>5, <3>1, FitsTuples, Zenon
    <3>3. stack' = <<f>> \o Tail(stack) /\ stack # <<>>
      BY <1>4, <2>1, <2>5, Zenon DEF Then, Ordinary
    <3>4. Tail(stack) \in Seq(Instructions) /\ f \in Instructions
      <4>1. Tail(stack) \in Seq(Instructions)
        BY <1>1, <3>3, HeadTailProperties
      <4>2. f \in Instructions
        BY <2>5, Named, Zenon
      <4> QED
        BY <4>1, <4>2
    <3>5. stack' # <<>> /\ Head(stack') = f
      <4> DEFINE u == Tail(stack)
      <4>1. u \in Seq(Instructions) /\ f \in Instructions /\ stack' = <<f>> \o u
        BY <3>3, <3>4
      <4> HIDE DEF u
      <4> QED
        BY <4>1
    <3>6. Peek(current)' = Peek(current)
      BY <1>4, <2>5 DEF Ordinary, Peek
    <3>7. Ahead'
      BY <2>5, <3>5, <3>6, Zenon DEF Ahead, StandsBefore, Check
    <3> QED
      BY <2>5, <3>2, <3>7
  <2>6. Cost(<<"block_expression">>) <= 6 /\ Cost(<<"list_literal">>) <= 6
    BY Costs
  <2> QED
    BY <2>1, <2>2, <2>3, <2>4, <2>5, <2>6, Zenon
<1>5. CASE Consume
  <2>1. Then(<<>>) /\ (current' = current \/ current' = current + 1)
    BY <1>5 DEF Consume, Accept, Advanced
  <2>2. Then(<<>>) /\ current <= current' /\ Fits(<<>>, Grow(Head(stack)))
    BY <1>1, <1>2, <1>3, <2>1
  <2> QED
    BY <1>2, <1>3, <2>2, Zenon
<1>6. CASE Decl
  <2>1. Grow(Head(stack)) = 6
    BY <1>6, DeclWays, Costs, Zenon
  <2>2. CASE current' = current /\ \E k \in DOMAIN DeclOf : Then(<<<<DeclOf[k]>>>>)
    <3>1. PICK k \in DOMAIN DeclOf : Then(<<<<DeclOf[k]>>>>)
      BY <2>2
    <3>2. <<<<DeclOf[k]>>>> \in Seq(Instructions) /\ Fits(<<<<DeclOf[k]>>>>, Grow(Head(stack)))
      BY <2>1, DeclFunctionOf, Zenon
    <3>3. current <= current'
      BY <1>1, <2>2
    <3> QED
      BY <3>1, <3>2, <3>3, Zenon
  <2>3. CASE Then(<<>>) /\ current' \in current..Len(tokens)
    <3>1. current <= current' /\ Fits(<<>>, Grow(Head(stack)))
      BY <1>1, <1>2, <1>3, <2>3
    <3> QED
      BY <1>2, <1>3, <2>3, <3>1, Zenon
  <2> QED
    BY <1>6, <2>2, <2>3, DeclWays, Zenon
<1>7. CASE Decls
  <2> DEFINE a == <<"decl">>
             b == <<"decls">>
  <2>1. Head(stack) = b /\ current' = current /\ (Then(<<>>) \/ Then(<<a, b>>))
    BY <1>7, Zenon DEF Decls, Calling, Skip
  <2>2. /\ Cost(a) = 7 /\ Cost(b) = 7 /\ Grow(b) = 7
        /\ a \in Instructions /\ b \in Instructions
    BY Costs, Named, Zenon
  <2> HIDE DEF a, b
  <2>3. Fits(<<a, b>>, 7) /\ <<a, b>> \in Seq(Instructions)
    BY <2>2, FitsTuples
  <2>4. current <= current' /\ Grow(Head(stack)) = 7
    BY <1>1, <2>1, <2>2
  <2> QED
    BY <1>2, <1>3, <2>1, <2>3, <2>4, Zenon
<1>8. CASE DeclBody
  <2>1. PICK todo \in Seq(Instructions) : Then(todo) /\ Fits(todo, Grow(Head(stack)))
    BY <1>8, DeclBodyWay, Zenon
  <2>2. current <= current'
    BY <1>1, <1>8, DeclBodyWay
  <2> QED
    BY <2>1, <2>2, Zenon
<1> QED
  BY <1>4, <1>5, <1>6, <1>7, <1>8, StepKinds

\* What one token more pays for.
LEMMA Balance ==
  ASSUME NEW n \in Nat, NEW m \in Nat, NEW x \in Nat, n <= m
  PROVE  LET p == 6 * n + 8
             q == 6 * m + 8
         IN /\ p \in Nat /\ q \in Nat /\ p <= q
            /\ x + (q - p) \in Nat /\ x <= x + (q - p)
            /\ n + 1 <= m => x + 6 <= x + (q - p)
OBVIOUS

\* A step that pushes no more than that leaves a stack that is paid for.
LEMMA Pays ==
  ASSUME TypeOK, stack # <<>>, NEW p \in Nat, NEW q \in Nat, p <= q, Paid(stack, depths, p),
         NEW todo \in Seq(Instructions), Then(todo), NEW g \in Nat, Fits(todo, g),
         Grow(Head(stack)) + (q - p) \in Nat, g <= Grow(Head(stack)) + (q - p)
  PROVE  Paid(stack', depths', q)
<1>1. Len(todo) \in Nat
  BY LenProperties
<1>2. Fits(todo, Grow(Head(stack)) + (q - p))
  BY <1>1, FitsMore
<1> QED
  BY <1>2, PaidThen

\* The calls are paid for by the tokens.
LEMMA PaidStep ==
  ASSUME TypeOK, TypeOK', Step, ~DeadEnd, Paid(stack, depths, 6 * Credit + 8)
  PROVE  Paid(stack', depths', 6 * Credit' + 8)
<1>1. stack \in Seq(Instructions) /\ stack # <<>>
  BY Busy DEF TypeOK
<1>2. PICK c \in Nat : c = current
  BY DEF TypeOK
<1>3. PICK d \in Nat : d = current'
  BY DEF TypeOK
<1>4. PICK n \in Nat : n = Credit /\ c <= n /\ (~Ahead => n = c) /\ (Ahead => n = c + 1)
  BY <1>2 DEF Credit
<1>5. PICK m \in Nat : m = Credit' /\ d <= m /\ (Ahead' => m = d + 1)
  <2>1. Credit' = IF Ahead' THEN d + 1 ELSE d
    BY <1>3, Zenon DEF Credit
  <2> QED
    BY <2>1
<1>6. PICK x \in Nat : x = Grow(Head(stack))
  BY GrowIsNat
<1>7. ASSUME NEW todo \in Seq(Instructions), Then(todo), n <= m,
             \/ Fits(todo, x)
             \/ Fits(todo, x + 6) /\ n + 1 <= m
      PROVE  Paid(stack', depths', 6 * m + 8)
  <2>1. Paid(stack, depths, 6 * n + 8)
    BY <1>4
  <2>2. /\ 6 * n + 8 \in Nat /\ 6 * m + 8 \in Nat /\ 6 * n + 8 <= 6 * m + 8 /\ x + 6 \in Nat
        /\ x + ((6 * m + 8) - (6 * n + 8)) \in Nat
    BY <1>7, Balance
  <2>3. CASE Fits(todo, x)
    <3>1. x <= x + ((6 * m + 8) - (6 * n + 8))
      BY <1>7, Balance
    <3> QED
      BY <1>1, <1>6, <1>7, <2>1, <2>2, <2>3, <3>1, Pays, Zenon
  <2>4. CASE Fits(todo, x + 6) /\ n + 1 <= m
    <3>1. x + 6 <= x + ((6 * m + 8) - (6 * n + 8))
      BY <1>7, <2>4, Balance
    <3> QED
      BY <1>1, <1>6, <1>7, <2>1, <2>2, <2>4, <3>1, Pays, Zenon
  <2> QED
    BY <1>7, <2>3, <2>4
<1>8. CASE Ahead
  <2>1. PICK todo \in Seq(Instructions) :
          /\ Then(todo) /\ Fits(todo, x)
          /\ (d = c /\ Ahead') \/ d = c + 1
    BY <1>2, <1>3, <1>6, <1>8, AheadStep, Zenon
  <2>2. n <= m
    BY <1>4, <1>5, <1>8, <2>1
  <2> QED
    BY <1>5, <1>7, <2>1, <2>2, Zenon
<1>9. CASE ~Ahead
  <2>1. PICK todo \in Seq(Instructions) :
           /\ Then(todo)
           /\ \/ c <= d /\ Fits(todo, x)
              \/ d = c + 1 /\ Fits(todo, x + 6)
              \/ d = c /\ Ahead' /\ Fits(todo, x + 6)
    BY <1>2, <1>3, <1>6, FreshStep, Zenon
  <2>2. CASE c <= d /\ Fits(todo, x)
    <3>1. n <= m
      BY <1>4, <1>5, <1>9, <2>2
    <3> QED
      BY <1>5, <1>7, <2>1, <2>2, <3>1, Zenon
  <2>3. CASE Fits(todo, x + 6) /\ (d = c + 1 \/ (d = c /\ Ahead'))
    <3>1. n + 1 <= m /\ n <= m
      BY <1>4, <1>5, <1>9, <2>3
    <3> QED
      BY <1>5, <1>7, <2>1, <2>3, <3>1, Zenon
  <2> QED
    BY <2>1, <2>2, <2>3
<1> QED
  BY <1>8, <1>9

\* Recursion is paid for with tokens: no more than six functions of the parser
\* are active for each token read, and eight to begin with.  Given that much
\* stack, parse_expression and the functions it calls can only overflow it at
\* the end of an input, on a bracket that parse_primary takes again and again.
THEOREM RecursionIsPaidFor == Spec => []OverflowsOnlyAtTheEnd
<1>1. Init => PaidInv
  <2> SUFFICES ASSUME Init PROVE PaidInv
    OBVIOUS
  <2> DEFINE a == <<"module_decl">>
             b == <<"imports">>
             c == <<"decls">>
  <2>1. stack = <<a, b, c>> /\ depths = <<2, 1, 1>> /\ ~crashed /\ current = 0
    BY Zenon DEF Init, Start
  <2>2. Grow(a) = 1 /\ Grow(b) = 0 /\ Grow(c) = 7
    BY Costs, Zenon
  <2> HIDE DEF a, b, c
  <2>3. Paid(stack, depths, 8)
    BY <2>1, <2>2 DEF Paid
  <2>4. 8 \in Nat /\ 6 * Credit + 8 \in Nat /\ 8 <= 6 * Credit + 8
    BY <2>1 DEF Credit
  <2> HIDE DEF a, b, c
  <2>5. Paid(stack, depths, 6 * Credit + 8)
    BY <2>1, <2>2, <2>4 DEF Paid
  <2> QED
    BY <2>1, <2>5 DEF PaidInv, OverflowsOnlyAtTheEnd
<1>2. TypeOK /\ TypeOK' /\ PaidInv /\ [Next]_vars => PaidInv'
  <2> SUFFICES ASSUME TypeOK, TypeOK', PaidInv, [Next]_vars PROVE PaidInv'
    OBVIOUS
  <2>1. CASE Step
    <3>1. ~crashed
      BY <2>1, Busy DEF PaidInv
    <3>2. ~crashed /\ ~crashed'
      <4>1. crashed' = crashed
        BY <2>1, Moves, Zenon
      <4> QED
        BY <3>1, <4>1
    <3>3. DeadEnd => DeadEnd'
      BY <2>1, DeadEndStays
    <3>4. ~DeadEnd => Paid(stack', depths', 6 * Credit' + 8)
      BY <2>1, <3>2, PaidStep, Zenon DEF PaidInv
    <3> QED
      BY <3>2, <3>3, <3>4, Zenon DEF PaidInv, OverflowsOnlyAtTheEnd
  <2>2. CASE Overflow
    <3>1. /\ crashed' /\ stack' = <<>> /\ UNCHANGED <<tokens, current>> /\ Depth > MaxDepth
      BY <2>2 DEF Overflow
    <3>2. /\ stack # <<>> /\ Len(stack) \in Nat \ {0} /\ MaxDepth \in Nat
          /\ depths[1] \in Nat /\ depths[1] > MaxDepth
      <4>1. MaxDepth \in Nat /\ stack # <<>> /\ Head(depths) > MaxDepth
        BY <3>1, DepthAssumption DEF Depth
      <4>2. /\ stack \in Seq(Instructions) /\ depths \in Seq(Nat) /\ Len(depths) = Len(stack)
        BY DEF TypeOK
      <4>3. Len(stack) \in Nat \ {0} /\ depths # <<>>
        BY <4>1, <4>2, LenProperties, EmptySeq
      <4>4. Head(depths) = depths[1] /\ depths[1] \in Nat
        BY <4>2, <4>3, HeadTailProperties, ElementOfSeq
      <4> QED
        BY <4>1, <4>3, <4>4
    <3>3. DeadEnd' = DeadEnd
      BY <3>1 DEF DeadEnd, AtEnd, Peek, Previous
    <3>4. CASE DeadEnd
      BY <3>1, <3>3, <3>4, Zenon DEF PaidInv, OverflowsOnlyAtTheEnd
    <3>5. CASE ~DeadEnd
      <4>1. Paid(stack, depths, 6 * Credit + 8)
        BY <3>2, <3>5, Zenon DEF PaidInv
      <4> DEFINE n == Credit
                 p == depths[1]
                 q == Len(tokens)
                 g == Grow(stack[1])
      <4>2. n \in Nat /\ n <= q /\ q \in Nat
        <5>1. current \in Nat /\ q \in Nat /\ current <= q
          BY LenProperties DEF TypeOK
        <5>2. Ahead => Peek(current) # "EOF"
          BY Zenon DEF Ahead, StandsBefore, Check
        <5>3. Ahead => current < q
          BY <5>1, <5>2 DEF Peek
        <5> QED
          BY <5>1, <5>3 DEF Credit
      <4>3. p + g <= 6 * n + 8
        BY <3>2, <4>1 DEF Paid
      <4>4. g \in Nat /\ p \in Nat
        BY <3>2, GrowIsNat
      <4> HIDE DEF n, p, q, g
      <4>5. p <= 6 * q + 8
        BY <4>2, <4>3, <4>4
      <4>6. ~(MaxDepth >= 6 * Len(tokens) + 8)
        <5>1. depths[1] <= 6 * Len(tokens) + 8
          BY <4>5 DEF p, q
        <5> QED
          BY <3>1, <3>2, <4>2, <5>1 DEF q
      <4>7. OverflowsOnlyAtTheEnd'
        BY <3>1, <4>6 DEF OverflowsOnlyAtTheEnd
      <4> QED
        BY <3>1, <4>7 DEF PaidInv
    <3> QED
      BY <3>4, <3>5
  <2>3. CASE UNCHANGED vars
    BY <2>3, Zenon DEF vars, errorVars, PaidInv, OverflowsOnlyAtTheEnd, DeadEnd, AtEnd, Peek, Previous,
                       Credit, Ahead, StandsBefore, Check
  <2> QED
    BY <2>1, <2>2, <2>3 DEF Next
<1>3. PaidInv => OverflowsOnlyAtTheEnd
  BY DEF PaidInv
<1> QED
  BY <1>1, <1>2, <1>3, TypeCorrect, PTL DEF Spec

-----------------------------------------------------------------------------
(* The declarations                                                        *)

\* Below the function that is active there is nothing but the rest of others,
\* and the loop of nova_parser_parse at the bottom.
Shaped(s) ==
  /\ s # <<>> /\ s[Len(s)] = <<"decls">>
  /\ \A i \in 1..Len(s)-1 : s[i] \in Plain \/ (i = 1 /\ s[i] \in Opening)
\* the declarations whose keyword has been read
Found(c) == {i \in 0..c-1 : tokens[i + 1] \in DOMAIN DeclOf}

KeptInv ==
  /\ crashed => stack = <<>>
  /\ stack = <<>> /\ ~crashed => AtEnd
  /\ stack # <<>> => Shaped(stack)
  /\ ~crashed /\ ~had_error =>
       decls = Found(current) \cup
               (IF stack # <<>> /\ Head(stack) \in Opening THEN {current} ELSE {})

LEMMA Apart ==
  /\ DOMAIN DeclOf = DeclKeywords
  /\ \A x \in Plain : x # <<"decls">> /\ x \notin Opening
  /\ <<"decls">> \notin Opening
BY DEF DeclOf, DeclKeywords, DeclFunctions, Plain, Opening

\* What an active function pushes leaves the stack in shape.
LEMMA ShapedThen ==
  ASSUME NEW s \in Seq(Instructions), Shaped(s), s[1] # <<"decls">>,
         NEW todo \in Seq(Instructions),
         \A i \in 1..Len(todo) : todo[i] \in Plain \/ (i = 1 /\ todo[i] \in Opening)
  PROVE  /\ Shaped(todo \o Tail(s))
         /\ todo \in Seq(Plain) => Head(todo \o Tail(s)) \notin Opening
         /\ Len(todo) > 0 => Head(todo \o Tail(s)) = todo[1]
<1> DEFINE t == todo \o Tail(s)
           p == Len(todo)
           q == Len(s)
<1>1. /\ t \in Seq(Instructions) /\ Len(t) = p + q - 1 /\ q \in Nat \ {0} /\ p \in Nat
      /\ \A i \in 1..p : t[i] = todo[i]
      /\ \A i \in (p + 1)..Len(t) : t[i] = s[i - p + 1]
  BY ThenElements DEF Shaped
<1>2. /\ s[q] = <<"decls">>
      /\ \A i \in 1..q-1 : s[i] \in Plain \/ (i = 1 /\ s[i] \in Opening)
  BY DEF Shaped
<1>3. q >= 2
  BY <1>1, <1>2
<1> HIDE DEF t, p, q
<1>4. t[Len(t)] = <<"decls">>
  <2>1. Len(t) \in (p + 1)..Len(t) /\ Len(t) - p + 1 = q
    BY <1>1, <1>3
  <2> QED
    BY <1>1, <1>2, <2>1
<1>5. ASSUME NEW i \in 1..Len(t)-1 PROVE t[i] \in Plain \/ (i = 1 /\ t[i] \in Opening)
  <2>1. CASE i <= p
    <3>1. i \in 1..p /\ t[i] = todo[i]
      BY <1>1, <2>1
    <3> QED
      BY <3>1 DEF p
  <2>2. CASE i > p
    <3>1. i \in (p + 1)..Len(t) /\ i - p + 1 \in 1..q-1 /\ i - p + 1 # 1
      BY <1>1, <2>2
    <3>2. t[i] = s[i - p + 1]
      BY <1>1, <3>1
    <3> QED
      BY <1>2, <3>1, <3>2
  <2> QED
    BY <1>1, <2>1, <2>2
<1>6. t # <<>> /\ Head(t) = t[1]
  <2>1. Len(t) > 0
    BY <1>1, <1>3
  <2>2. t # <<>>
    BY <1>1, <2>1, EmptySeq
  <2> QED
    BY <1>1, <2>2, HeadTailProperties
<1>7. ASSUME todo \in Seq(Plain) PROVE Head(t) \notin Opening
  <2>1. CASE p > 0
    <3>1. t[1] = todo[1] /\ 1 \in 1..p
      BY <1>1, <2>1
    <3>2. todo[1] \in Plain
      BY <1>7, <3>1, ElementOfSeq DEF p
    <3> QED
      BY <1>6, <3>1, <3>2, Apart
  <2>2. CASE p = 0
    <3>1. 1 \in (p + 1)..Len(t) /\ t[1] = s[2]
      BY <1>1, <1>3, <2>2
    <3>2. s[2] = <<"decls">> \/ s[2] \in Plain
      BY <1>1, <1>2, <1>3
    <3> QED
      BY <1>6, <3>1, <3>2, Apart
  <2> QED
    BY <1>1, <2>1, <2>2
<1>8. p > 0 => Head(t) = todo[1]
  BY <1>1, <1>6
<1> QED
  BY <1>4, <1>5, <1>6, <1>7, <1>8 DEF Shaped, t, p

\* The keywords that have been read, when one more token has and one less.
LEMMA FoundNext ==
  ASSUME NEW c \in Nat, c < Len(tokens), Len(tokens) \in Nat
  PROVE  /\ Peek(c) \in DeclKeywords => Found(c + 1) = Found(c) \cup {c}
         /\ Peek(c) \notin DeclKeywords => Found(c + 1) = Found(c)
BY Apart DEF Found, Peek

LEMMA FoundBack ==
  ASSUME NEW c \in Nat, c > 0, Previous(c) \notin DeclKeywords
  PROVE  Found(c - 1) = Found(c)
<1>1. tokens[c] \notin DOMAIN DeclOf
  BY Apart DEF Previous
<1>2. ASSUME NEW i \in 0..c-1, tokens[i + 1] \in DOMAIN DeclOf PROVE i \in 0..(c-1)-1
  BY <1>1, <1>2
<1> QED
  BY <1>2 DEF Found

\* An error stays.
LEMMA ErrorStays ==
  ASSUME TypeOK, Step, ~had_error'
  PROVE  ~had_error
<1>1. Good
  BY StepGood
<1> QED
  BY <1>1 DEF Good, errorVars

LEMMA KeptOrdinary ==
  ASSUME TypeOK, TypeOK', KeptInv, Step, Ordinary
  PROVE  KeptInv'
<1>1. PICK todo \in Seq(Plain) :
       /\ Then(todo)
       /\ \/ current' = current
          \/ ~AtEnd /\ current' = current + 1 /\ (Peek(current) \notin DeclKeywords \/ had_error')
          \/ /\ AtEnd /\ current' = current - 1 /\ Previous(current) \notin DeclKeywords
             /\ Previous(current) # "EOF"
  <2>1. "{" \notin DeclKeywords /\ "[" \notin DeclKeywords /\ "{" # "EOF" /\ "[" # "EOF"
    BY Zenon DEF DeclKeywords
  <2> QED
    BY <2>1, Zenon DEF Ordinary
<1>2. /\ stack \in Seq(Instructions) /\ stack # <<>> /\ Head(stack) \in Plain
      /\ UNCHANGED <<tokens, decls, crashed>>
  BY DEF Ordinary, TypeOK
<1>3. ~crashed /\ ~crashed' /\ Shaped(stack)
  BY <1>2 DEF KeptInv
<1>4. Shaped(stack') /\ Head(stack') \notin Opening
  <2>1. Head(stack) = stack[1] /\ todo \in Seq(Instructions)
    BY <1>2, HeadTailProperties DEF Plain
  <2>2. stack[1] # <<"decls">>
    BY <1>2, <2>1, Apart
  <2>3. \A i \in 1..Len(todo) : todo[i] \in Plain
    BY ElementOfSeq
  <2>4. Shaped(todo \o Tail(stack)) /\ Head(todo \o Tail(stack)) \notin Opening
    BY <1>2, <1>3, <2>1, <2>2, <2>3, ShapedThen
  <2> QED
    BY <1>1, <2>4, Zenon DEF Then
<1>5. ASSUME ~had_error' PROVE decls' = Found(current)'
  <2>1. decls = Found(current)
    <3>1. ~had_error
      BY <1>5, ErrorStays
    <3>2. Head(stack) \notin Opening
      BY <1>2, Apart
    <3> QED
      BY <1>3, <3>1, <3>2 DEF KeptInv
  <2>2. Found(current)' = Found(current')
    BY <1>2 DEF Found
  <2>3. current \in Nat /\ Len(tokens) \in Nat
    BY LenProperties DEF TypeOK
  <2>4. Found(current') = Found(current)
    <3>1. CASE current' = current
      BY <3>1
    <3>2. CASE ~AtEnd /\ current' = current + 1 /\ Peek(current) \notin DeclKeywords
      <4>1. current < Len(tokens)
        BY <2>3, <3>2 DEF AtEnd, Peek
      <4> QED
        BY <2>3, <3>2, <4>1, FoundNext
    <3>3. CASE current' = current - 1 /\ Previous(current) \notin DeclKeywords /\ Previous(current) # "EOF"
      <4>1. current > 0
        BY <2>3, <3>3 DEF Previous
      <4> QED
        BY <2>3, <3>3, <4>1, FoundBack
    <3> QED
      BY <1>1, <1>5, <3>1, <3>2, <3>3
  <2> QED
    BY <1>2, <2>1, <2>2, <2>4
<1>6. stack' # <<>>
  BY <1>4 DEF Shaped
<1> QED
  BY <1>3, <1>4, <1>5, <1>6, Zenon DEF KeptInv

\* consume for the keyword that parse_decl has seen
LEMMA KeptKeyword ==
  ASSUME TypeOK, TypeOK', KeptInv, Step, Consume, Head(stack) \notin Plain
  PROVE  KeptInv'
<1>1. PICK t \in Kinds :
        /\ Head(stack) = <<"take", t>> /\ Then(<<>>) /\ Frame
        /\ \/ Check(t) /\ current' = Advanced
           \/ had_error' = TRUE
  BY DEF Consume, Accept, Error
<1>2. stack \in Seq(Instructions) /\ stack # <<>> /\ UNCHANGED <<tokens, decls, crashed>>
  BY <1>1 DEF Consume, TypeOK, Frame
<1>3. Head(stack) \in Opening
  <2>1. <<"take", t>> \in Instructions /\ <<"take", t>> # <<"decls">>
    BY Steps
  <2> QED
    BY <1>1, <2>1 DEF Plain
<1>4. t \in DeclKeywords
  BY <1>1, <1>3 DEF Opening
<1>5. ~crashed /\ ~crashed' /\ Shaped(stack)
  BY <1>2 DEF KeptInv
<1>6. Shaped(stack') /\ Head(stack') \notin Opening
  <2>1. stack[1] # <<"decls">>
    BY <1>1, <1>2, HeadTailProperties
  <2>2. <<>> \in Seq(Plain) /\ <<>> \in Seq(Instructions) /\ Len(<<>>) = 0
    BY EmptySeq
  <2>3. \A i \in 1..Len(<<>>) : <<>>[i] \in Plain \/ (i = 1 /\ <<>>[i] \in Opening)
    BY <2>2
  <2>4. Shaped(<<>> \o Tail(stack)) /\ Head(<<>> \o Tail(stack)) \notin Opening
    BY <1>2, <1>5, <2>1, <2>2, <2>3, ShapedThen
  <2> QED
    BY <1>1, <2>4, Zenon DEF Then
<1>7. ASSUME ~had_error' PROVE decls' = Found(current)'
  <2>1. decls = Found(current) \cup {current}
    BY <1>2, <1>3, <1>5, <1>7, ErrorStays DEF KeptInv
  <2>2. Found(current)' = Found(current')
    BY <1>2 DEF Found
  <2>3. current \in Nat /\ Len(tokens) \in Nat
    BY LenProperties DEF TypeOK
  <2>4. Peek(current) \in DeclKeywords
    BY <1>1, <1>4, <1>7 DEF Check
  <2>5. Peek(current) # "EOF"
    BY <2>4 DEF DeclKeywords
  <2>6. current < Len(tokens) /\ current' = current + 1
    BY <1>1, <1>7, <2>3, <2>5 DEF Peek, Advanced, AtEnd
  <2> QED
    BY <1>2, <2>1, <2>2, <2>3, <2>4, <2>6, FoundNext
<1>8. stack' # <<>>
  BY <1>6 DEF Shaped
<1> QED
  BY <1>5, <1>6, <1>7, <1>8, Zenon DEF KeptInv

LEMMA KeptDecl ==
  ASSUME TypeOK, TypeOK', KeptInv, Step, Decl
  PROVE  KeptInv'
<1>1. /\ stack \in Seq(Instructions) /\ stack # <<>> /\ Head(stack) = <<"decl">>
      /\ UNCHANGED <<tokens, crashed>> /\ decls' = decls \cup {current}
  BY DeclWays DEF TypeOK
<1>2. ~crashed /\ ~crashed' /\ Shaped(stack)
  BY <1>1 DEF KeptInv
<1>3. stack[1] # <<"decls">> /\ Head(stack) \notin Opening
  <2>1. <<"decl">> # <<"decls">> /\ <<"decl">> \notin Opening
    BY DEF Opening, DeclFunctions
  <2> QED
    BY <1>1, <2>1, HeadTailProperties
<1>4. CASE /\ current' = current /\ UNCHANGED had_error
           /\ \E k \in DOMAIN DeclOf : Then(<<<<DeclOf[k]>>>>)
  <2>1. PICK k \in DOMAIN DeclOf : Then(<<<<DeclOf[k]>>>>)
    BY <1>4
  <2> DEFINE x == <<DeclOf[k]>>
             todo == <<x>>
  <2>2. todo \in Seq(Instructions) /\ Len(todo) = 1 /\ Len(todo) > 0 /\ todo[1] \in Opening
    <3>1. x \in Opening /\ todo \in Seq(Instructions)
      BY DeclFunctionOf, Zenon
    <3> HIDE DEF x
    <3> QED
      BY <3>1
  <2>3. stack' = todo \o Tail(stack)
    BY <2>1, Zenon DEF Then
  <2> HIDE DEF todo
  <2>4. \A i \in 1..Len(todo) : todo[i] \in Plain \/ (i = 1 /\ todo[i] \in Opening)
    BY <2>2
  <2>5. Shaped(stack') /\ Head(stack') \in Opening /\ stack' # <<>>
    <3>1. Shaped(todo \o Tail(stack)) /\ Head(todo \o Tail(stack)) = todo[1]
      BY <1>1, <1>2, <1>3, <2>2, <2>4, ShapedThen
    <3> QED
      BY <2>2, <2>3, <3>1, Zenon DEF Shaped
  <2>6. ~had_error' => decls' = Found(current)' \cup {current'}
    <3>1. Found(current)' = Found(current)
      BY <1>1, <1>4 DEF Found
    <3>2. ~had_error => decls = Found(current)
      BY <1>1, <1>2, <1>3 DEF KeptInv
    <3> QED
      BY <1>1, <1>4, <3>1, <3>2
  <2> QED
    BY <1>2, <2>5, <2>6, Zenon DEF KeptInv
<1>5. CASE had_error' = TRUE /\ Then(<<>>)
  <2>1. <<>> \in Seq(Instructions) /\ Len(<<>>) = 0
    BY EmptySeq
  <2>2. \A i \in 1..Len(<<>>) : <<>>[i] \in Plain \/ (i = 1 /\ <<>>[i] \in Opening)
    BY <2>1
  <2>3. Shaped(<<>> \o Tail(stack))
    BY <1>1, <1>2, <1>3, <2>1, <2>2, ShapedThen
  <2>4. Shaped(stack') /\ stack' # <<>>
    BY <1>5, <2>3, Zenon DEF Then, Shaped
  <2>5. had_error'
    BY <1>5
  <2> QED
    BY <1>2, <2>4, <2>5, Zenon DEF KeptInv
<1> QED
  BY <1>4, <1>5, DeclWays

\* parse_let_decl, parse_fun_decl and parse_type_decl ask for the keyword first.
LEMMA KeptBody ==
  ASSUME TypeOK, TypeOK', KeptInv, DeclBody
  PROVE  KeptInv'
<1>1. /\ stack \in Seq(Instructions) /\ stack # <<>> /\ Head(stack) \in Opening
      /\ stack[1] # <<"decls">> /\ UNCHANGED <<tokens, current, had_error, decls, crashed>>
  <2>1. /\ stack \in Seq(Instructions) /\ stack # <<>> /\ Head(stack) \in Opening
        /\ Head(stack) # <<"decls">> /\ UNCHANGED <<tokens, current, had_error, decls, crashed>>
    BY DeclBodyWay DEF TypeOK
  <2> QED
    BY <2>1, HeadTailProperties
<1>2. ~crashed /\ ~crashed' /\ Shaped(stack)
  BY <1>1 DEF KeptInv
<1>3. PICK todo \in Seq(Instructions) :
        /\ Then(todo) /\ Len(todo) \in Nat \ {0} /\ todo[1] \in Opening
        /\ \A i \in 2..Len(todo) : todo[i] \in Plain
  BY DeclBodyWay, Zenon
<1>4. \A i \in 1..Len(todo) : todo[i] \in Plain \/ (i = 1 /\ todo[i] \in Opening)
  BY <1>3
<1>5. stack' = todo \o Tail(stack)
  BY <1>3 DEF Then
<1>6. Shaped(stack') /\ Head(stack') \in Opening /\ stack' # <<>>
  BY <1>1, <1>2, <1>3, <1>4, <1>5, ShapedThen DEF Shaped
<1>7. ~had_error' => decls' = Found(current)' \cup {current'}
  <2>1. Found(current)' = Found(current)
    BY <1>1 DEF Found
  <2> QED
    BY <1>1, <1>2, <2>1 DEF KeptInv
<1> QED
  BY <1>2, <1>6, <1>7, Zenon DEF KeptInv

LEMMA KeptDecls ==
  ASSUME TypeOK, TypeOK', KeptInv, Decls
  PROVE  KeptInv'
<1> DEFINE a == <<"decl">>
           b == <<"decls">>
<1>1. /\ stack \in Seq(Instructions) /\ stack # <<>> /\ Head(stack) = b
      /\ UNCHANGED <<tokens, current, had_error, decls, crashed>>
      /\ IF AtEnd THEN Then(<<>>) ELSE Then(<<a, b>>)
  BY DEF Decls, Calling, Skip, Frame, NoError, errorVars, TypeOK
<1>2. ~crashed /\ ~crashed' /\ Shaped(stack)
  BY <1>1 DEF KeptInv
<1>3. a \in Plain /\ a \notin Opening /\ b \notin Opening /\ b \notin Plain
  BY PlainNamed, Apart, Zenon
<1>4. stack[Len(stack)] = b /\ \A i \in 1..Len(stack)-1 : stack[i] \in Plain \/ (i = 1 /\ stack[i] \in Opening)
  BY <1>2 DEF Shaped
<1>5. a \in Instructions /\ b \in Instructions
  BY Named, Zenon
<1>6. Found(current)' = Found(current)
  BY <1>1 DEF Found
<1>7. AtEnd' = AtEnd
  BY <1>1 DEF AtEnd, Peek
<1> HIDE DEF a, b
<1>8. Tail(stack) = <<>>
  <2>1. Len(stack) \in Nat \ {0} /\ Head(stack) = stack[1]
    BY <1>1, HeadTailProperties, LenProperties, EmptySeq
  <2>2. Len(stack) = 1
    <3>1. stack[1] \notin Plain /\ stack[1] \notin Opening
      BY <1>1, <1>3, <2>1
    <3>2. PICK q \in Nat \ {0} : q = Len(stack)
      BY <2>1
    <3>3. ~(1 \in 1..q-1)
      BY <1>4, <3>1, <3>2
    <3>4. q = 1
      BY <3>3
    <3> QED
      BY <3>2, <3>4
  <2>3. Tail(stack) \in Seq(Instructions) /\ Len(Tail(stack)) = 0
    BY <1>1, <2>2, HeadTailProperties
  <2> QED
    BY <2>3, EmptySeq
<1>9. ~had_error' => decls' = Found(current)'
  BY <1>1, <1>2, <1>3, <1>6 DEF KeptInv
<1>10. CASE AtEnd
  <2>1. stack' = <<>>
    BY <1>1, <1>8, <1>10, ConcatEmptySeq, EmptySeq DEF Then
  <2> QED
    BY <1>2, <1>7, <1>9, <1>10, <2>1 DEF KeptInv
<1>11. CASE ~AtEnd
  <2>1. stack' = <<a, b>>
    <3>1. stack' = <<a, b>> \o <<>>
      BY <1>1, <1>8, <1>11 DEF Then
    <3>2. <<a, b>> \in Seq(Instructions)
      BY <1>5
    <3> QED
      BY <3>1, <3>2, ConcatEmptySeq
  <2>2. Shaped(stack') /\ Head(stack') \notin Opening /\ stack' # <<>>
    <3>1. <<a, b>>[2] = <<"decls">>
      BY DEF b
    <3> QED
      BY <1>3, <2>1, <3>1 DEF Shaped
  <2> QED
    BY <1>2, <1>9, <2>2, Zenon DEF KeptInv
<1> QED
  BY <1>10, <1>11

\* nova_parser_parse returns a program it accepts with one declaration for each
\* fun, let and type keyword of the source and no fallback of parse_decl.
THEOREM DeclarationsAreKept == Spec => []DeclarationsKept
<1>1. Init => KeptInv
  <2> SUFFICES ASSUME Init PROVE KeptInv
    OBVIOUS
  <2> DEFINE a == <<"module_decl">>
             b == <<"imports">>
             c == <<"decls">>
  <2>1. stack = <<a, b, c>> /\ ~crashed /\ current = 0 /\ decls = {}
    BY Zenon DEF Init, Start
  <2>2. a \in Plain /\ b \in Plain /\ a \notin Opening
    BY PlainNamed, Apart, Zenon
  <2>3. c = <<"decls">>
    OBVIOUS
  <2> HIDE DEF a, b, c
  <2>4. Shaped(stack) /\ stack # <<>> /\ Head(stack) \notin Opening
    BY <2>1, <2>2, <2>3 DEF Shaped
  <2>5. Found(current) = {}
    BY <2>1 DEF Found
  <2> QED
    BY <2>1, <2>4, <2>5 DEF KeptInv
<1>2. TypeOK /\ TypeOK' /\ KeptInv /\ [Next]_vars => KeptInv'
  <2> SUFFICES ASSUME TypeOK, TypeOK', KeptInv, [Next]_vars PROVE KeptInv'
    OBVIOUS
  <2>1. CASE Step
    BY <2>1, StepKinds, KeptOrdinary, KeptKeyword, KeptDecl, KeptDecls, KeptBody, Zenon
  <2>2. CASE Overflow
    BY <2>2 DEF Overflow, KeptInv
  <2>3. CASE UNCHANGED vars
    BY <2>3 DEF vars, errorVars, KeptInv, AtEnd, Peek, Found
  <2> QED
    BY <2>1, <2>2, <2>3 DEF Next
<1>3. TypeOK /\ KeptInv => DeclarationsKept
  <2> SUFFICES ASSUME TypeOK, KeptInv, Accepted
               PROVE  decls = {i \in 0..Len(tokens)-1 : tokens[i + 1] \in DOMAIN DeclOf}
    BY DEF DeclarationsKept
  <2>1. decls = Found(current) /\ AtEnd
    BY DEF Accepted, Done, KeptInv
  <2>2. current \in Nat /\ Len(tokens) \in Nat \ {0} /\ current <= Len(tokens)
    BY LenProperties, EmptySeq DEF TypeOK, TokenArray
  <2>3. ASSUME NEW i \in 0..Len(tokens)-1, tokens[i + 1] \in DOMAIN DeclOf
        PROVE  i \in 0..current-1
    <3>1. tokens[i + 1] # "EOF"
      BY <2>3 DEF DeclOf
    <3>2. current < Len(tokens) => current + 1 = Len(tokens)
      BY <2>1, <2>2 DEF AtEnd, Peek, TypeOK, TokenArray
    <3>3. current < Len(tokens) => tokens[current + 1] = "EOF"
      BY <2>1 DEF AtEnd, Peek
    <3> QED
      BY <2>2, <3>1, <3>2, <3>3
  <2> QED
    BY <2>1, <2>2, <2>3 DEF Found
<1> QED
  BY <1>1, <1>2, <1>3, TypeCorrect, PTL DEF Spec

=============================================================================
