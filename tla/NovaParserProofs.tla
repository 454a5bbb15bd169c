-------------------------- MODULE NovaParserProofs --------------------------
(***************************************************************************)
(* Theorems about NovaParser for every token array and every stack size.   *)
(***************************************************************************)
EXTENDS NovaParser, SequenceTheorems, TLAPS

\* A sequence over S, put before the tail of another.
LEMMA ThenType ==
  ASSUME NEW S, NEW s \in Seq(S), s # <<>>, NEW todo \in Seq(S)
  PROVE  todo \o Tail(s) \in Seq(S)
<1>1. Tail(s) \in Seq(S)
  BY HeadTailProperties
<1> QED
  BY <1>1, ConcatProperties

\* What Then leaves on the stack, and how many calls are active for it.
LEMMA ThenTyped ==
  ASSUME TypeOK, stack # <<>>, NEW todo \in Seq(Instructions), Then(todo)
  PROVE  stack' \in Seq(Instructions) /\ depths' \in Seq(Nat) /\ Len(depths') = Len(stack')
<1>1. stack' \in Seq(Instructions)
  BY ThenType DEF Then, TypeOK
<1>2. Len(stack') = Len(todo) + (Len(stack) - 1) /\ Len(stack) \in Nat \ {0} /\ Len(todo) \in Nat
  <2>1. Tail(stack) \in Seq(Instructions) /\ Len(Tail(stack)) = Len(stack) - 1
    BY HeadTailProperties DEF TypeOK
  <2>2. Len(stack') = Len(todo) + Len(Tail(stack))
    BY <2>1, ConcatProperties DEF Then
  <2> QED
    BY <2>1, <2>2, LenProperties, EmptySeq DEF TypeOK
<1>3. depths # <<>> /\ depths \in Seq(Nat)
  BY <1>2, EmptySeq DEF TypeOK
<1>4. Head(depths) \in Nat /\ Tail(depths) \in Seq(Nat) /\ Len(Tail(depths)) = Len(stack) - 1
  BY <1>3, HeadTailProperties DEF TypeOK
<1> DEFINE D == [i \in 1..Len(todo) |-> Head(depths) + Enter(todo[i])]
<1>5. D \in Seq(Nat) /\ Len(D) = Len(todo)
  <2>1. \A i \in 1..Len(todo) : Head(depths) + Enter(todo[i]) \in Nat
    BY <1>4 DEF Enter
  <2> QED
    BY <1>2, <2>1
<1> HIDE DEF D
<1>6. depths' = D \o Tail(depths)
  BY DEF Then, D
<1>7. depths' \in Seq(Nat) /\ Len(depths') = Len(D) + Len(Tail(depths))
  BY <1>4, <1>5, <1>6, ConcatProperties
<1> QED
  BY <1>1, <1>2, <1>4, <1>5, <1>7

LEMMA TokenAt ==
  ASSUME NEW i \in 0..Len(tokens), tokens \in Seq(Kinds)
  PROVE  /\ Peek(i) \in Kinds /\ Previous(i) \in Kinds
         /\ Peek(i) # "EOF" => i + 1 \in 0..Len(tokens)
         /\ Previous(i) # "EOF" => i - 1 \in 0..Len(tokens)
<1>1. Len(tokens) \in Nat /\ \A j \in 1..Len(tokens) : tokens[j] \in Kinds
  BY ElementOfSeq, LenProperties
<1>2. "EOF" \in Kinds
  BY DEF Kinds
<1> QED
  BY <1>1, <1>2 DEF Peek, Previous

\* advance and the steps back of parse_primary stay inside the array.
LEMMA AdvancedType ==
  ASSUME TypeOK
  PROVE  /\ Advanced \in 0..Len(tokens)
         /\ Previous(Advanced) # "EOF" => Advanced - 1 \in 0..Len(tokens)
         /\ AtEnd /\ current > 0 => current - 1 \in 0..Len(tokens)
<1>1. tokens \in Seq(Kinds) /\ current \in 0..Len(tokens) /\ Len(tokens) \in Nat
  BY LenProperties DEF TypeOK
<1>2. Advanced \in 0..Len(tokens)
  BY <1>1, TokenAt DEF Advanced, AtEnd
<1>3. Previous(Advanced) # "EOF" => Advanced - 1 \in 0..Len(tokens)
  BY <1>1, <1>2, TokenAt
<1> QED
  BY <1>1, <1>2, <1>3

\* What a step of a function does, whichever function it is.
Good ==
  /\ tokens' = tokens /\ current' \in 0..Len(tokens)
  /\ stack' \in Seq(Instructions) /\ depths' \in Seq(Nat) /\ Len(depths') = Len(stack')
  /\ decls' \in SUBSET (0..Len(tokens)) /\ crashed' \in BOOLEAN
  /\ \/ UNCHANGED errorVars
     \/ /\ had_error' = TRUE /\ panic_mode' \in BOOLEAN
        /\ \E at \in 0..Len(tokens) :
             reported' = IF panic_mode THEN reported ELSE reported \cup {at}

LEMMA AcceptGood ==
  ASSUME TypeOK, stack # <<>>, NEW t, NEW todo \in Seq(Instructions), Accept(t, todo)
  PROVE  Good
<1>1. stack' \in Seq(Instructions) /\ depths' \in Seq(Nat) /\ Len(depths') = Len(stack')
  BY ThenTyped DEF Accept
<1> QED
  BY <1>1, AdvancedType DEF Accept, Good, Frame, NoError, TypeOK

LEMMA SkipGood ==
  ASSUME TypeOK, stack # <<>>, NEW todo \in Seq(Instructions), Skip(todo)
  PROVE  Good
<1>1. stack' \in Seq(Instructions) /\ depths' \in Seq(Nat) /\ Len(depths') = Len(stack')
  BY ThenTyped DEF Skip
<1> QED
  BY <1>1 DEF Skip, Good, Frame, NoError, TypeOK

LEMMA MatchGood ==
  ASSUME TypeOK, stack # <<>>, NEW t, NEW todo \in Seq(Instructions),
         NEW otherwise \in Seq(Instructions), Match(t, todo, otherwise)
  PROVE  Good
  BY AcceptGood, SkipGood DEF Match

LEMMA ErrorGood ==
  ASSUME TypeOK, stack # <<>>, NEW at \in 0..Len(tokens), NEW c \in 0..Len(tokens),
         Error(at), current' = c, Then(<<>>), Frame
  PROVE  Good
<1>1. stack' \in Seq(Instructions) /\ depths' \in Seq(Nat) /\ Len(depths') = Len(stack')
  <2>1. <<>> \in Seq(Instructions)
    BY EmptySeq
  <2> QED
    BY <2>1, ThenTyped
<1>2. had_error' = TRUE /\ panic_mode' = TRUE
      /\ reported' = IF panic_mode THEN reported ELSE reported \cup {at}
  BY DEF Error
<1> QED
  BY <1>1, <1>2 DEF Good, Frame, TypeOK

\* The instructions that the functions push.
LEMMA Steps ==
  /\ \A f \in Functions \cup Rests : <<f>> \in Instructions
  /\ \A t \in Kinds : <<"take", t>> \in Instructions
  BY DEF Instructions

LEMMA Tuples ==
  ASSUME NEW a \in Instructions
  PROVE  /\ <<>> \in Seq(Instructions) /\ <<a>> \in Seq(Instructions)
         /\ \A b \in Instructions : <<a, b>> \in Seq(Instructions)
         /\ \A b, c \in Instructions : <<a, b, c>> \in Seq(Instructions)
         /\ \A b, c, d \in Instructions : <<a, b, c, d>> \in Seq(Instructions)
         /\ \A b, c, d, e \in Instructions : <<a, b, c, d, e>> \in Seq(Instructions)
         /\ \A b, c, d, e, f \in Instructions : <<a, b, c, d, e, f>> \in Seq(Instructions)
         /\ \A b, c, d, e, f, g \in Instructions : <<a, b, c, d, e, f, g>> \in Seq(Instructions)
  OBVIOUS

\* Each of them by name.
LEMMA Named ==
  /\ <<"module_decl">> \in Instructions /\ <<"module_path">> \in Instructions
  /\ <<"import_decl">> \in Instructions /\ <<"decl">> \in Instructions
  /\ <<"let_decl">> \in Instructions /\ <<"fun_decl">> \in Instructions
  /\ <<"type_decl">> \in Instructions /\ <<"param_list">> \in Instructions
  /\ <<"param">> \in Instructions /\ <<"variant_list">> \in Instructions
  /\ <<"variant_decl">> \in Instructions /\ <<"expression">> \in Instructions
  /\ <<"match_expr">> \in Instructions /\ <<"unary_or_pipe">> \in Instructions
  /\ <<"pipe_expr">> \in Instructions /\ <<"call_expr">> \in Instructions
  /\ <<"primary">> \in Instructions /\ <<"lambda">> \in Instructions
  /\ <<"argument_list">> \in Instructions /\ <<"block_expression">> \in Instructions
  /\ <<"list_literal">> \in Instructions /\ <<"path_tail">> \in Instructions
  /\ <<"imports">> \in Instructions /\ <<"import_symbols">> \in Instructions
  /\ <<"symbols">> \in Instructions /\ <<"symbols_tail">> \in Instructions
  /\ <<"decls">> \in Instructions /\ <<"annotation">> \in Instructions
  /\ <<"params_tail">> \in Instructions /\ <<"type_body">> \in Instructions
  /\ <<"variants_tail">> \in Instructions /\ <<"payload">> \in Instructions
  /\ <<"else">> \in Instructions /\ <<"pipe_tail">> \in Instructions
  /\ <<"call_tail">> \in Instructions /\ <<"arg">> \in Instructions
  /\ <<"args_tail">> \in Instructions /\ <<"items">> \in Instructions
  /\ <<"items_sep">> \in Instructions /\ <<"arms">> \in Instructions
  /\ <<"arms_sep">> \in Instructions /\ <<"list_items">> \in Instructions
  /\ <<"list_tail">> \in Instructions
  BY Steps DEF Functions, Rests

LEMMA NamedTakes ==
  /\ <<"take", "(">> \in Instructions /\ <<"take", ")">> \in Instructions
  /\ <<"take", "->">> \in Instructions /\ <<"take", "=">> \in Instructions
  /\ <<"take", "[">> \in Instructions /\ <<"take", "]">> \in Instructions
  /\ <<"take", "fun">> \in Instructions /\ <<"take", "id">> \in Instructions
  /\ <<"take", "let">> \in Instructions /\ <<"take", "module">> \in Instructions
  /\ <<"take", "type">> \in Instructions /\ <<"take", "{">> \in Instructions
  /\ <<"take", "}">> \in Instructions
  BY Steps DEF Kinds, Keywords, Marks

-----------------------------------------------------------------------------
LEMMA ConsumeGood ==
  ASSUME TypeOK, Consume
  PROVE  Good
<1>1. <<>> \in Seq(Instructions) /\ current \in 0..Len(tokens) /\ stack # <<>>
  BY EmptySeq DEF TypeOK, Consume
<1> QED
  BY <1>1, AcceptGood, ErrorGood DEF Consume

LEMMA ModulePathGood ==
  ASSUME TypeOK, ModulePath
  PROVE  Good
<1>1. /\ <<>> \in Seq(Instructions)
      /\ <<<<"take", "module">>, <<"module_path">>>> \in Seq(Instructions)
      /\ <<<<"take", "id">>, <<"path_tail">>>> \in Seq(Instructions)
  BY Named, NamedTakes, Tuples
<1> QED
  BY <1>1, AcceptGood, SkipGood, MatchGood DEF ModulePath, Calling

LEMMA ImportsGood ==
  ASSUME TypeOK, Imports
  PROVE  Good
<1>1. /\ <<>> \in Seq(Instructions)
      /\ <<<<"import_decl">>, <<"imports">>>> \in Seq(Instructions)
      /\ <<<<"module_path">>, <<"import_symbols">>>> \in Seq(Instructions)
      /\ <<<<"symbols">>, <<"take", "}">>>> \in Seq(Instructions)
      /\ <<<<"take", "id">>, <<"symbols_tail">>>> \in Seq(Instructions)
      /\ <<<<"symbols">>>> \in Seq(Instructions)
  BY Named, NamedTakes, Tuples
<1> QED
  BY <1>1, AcceptGood, SkipGood, MatchGood DEF Imports, Calling

LEMMA ParamsGood ==
  ASSUME TypeOK, Params
  PROVE  Good
<1>1. /\ <<>> \in Seq(Instructions)
      /\ <<<<"take", ")">>>> \in Seq(Instructions)
      /\ <<<<"param">>, <<"params_tail">>>> \in Seq(Instructions)
      /\ <<<<"take", "id">>, <<"annotation">>>> \in Seq(Instructions)
      /\ <<<<"take", "id">>>> \in Seq(Instructions)
      /\ <<<<"param_list">>>> \in Seq(Instructions)
  BY Named, NamedTakes, Tuples
<1> QED
  BY <1>1, AcceptGood, SkipGood, MatchGood DEF Params, Calling

LEMMA DeclBodyGood ==
  ASSUME TypeOK, DeclBody
  PROVE  Good
<1>1. /\ <<<<"take", "let">>, <<"take", "id">>, <<"annotation">>, <<"take", "=">>, <<"expression">>>> \in Seq(Instructions)
      /\ <<<<"take", "fun">>, <<"take", "id">>, <<"take", "(">>, <<"param_list">>, <<"annotation">>, <<"take", "=">>, <<"expression">>>> \in Seq(Instructions)
      /\ <<<<"take", "type">>, <<"take", "id">>, <<"type_body">>>> \in Seq(Instructions)
  BY Named, NamedTakes, Tuples
<1> QED
  BY <1>1, AcceptGood, SkipGood, MatchGood DEF DeclBody, Calling

LEMMA DeclsGood ==
  ASSUME TypeOK, Decls
  PROVE  Good
<1>1. /\ <<>> \in Seq(Instructions)
      /\ <<<<"decl">>, <<"decls">>>> \in Seq(Instructions)
  BY Named, NamedTakes, Tuples
<1> QED
  BY <1>1, AcceptGood, SkipGood, MatchGood DEF Decls, Calling

LEMMA ExpressionGood ==
  ASSUME TypeOK, Expression
  PROVE  Good
<1>1. /\ <<>> \in Seq(Instructions)
      /\ <<<<"expression">>, <<"block_expression">>, <<"else">>>> \in Seq(Instructions)
      /\ <<<<"expression">>, <<"block_expression">>>> \in Seq(Instructions)
      /\ <<<<"match_expr">>>> \in Seq(Instructions)
      /\ <<<<"block_expression">>>> \in Seq(Instructions)
      /\ <<<<"unary_or_pipe">>>> \in Seq(Instructions)
      /\ <<<<"expression">>>> \in Seq(Instructions)
  BY Named, NamedTakes, Tuples
<1> QED
  BY <1>1, AcceptGood, SkipGood, MatchGood DEF Expression, Calling

LEMMA OperandGood ==
  ASSUME TypeOK, Operand
  PROVE  Good
<1>1. /\ <<>> \in Seq(Instructions)
      /\ <<<<"expression">>>> \in Seq(Instructions)
      /\ <<<<"pipe_expr">>>> \in Seq(Instructions)
      /\ <<<<"call_expr">>, <<"pipe_tail">>>> \in Seq(Instructions)
      /\ <<<<"primary">>, <<"call_tail">>>> \in Seq(Instructions)
      /\ <<<<"argument_list">>, <<"call_tail">>>> \in Seq(Instructions)
  BY Named, NamedTakes, Tuples
<1> QED
  BY <1>1, AcceptGood, SkipGood, MatchGood DEF Operand, Calling

LEMMA ArgumentsGood ==
  ASSUME TypeOK, Arguments
  PROVE  Good
<1>1. /\ <<<<"take", ")">>>> \in Seq(Instructions)
      /\ <<<<"arg">>, <<"args_tail">>>> \in Seq(Instructions)
      /\ <<<<"take", "=">>, <<"expression">>>> \in Seq(Instructions)
      /\ <<<<"expression">>>> \in Seq(Instructions)
  BY Named, NamedTakes, Tuples
<1> QED
  BY <1>1, AcceptGood, SkipGood, MatchGood DEF Arguments, Calling

LEMMA LambdaGood ==
  ASSUME TypeOK, Lambda
  PROVE  Good
<1>1. <<<<"param_list">>, <<"take", "->">>, <<"expression">>>> \in Seq(Instructions)
  BY Named, NamedTakes, Tuples
<1> QED
  BY <1>1, AcceptGood, SkipGood, MatchGood DEF Lambda, Calling

LEMMA BlockGood ==
  ASSUME TypeOK, Block
  PROVE  Good
<1>1. /\ <<>> \in Seq(Instructions)
      /\ <<<<"take", "{">>, <<"items">>, <<"take", "}">>>> \in Seq(Instructions)
      /\ <<<<"expression">>, <<"items_sep">>>> \in Seq(Instructions)
      /\ <<<<"items">>>> \in Seq(Instructions)
  BY Named, NamedTakes, Tuples
<1> QED
  BY <1>1, AcceptGood, SkipGood, MatchGood DEF Block, Calling

LEMMA ArmsGood ==
  ASSUME TypeOK, Arms
  PROVE  Good
<1>1. /\ <<>> \in Seq(Instructions)
      /\ <<<<"expression">>, <<"take", "{">>, <<"arms">>, <<"take", "}">>>> \in Seq(Instructions)
      /\ <<<<"take", "id">>, <<"payload">>, <<"take", "->">>, <<"expression">>, <<"arms_sep">>>> \in Seq(Instructions)
      /\ <<<<"arms">>>> \in Seq(Instructions)
  BY Named, NamedTakes, Tuples
<1> QED
  BY <1>1, AcceptGood, SkipGood, MatchGood DEF Arms, Calling

LEMMA ListGood ==
  ASSUME TypeOK, List
  PROVE  Good
<1>1. /\ <<<<"take", "[">>, <<"list_items">>>> \in Seq(Instructions)
      /\ <<<<"take", "]">>>> \in Seq(Instructions)
      /\ <<<<"expression">>, <<"list_tail">>>> \in Seq(Instructions)
  BY Named, NamedTakes, Tuples
<1> QED
  BY <1>1, AcceptGood, SkipGood, MatchGood DEF List, Calling

LEMMA TypeBodyGood ==
  ASSUME TypeOK, TypeBody
  PROVE  Good
<1>1. /\ <<>> \in Seq(Instructions)
      /\ <<<<"variant_list">>>> \in Seq(Instructions)
      /\ <<<<"param_list">>>> \in Seq(Instructions)
      /\ <<<<"variant_decl">>, <<"variants_tail">>>> \in Seq(Instructions)
      /\ <<<<"take", "id">>, <<"payload">>>> \in Seq(Instructions)
  BY Named, NamedTakes, Tuples
<1>2. current \in 0..Len(tokens)
  BY DEF TypeOK
<1> QED
  BY <1>1, <1>2, AcceptGood, SkipGood, MatchGood, ErrorGood DEF TypeBody, Calling

LEMMA DeclFunction ==
  ASSUME NEW k \in DOMAIN DeclOf
  PROVE  <<<<DeclOf[k]>>>> \in Seq(Instructions)
<1>1. DOMAIN DeclOf = {"let", "fun", "type"}
  BY DEF DeclOf
<1>2. /\ <<DeclOf["let"]>> \in Instructions /\ <<DeclOf["fun"]>> \in Instructions
      /\ <<DeclOf["type"]>> \in Instructions
  BY Named, Zenon DEF DeclOf
<1>3. <<DeclOf[k]>> \in Instructions
  BY <1>1, <1>2, Zenon
<1> QED
  BY <1>3, Tuples, Zenon

\* The declarations, and the recovery of parse_decl.
LEMMA DeclGood ==
  ASSUME TypeOK, Decl
  PROVE  Good
<1>1. stack # <<>> /\ current \in 0..Len(tokens) /\ decls' \in SUBSET (0..Len(tokens))
  BY DEF Decl, Calling, TypeOK
<1>2. CASE Peek(current) \in DOMAIN DeclOf /\ Then(<<<<DeclOf[Peek(current)]>>>>)
           /\ UNCHANGED <<current, errorVars>>
  <2>1. <<<<DeclOf[Peek(current)]>>>> \in Seq(Instructions)
    BY <1>2, DeclFunction
  <2>2. stack' \in Seq(Instructions) /\ depths' \in Seq(Nat) /\ Len(depths') = Len(stack')
    BY <1>1, <1>2, <2>1, ThenTyped
  <2> QED
    BY <1>1, <1>2, <2>2 DEF Decl, Good, TypeOK
<1>3. CASE had_error' = TRUE /\ Synchronize /\ Then(<<>>)
           /\ reported' = IF panic_mode THEN reported ELSE reported \cup {current}
  <2>1. stack' \in Seq(Instructions) /\ depths' \in Seq(Nat) /\ Len(depths') = Len(stack')
    <3>1. <<>> \in Seq(Instructions)
      BY EmptySeq
    <3> QED
      BY <1>1, <1>3, <3>1, ThenTyped
  <2>2. current' \in 0..Len(tokens) /\ panic_mode' = FALSE
    <3>1. PICK i \in current..Len(tokens) : current' = i
      BY <1>3 DEF Synchronize
    <3>2. current \in Nat /\ Len(tokens) \in Nat
      BY LenProperties DEF TypeOK
    <3>3. panic_mode' = FALSE
      BY <1>3 DEF Synchronize
    <3> QED
      BY <3>1, <3>2, <3>3
  <2> QED
    BY <1>1, <1>3, <2>1, <2>2 DEF Decl, Good, TypeOK
<1> QED
  BY <1>2, <1>3 DEF Decl

LEMMA PrimaryGood ==
  ASSUME TypeOK, Primary
  PROVE  Good
<1>1. /\ <<<<"lambda">>>> \in Seq(Instructions)
      /\ <<>> \in Seq(Instructions)
      /\ <<<<"expression">>, <<"take", ")">>>> \in Seq(Instructions)
      /\ <<<<"block_expression">>>> \in Seq(Instructions) /\ <<<<"list_literal">>>> \in Seq(Instructions)
  BY Named, NamedTakes, Tuples
<1>2. stack # <<>>
  BY DEF Primary, Calling
<1>3. CASE Accept("(", <<<<"lambda">>>>)
  BY <1>1, <1>2, <1>3, AcceptGood
<1>4. ASSUME NEW todo \in Seq(Instructions), NEW c \in 0..Len(tokens),
             current' = c, Then(todo), NoError, Frame
      PROVE  Good
  <2>1. stack' \in Seq(Instructions) /\ depths' \in Seq(Nat) /\ Len(depths') = Len(stack')
    BY <1>2, <1>4, ThenTyped
  <2> QED
    BY <1>4, <2>1 DEF Good, Frame, NoError, TypeOK
<1>5. CASE Previous(Advanced) \in {"id", "lit"} /\ current' = Advanced /\ Then(<<>>) /\ NoError /\ Frame
  BY <1>1, <1>4, <1>5, AdvancedType
<1>6. CASE current' = Advanced /\ Then(<<<<"expression">>, <<"take", ")">>>>) /\ NoError /\ Frame
  BY <1>1, <1>4, <1>6, AdvancedType
<1>7. CASE Previous(Advanced) \in {"{", "["} /\ current' = Advanced - 1 /\ NoError /\ Frame
           /\ (Then(<<<<"block_expression">>>>) \/ Then(<<<<"list_literal">>>>))
  BY <1>1, <1>4, <1>7, AdvancedType
<1>8. CASE current' = Advanced /\ Then(<<>>) /\ Frame
           /\ Error(IF AtEnd /\ current > 0 THEN current - 1 ELSE current)
  <2>1. (IF AtEnd /\ current > 0 THEN current - 1 ELSE current) \in 0..Len(tokens)
    BY AdvancedType DEF TypeOK
  <2> QED
    BY <1>2, <1>8, <2>1, ErrorGood, AdvancedType
<1> QED
  BY <1>3, <1>5, <1>6, <1>7, <1>8 DEF Primary

LEMMA StepGood ==
  ASSUME TypeOK, Step
  PROVE  Good
  BY ConsumeGood, ModulePathGood, ImportsGood, ParamsGood, DeclGood, DeclsGood,
     DeclBodyGood, TypeBodyGood, ExpressionGood, OperandGood, ArgumentsGood, LambdaGood,
     PrimaryGood, BlockGood, ArmsGood, ListGood DEF Step

-----------------------------------------------------------------------------
LEMMA StartType ==
  Init => TypeOK /\ ErrorsReported
<1> SUFFICES ASSUME Init PROVE TypeOK /\ ErrorsReported
  OBVIOUS
<1>1. stack \in Seq(Instructions) /\ depths \in Seq(Nat) /\ Len(depths) = Len(stack)
  <2> DEFINE a == <<"module_decl">>
             b == <<"imports">>
             c == <<"decls">>
  <2>1. a \in Instructions /\ b \in Instructions /\ c \in Instructions
    BY Named, Zenon
  <2>2. stack = <<a, b, c>> /\ depths = <<2, 1, 1>>
    BY DEF Init, Start
  <2> HIDE DEF a, b, c
  <2>3. stack \in Seq(Instructions) /\ Len(stack) = 3
    BY <2>1, <2>2
  <2>4. depths \in Seq(Nat) /\ Len(depths) = 3
    BY <2>2
  <2> QED
    BY <2>3, <2>4
<1>2. current \in 0..Len(tokens)
  BY LenProperties DEF Init, Start
<1>3. tokens \in Seq(Kinds) /\ TokenArray(tokens)
  BY DEF Init
<1>4. TypeOK
  BY <1>1, <1>2, <1>3 DEF Init, Start, TypeOK
<1>5. ErrorsReported
  BY DEF Init, Start, ErrorsReported
<1> QED
  BY <1>4, <1>5

\* The parser keeps its types: whatever the tokens, it stays inside the array.
THEOREM TypeCorrect == Spec => []TypeOK
<1>1. TypeOK /\ [Next]_vars => TypeOK'
  <2> SUFFICES ASSUME TypeOK, [Next]_vars PROVE TypeOK'
    OBVIOUS
  <2>1. CASE Step
    <3>1. Good
      BY <2>1, StepGood
    <3> QED
      BY <3>1 DEF Good, TypeOK, TokenArray, errorVars
  <2>2. CASE Overflow
    <3>1. stack' \in Seq(Instructions) /\ depths' \in Seq(Nat) /\ Len(depths') = Len(stack')
      BY <2>2, EmptySeq DEF Overflow
    <3> QED
      BY <2>2, <3>1 DEF Overflow, TypeOK, TokenArray, errorVars
  <2>3. CASE UNCHANGED vars
    BY <2>3 DEF vars, errorVars, TypeOK, TokenArray
  <2> QED
    BY <2>1, <2>2, <2>3 DEF Next
<1> QED
  BY <1>1, StartType, PTL DEF Spec

\* No error is silent and no diagnostic is lost, for every token array.
THEOREM ErrorsAreReported == Spec => []ErrorsReported
<1>1. TypeOK /\ ErrorsReported /\ [Next]_vars => ErrorsReported'
  <2> SUFFICES ASSUME TypeOK, ErrorsReported, [Next]_vars PROVE ErrorsReported'
    OBVIOUS
  <2>1. CASE Step
    <3>1. Good
      BY <2>1, StepGood
    <3>2. CASE UNCHANGED errorVars
      BY <3>2 DEF errorVars, ErrorsReported
    <3>3. ASSUME had_error' = TRUE, NEW at \in 0..Len(tokens),
                 reported' = IF panic_mode THEN reported ELSE reported \cup {at}
          PROVE  ErrorsReported'
      <4>1. CASE panic_mode
        BY <3>3, <4>1 DEF ErrorsReported
      <4>2. CASE ~panic_mode
        <5>1. at \in reported'
          BY <3>3, <4>2
        <5> QED
          BY <3>3, <5>1 DEF ErrorsReported
      <4> QED
        BY <4>1, <4>2
    <3> QED
      BY <3>1, <3>2, <3>3 DEF Good
  <2>2. CASE Overflow \/ UNCHANGED vars
    BY <2>2 DEF Overflow, vars, errorVars, ErrorsReported
  <2> QED
    BY <2>1, <2>2 DEF Next
<1> QED
  BY <1>1, StartType, TypeCorrect, PTL DEF Spec

=============================================================================
