----------------------------- MODULE NovaGrammar -----------------------------
(***************************************************************************)
(* The grammar nova.g4: the parser rules as data, and what it means for    *)
(* them to derive a token array; the lexer rules as what they say of a     *)
(* lexeme, and the tokens of a text, the longest lexeme first.  Written    *)
(* from the grammar file, not from the parser and the lexer.               *)
(***************************************************************************)
EXTENDS Integers, SequencesExt, FiniteSetsExt

\* For each nonterminal its right-hand sides; X* and X? are written with a
\* nonterminal of their own.
Strict == [
  program    |-> {<<"module", "path", "imports", "decls", "EOF">>},
  path       |-> {<<"id", "dots">>},
  dots       |-> {<<>>, <<".", "id", "dots">>},
  imports    |-> {<<>>, <<"import", "path", "symbols", "imports">>},
  symbols    |-> {<<>>, <<"{", "id", "names", "}">>},
  names      |-> {<<>>, <<",", "id", "names">>},
  decls      |-> {<<>>, <<"decl", "decls">>},
  decl       |-> {<<"type", "id", "=", "variant", "variants">>,
                  <<"type", "id", "(", "params", ")">>,
                  <<"fun", "id", "(", "params", ")", "typed", "=", "expr">>,
                  <<"let", "id", "typed", "=", "expr">>},
  variant    |-> {<<"id">>},
  variants   |-> {<<>>, <<"|", "variant", "variants">>},
  typed      |-> {<<>>, <<":", "id">>},
  params     |-> {<<>>, <<"id", "typed", "more_params">>},
  more_params |-> {<<>>, <<",", "id", "typed", "more_params">>},
  expr       |-> {<<"if", "expr", "block", "else_part">>, <<"while", "expr", "block">>,
                  <<"match", "expr", "{", "arms", "}">>, <<"async", "block">>,
                  <<"await", "expr">>, <<"!", "expr">>, <<"call", "pipes">>},
  else_part  |-> {<<>>, <<"else", "block">>},
  pipes      |-> {<<>>, <<"|>", "call", "pipes">>},
  call       |-> {<<"primary", "calls">>},
  calls      |-> {<<>>, <<"(", "args", ")", "calls">>},
  args       |-> {<<>>, <<"arg", "more_args">>},
  more_args  |-> {<<>>, <<",", "arg", "more_args">>},
  arg        |-> {<<"expr">>, <<"id", "=", "expr">>},
  primary    |-> {<<"lit">>, <<"id">>, <<"[", "exprs", "]">>, <<"(", "expr", ")">>,
                  <<"(", "params", ")", "->", "expr">>},
  exprs      |-> {<<>>, <<"expr", "more_exprs">>},
  more_exprs |-> {<<>>, <<",", "expr", "more_exprs">>},
  arms       |-> {<<"arm", "more_arms">>},
  more_arms  |-> {<<>>, <<"arm", "more_arms">>},
  arm        |-> {<<"id", "->", "expr">>, <<"id", "(", "params", ")", "->", "expr">>},
  block      |-> {<<"{", "}">>, <<"{", "expr", "items", "}">>},
  items      |-> {<<>>, <<";", "expr", "items">>}]

\* What the parser takes beyond nova.g4: payloads on variants, else if, blocks
\* as operands, semicolons that are optional, trailing or after an arm, a match
\* without arms, and an import list that is empty or ends with a comma.
Relaxed == [Strict EXCEPT
  !["symbols"]   = {<<>>, <<"{", "names", "}">>},
  !["names"]     = {<<>>, <<"id">>, <<"id", ",", "names">>},
  !["variant"]   = {<<"id">>, <<"id", "(", "params", ")">>},
  !["else_part"] = @ \cup {<<"else", "if", "expr", "block", "else_part">>},
  !["primary"]   = @ \cup {<<"block">>},
  !["arms"]      = {<<>>, <<"arm", "arms">>, <<"arm", ";", "arms">>},
  !["block"]     = {<<"{", "items", "}">>},
  !["items"]     = {<<>>, <<"expr", "items">>, <<"expr", ";", "items">>}]

\* The symbols of rhs derive exactly the tokens of rest.
RECURSIVE Derives(_, _, _)
Derives(G, rhs, rest) ==
  IF rhs = <<>> THEN rest = <<>>
  ELSE IF Head(rhs) \in DOMAIN G
       THEN \E p \in G[Head(rhs)] : Derives(G, p \o Tail(rhs), rest)
       ELSE rest # <<>> /\ Head(rest) = Head(rhs) /\ Derives(G, Tail(rhs), Tail(rest))

InLanguage(G, tokens) == Derives(G, <<"program">>, tokens)

-----------------------------------------------------------------------------
(* The lexer rules.  A lexeme w is a sequence of characters.  What the     *)
(* lexer takes beyond nova.g4: a number may end with its point, a          *)
(* backslash escapes between three quotes too, three quotes never begin    *)
(* with an empty string, a comment goes on behind a carriage return, and   *)
(* "=>" is a token, which no rule uses.                                    *)

KeywordRules == {"module", "import", "fun", "let", "type", "if", "while", "else", "match",
                 "async", "await"}
LiteralRules == {"true", "false"}
MarkRules == {"|>", "->", "!", ".", ",", ":", ";", "=", "|", "(", ")", "{", "}", "[", "]", "=>"}
DigitSet  == {"0", "1"}
LetterSet == {"_", "a", "e", "f", "i", "l", "m", "d", "o", "t", "u", "n"}

All(w, class) == \A i \in DOMAIN w : w[i] \in class

\* NUMBER, STRING with one and with three quotes, ID, COMMENT, WS
NumberRule(w) ==
  \E n \in 1..Len(w) : /\ All(SubSeq(w, 1, n), DigitSet)
                       /\ n < Len(w) => w[n + 1] = "." /\ All(SubSeq(w, n + 2, Len(w)), DigitSet)

\* Between the quotes, q at each end, each character is escaped or not, and
\* where it is not, neither quotes nor the last half of an escape begin.
StringRule(w, q) ==
  /\ Len(w) >= 2 * q
  /\ All(SubSeq(w, 1, q) \o SubSeq(w, Len(w) - q + 1, Len(w)), {"\""})
  /\ LET inside == (q + 1)..(Len(w) - q)
     IN \E escapes \in SUBSET inside : \A p \in inside :
          /\ p \in escapes <=> p - 1 \notin escapes /\ w[p] = "\\"
          /\ p \in escapes => p + 1 \in inside
          /\ p - 1 \notin escapes => ~All(SubSeq(w, p, p + q - 1), {"\""})

IdRule(w)      == Head(w) \in LetterSet /\ All(w, LetterSet \cup DigitSet)
CommentRule(w) == Head(w) = "#" /\ "\n" \notin ToSet(w)
BlankRule(w)   == All(w, {" ", "\t", "\r", "\n"})

\* the token w makes, in front of rest; "skip" is none, "none" is no lexeme
LexemeKind(w, rest) ==
  LET word == FoldLeft(\o, "", w)
  IN CASE word \in MarkRules \cup KeywordRules -> word
       [] IdRule(w)     -> IF word \in LiteralRules THEN "lit" ELSE "id"
       [] NumberRule(w) \/ StringRule(w, 3) -> "lit"
       [] StringRule(w, 1) /\ ~(Len(w) = 2 /\ rest # <<>> /\ rest[1] = "\"") -> "lit"
       [] CommentRule(w) \/ BlankRule(w)    -> "skip"
       [] OTHER         -> "none"

\* The kinds of the tokens of text: the longest lexeme, then the rest; an error
\* where there is none.
RECURSIVE TokensOf(_)
TokensOf(text) ==
  LET First(n) == LexemeKind(SubSeq(text, 1, n), SubSeq(text, n + 1, Len(text)))
      lengths  == {n \in DOMAIN text : First(n) # "none"}
      kind     == First(Max(lengths))
      others   == TokensOf(SubSeq(text, Max(lengths) + 1, Len(text)))
  IN IF text = <<>> THEN <<"EOF">>
     ELSE IF lengths = {} THEN <<"ERROR">>
     ELSE IF kind = "skip" THEN others ELSE <<kind>> \o others

=============================================================================
