---------------------------- MODULE MCNovaParser ----------------------------
(***************************************************************************)
(* Inputs for NovaParser and the comparison of what it accepts with        *)
(* nova.g4.  An input is a text, which NovaLexer cuts in tokens as         *)
(* nova_parser_init does, or the token array itself: every short sequence  *)
(* of the tokens one construct is made of, where that construct may stand. *)
(***************************************************************************)
EXTENDS NovaParser, NovaGrammar

CONSTANT Longest   \* bound: tokens that vary, beside that of each family

VARIABLE source    \* the text, None if the tokens are given

None == <<"no text">>
Lexer == INSTANCE NovaLexer

Header == <<"module", "id">>
LetHeader == Header \o <<"let", "id", "=">>

\* One construct: the tokens before it, the tokens that vary and how many of
\* them, and the token that ends the array.
Family(before, kinds, length) ==
  [before |-> before, kinds |-> kinds, length |-> length, last |-> "EOF"]

Families == {
  Family(Header, {"let", "fun", "type", "id", "lit", "=", "(", ")", "|", ":"}, 4),
  Family(Header \o <<"type", "id">>, {"=", "(", "id", ")", "|", ",", "let"}, 4),
  Family(Header \o <<"fun", "id", "(">>, {"id", ")", ":", ",", "=", "lit"}, 5),
  Family(<<>>, {"module", "import", "id", ".", "let", "{"}, 4),
  Family(Header \o <<"import", "id">>, {"{", "id", "}", ",", ".", "import"}, 4),
  Family(LetHeader, {"id", "lit", "(", ")", "[", "]", ",", "->", "|>", "="}, 4),
  Family(LetHeader \o <<"(">>, {"id", ")", "->", "=>", ":", ",", "("}, 5),
  Family(LetHeader, {"if", "while", "else", "async", "await", "!", "id", "{", "}"}, 4),
  Family(LetHeader \o <<"if", "id", "{">>, {"}", "else", "{", "if", "id", ";", "let"}, 4),
  Family(LetHeader \o <<"match", "id", "{">>, {"id", "->", "(", ")", ";", "}"}, 5),
  [Family(Header, {"let", "id", "=", "(", "[", "}"}, 4) EXCEPT !.last = "ERROR"]}

\* Texts: any characters the lexer tells apart, then the inside of strings, of
\* numbers, words and marks, and of lines in a program.
Chars(before, chars, length) == [before |-> before, chars |-> chars, length |-> length]
Spelled == <<"m", "o", "d", "u", "l", "e", " ", "a", "\n", "l", "e", "t", " ", "a", "=">>

Texts == {
  Chars(<<>>, {"i", "f", "1", ".", " ", "\n", "#", "\"", "\\", "=", ">", "-", "|", "?"}, 3),
  Chars(<<"\"">>, {"\"", "\\", "a"}, 7),
  Chars(<<>>, {"1", ".", "a", "="}, 5),
  Chars(<<>>, {"=", "|", "-", ">", "("}, 4),
  Chars(Spelled, {"\n", "\"", "a", "#", "\r", "("}, 4)}

MCInit ==
  /\ \/ /\ source = None
        /\ \E f \in Families : \E n \in 0..Longest :
             /\ n <= f.length
             /\ \E s \in [1..n -> f.kinds] : tokens = f.before \o s \o <<f.last>>
     \/ \E t \in Texts : \E n \in 0..t.length : \E s \in [1..n -> t.chars] :
          source = t.before \o s /\ tokens = Lexer!KindsOf(Lexer!Tokenize(source))
  /\ Start

MCNext == Next /\ UNCHANGED source
MCSpec == MCInit /\ [][MCNext]_<<vars, source>>
MCFairSpec == MCSpec /\ WF_vars(Next)

Begins == source # None /\ current = 0 /\ reported = {}

\* The lexer cuts every text in the tokens nova.g4 says, with the liberties
\* NovaGrammar lists: always the longest lexeme, keywords only where no longer
\* name goes on, strings up to the first quotes that are not escaped, and an
\* error exactly where no lexeme begins (nova_lexer_next and what it calls).
LexesGrammar == Begins => tokens = TokensOf(source)

LineOf(p)   == Cardinality({i \in 1..(p - 1) : source[i] = "\n"})
ColumnOf(p) == p - 1 - Max({0} \cup {i \in 1..(p - 1) : source[i] = "\n"})
Holds(token, p) == p \in token.start..(token.start + token.length - 1)

\* In a text that lexes, a hover request finds the token under the cursor, on
\* the line the token begins on, or the one that ends right there, and it finds
\* no other: lines and columns are right behind comments and strings over
\* several lines, and find_token_at never stops too early
\* (src/tools/nova_lsp.cpp).
HoverFindsToken ==
  Begins /\ Last(tokens) = "EOF" =>
    LET array == Lexer!Tokenize(source)
        Under(p) == {i \in DOMAIN array : Holds(array[i], p)
                                           /\ LineOf(array[i].start) = LineOf(p)}
        Ending(p) == {i \in DOMAIN array : p > 1 /\ Holds(array[i], p - 1)
                                            /\ LineOf(array[i].start) = LineOf(p)}
    IN \A p \in DOMAIN source :
         LET found == Lexer!FindTokenAt(array, LineOf(p), ColumnOf(p))
         IN IF Ending(p) # {} THEN found \in Ending(p)
            ELSE IF Under(p) # {} THEN found \in Under(p) ELSE found = 0

\* What the parser accepts is a program of nova.g4, or of the grammar with the
\* liberties that Relaxed lists.
AcceptedIsGrammatical == Accepted => InLanguage(Relaxed, tokens)

\* Conversely the parser accepts every program that nova.g4 derives ("mirrors
\* the grammar", README.md:24): the first error, or the end of the stack, comes
\* in no such program, and without an error the parser comes to its end.
GrammaticalIsAccepted ==
  /\ [][(had_error' \/ crashed') /\ ~had_error => ~InLanguage(Strict, tokens)]_vars
  /\ <>(stack = <<>> \/ had_error)

=============================================================================
