------------------------------ MODULE NovaLexer ------------------------------
(***************************************************************************)
(* nova_lexer_tokenize and what it calls (src/src/lexer.cpp), and          *)
(* find_token_at of nova-lsp (src/tools/nova_lsp.cpp), which reads the     *)
(* lines and columns of the tokens.                                        *)
(*                                                                         *)
(* A text is a sequence of characters, each a string of length one.  A     *)
(* lexer is its position, the number of characters read, with the line     *)
(* and the column of the next one, from 1.  A token has the kind           *)
(* NovaParser knows it by, the place of its first character and its        *)
(* length, and the line and column where it starts.  Growing the token     *)
(* array, which may fail, is left out.                                     *)
(*                                                                         *)
(* An operator whose comment begins with "Mistake:" is a faulty variant of *)
(* the one below it, for checking that the property named notices.         *)
(***************************************************************************)
EXTENDS Integers, SequencesExt, FiniteSetsExt

\* some of each of the classes nova_is_alpha and nova_is_digit tell apart
Digits  == {"0", "1"}
Letters == {"_", "a", "e", "f", "i", "l", "m", "d", "o", "t", "u", "n"}
Blanks  == {" ", "\r", "\t", "\n"}
End     == ""   \* what peek returns past the last character

Start == [position |-> 0, line |-> 1, column |-> 1]

\* peek, and the character n places further on
Ahead(text, lexer, n) ==
  IF lexer.position + n < Len(text) THEN text[lexer.position + n + 1] ELSE End
Peek(text, lexer) == Ahead(text, lexer, 0)

\* Mistake: a new line goes on in the column of the old one (HoverFindsToken).
AdvanceInLine(text, lexer) ==
  LET c == Peek(text, lexer)
  IN IF c = End THEN lexer
     ELSE [position |-> lexer.position + 1, column |-> lexer.column + 1,
           line |-> IF c = "\n" THEN lexer.line + 1 ELSE lexer.line]
\* advance
Advance(text, lexer) ==
  LET c == Peek(text, lexer)
  IN IF c = End THEN lexer
     ELSE IF c = "\n" THEN [position |-> lexer.position + 1, line |-> lexer.line + 1, column |-> 1]
     ELSE [lexer EXCEPT !.position = @ + 1, !.column = @ + 1]

RECURSIVE AdvanceBy(_, _, _)
AdvanceBy(text, lexer, n) ==
  IF n = 0 THEN lexer ELSE AdvanceBy(text, Advance(text, lexer), n - 1)

\* the loops that read while the next character is of a class, or is not
RECURSIVE AdvanceOver(_, _, _)
AdvanceOver(text, lexer, class) ==
  IF Peek(text, lexer) \notin class THEN lexer
  ELSE AdvanceOver(text, Advance(text, lexer), class)
RECURSIVE AdvanceTo(_, _, _)
AdvanceTo(text, lexer, class) ==
  IF Peek(text, lexer) \in class \cup {End} THEN lexer
  ELSE AdvanceTo(text, Advance(text, lexer), class)

\* skip_whitespace_and_comments
RECURSIVE SkipBlanks(_, _)
SkipBlanks(text, lexer) ==
  CASE Peek(text, lexer) \in Blanks -> SkipBlanks(text, Advance(text, lexer))
    [] Peek(text, lexer) = "#"      -> SkipBlanks(text, AdvanceTo(text, lexer, {"\n"}))
    [] OTHER                        -> lexer

-----------------------------------------------------------------------------
(* Tokens.  Each of these returns the token that starts where the lexer    *)
(* from stands and the lexer behind it.                                    *)

Word(text, from, to) == FoldLeft(\o, "", SubSeq(text, from.position + 1, to.position))

\* make_token for what lies between two lexers; the error token is empty
Token(kind, from, to) ==
  [token |-> [kind |-> kind, start |-> from.position + 1, length |-> to.position - from.position,
              line |-> from.line, column |-> from.column],
   lexer |-> to]
ErrorToken(from, to) ==
  [token |-> [kind |-> "ERROR", start |-> to.position + 1, length |-> 0,
              line |-> from.line, column |-> from.column],
   lexer |-> to]

\* lex_number: the point needs no digit behind it
LexNumber(text, from) ==
  LET whole == AdvanceOver(text, from, Digits)
  IN Token("lit", from, IF Peek(text, whole) = "."
                        THEN AdvanceOver(text, Advance(text, whole), Digits) ELSE whole)

\* lex_identifier, nova_match_keyword
Keyword ==
  [word \in {"module", "import", "fun", "let", "type", "if", "while", "else", "match",
             "async", "await"} |-> word] @@ [word \in {"true", "false"} |-> "lit"]
LexIdentifier(text, from) ==
  LET to   == AdvanceOver(text, from, Letters \cup Digits)
      word == Word(text, from, to)
  IN Token(IF word \in DOMAIN Keyword THEN Keyword[word] ELSE "id", from, to)

QuotesAhead(text, lexer, n) == \A i \in 0..(n - 1) : Ahead(text, lexer, i) = "\""

\* Mistake: the character behind a backslash is looked at again (LexesGrammar).
EscapeLengthOne == 1
\* a backslash and what it escapes
EscapeLength == 2

\* the loop of lex_string, with as many quotes as end the string; it may end
\* at the end of the text
RECURSIVE StringEnd(_, _, _)
StringEnd(text, lexer, quotes) ==
  CASE Peek(text, lexer) = End -> [closed |-> FALSE, lexer |-> lexer]
    [] QuotesAhead(text, lexer, quotes) ->
         [closed |-> TRUE, lexer |-> AdvanceBy(text, lexer, quotes)]
    [] Peek(text, lexer) = "\\" -> StringEnd(text, AdvanceBy(text, lexer, EscapeLength), quotes)
    [] OTHER -> StringEnd(text, Advance(text, lexer), quotes)

\* lex_string: three quotes open a string that three quotes close
LexString(text, from) ==
  LET quotes == IF QuotesAhead(text, from, 3) THEN 3 ELSE 1
      r == StringEnd(text, AdvanceBy(text, from, quotes), quotes)
  IN IF r.closed THEN Token("lit", from, r.lexer) ELSE ErrorToken(from, r.lexer)

Single == {"(", ")", "{", "}", "[", "]", ",", ";", ".", ":", "!"}
\* characters that make another token with a ">" behind them
WithArrow == [c \in {"=", "|", "-"} |-> c \o ">"]

LexMark(text, from, c) ==
  LET one == Advance(text, from)
  IN CASE c \in Single -> Token(c, from, one)
       [] c \in DOMAIN WithArrow /\ Peek(text, one) = ">" ->
            Token(WithArrow[c], from, Advance(text, one))
       [] c \in {"=", "|"} /\ Peek(text, one) # ">" -> Token(c, from, one)
       [] OTHER -> ErrorToken(from, IF c = "-" THEN Advance(text, one) ELSE one)

\* nova_lexer_next, behind the blanks
NextToken(text, from) ==
  LET c == Peek(text, from)
  IN CASE c = End       -> Token("EOF", from, from)
       [] c \in Letters -> LexIdentifier(text, from)
       [] c \in Digits  -> LexNumber(text, from)
       [] c = "\""      -> LexString(text, from)
       [] OTHER         -> LexMark(text, from, c)

\* nova_lexer_tokenize: up to the end or the first error
RECURSIVE TokensFrom(_, _)
TokensFrom(text, lexer) ==
  LET r == NextToken(text, SkipBlanks(text, lexer))
  IN IF r.token.kind \in {"EOF", "ERROR"} THEN <<r.token>>
     ELSE <<r.token>> \o TokensFrom(text, r.lexer)
Tokenize(text) == TokensFrom(text, Start)

KindsOf(array) == [i \in DOMAIN array |-> array[i].kind]

-----------------------------------------------------------------------------
\* find_token_at stops here without a token
Past(token, line, character) ==
  \/ token.kind = "EOF" \/ token.line - 1 > line
  \/ token.line - 1 = line /\ character < token.column - 1

\* and returns this one; the place behind a token belongs to it
Touches(token, line, character) ==
  /\ token.line - 1 = line
  /\ character \in (token.column - 1)..(token.column - 1 + token.length)

\* find_token_at, for a line and a character from 0: the place in the array, or 0
FindTokenAt(array, line, character) ==
  LET stops == {i \in DOMAIN array : Past(array[i], line, character)
                                     \/ Touches(array[i], line, character)}
  IN IF stops = {} \/ Past(array[Min(stops)], line, character) THEN 0 ELSE Min(stops)
=============================================================================
