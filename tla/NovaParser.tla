----------------------------- MODULE NovaParser -----------------------------
(***************************************************************************)
(* The recursive-descent parser of src/src/parser.cpp.                     *)
(*                                                                         *)
(* A token is its kind, written the way the source writes it; all names    *)
(* are "id" and all literals "lit".  The token array is what               *)
(* nova_lexer_tokenize returns: it ends with "EOF", or with "ERROR" at the *)
(* first character the lexer cannot read.                                  *)
(*                                                                         *)
(* stack holds what the functions that are active have still to do, the    *)
(* innermost first: <<"take", t>> is consume(parser, t), <<f>> is a call   *)
(* of parse_f, or the rest of a function that has begun.  Each action      *)
(* below is one of those functions up to its next call.  A function stays  *)
(* active until it returns, also when nothing is left for it to do;        *)
(* depths keeps count of that.  The tree is left out, but for the          *)
(* declarations it receives; so is a failing allocation.                   *)
(*                                                                         *)
(* An operator whose comment begins with "Mistake:" is a faulty variant of *)
(* the one below it, which breaks the property it names.                   *)
(***************************************************************************)
EXTENDS Integers, FiniteSets, SequencesExt

\* Calls of nova_parser_parse and the parse_* functions that fit in the thread's
\* stack, above the few that peek, consume and the like make and return from.
CONSTANT MaxDepth
ASSUME DepthAssumption == MaxDepth \in Nat \ {0}

Keywords == {"module", "import", "fun", "let", "type", "if", "while", "else",
             "match", "async", "await"}
Marks == {"(", ")", "{", "}", "[", "]", ",", ".", ":", ";", "=", "->", "=>", "|", "|>", "!"}
Kinds == Keywords \cup Marks \cup {"id", "lit", "EOF", "ERROR"}

\* What nova_lexer_tokenize returns: EOF or the first ERROR is the last token.
TokenArray(t) ==
  /\ t # <<>> /\ t[Len(t)] \in {"EOF", "ERROR"}
  /\ \A i \in 1..Len(t)-1 : t[i] \notin {"EOF", "ERROR"}

VARIABLES
  tokens, current,        \* NovaParser.tokens, .current
  panic_mode, had_error,  \* NovaParser.panic_mode, .had_error
  reported,               \* the tokens that some diagnostic points at
  decls,                  \* where the declarations of the program start
  stack,                  \* what is left to do
  depths,                 \* for each step of stack, the calls active during it
  crashed                 \* the thread's stack has overflowed

errorVars == <<panic_mode, had_error, reported>>
vars == <<tokens, current, errorVars, decls, stack, depths, crashed>>

-----------------------------------------------------------------------------
\* the functions parse_f, and where one of them, or nova_parser_parse, goes on
Functions == {"module_decl", "module_path", "import_decl", "decl", "let_decl", "fun_decl",
  "type_decl", "param_list", "param", "variant_list", "variant_decl", "expression",
  "match_expr", "unary_or_pipe", "pipe_expr", "call_expr", "primary", "lambda",
  "argument_list", "block_expression", "list_literal"}
Rests == {"path_tail", "imports", "import_symbols", "symbols", "symbols_tail", "decls",
  "annotation", "params_tail", "type_body", "variants_tail", "payload", "else", "pipe_tail",
  "call_tail", "arg", "args_tail", "items", "items_sep", "arms", "arms_sep", "list_items",
  "list_tail"}

Instructions == {<<f>> : f \in Functions \cup Rests} \cup {<<"take", t>> : t \in Kinds}

\* peek and previous, for a parser standing before token i + 1
Peek(i)     == IF i < Len(tokens) THEN tokens[i + 1] ELSE "EOF"
Previous(i) == IF i = 0 THEN "EOF" ELSE tokens[i]
AtEnd       == Peek(current) = "EOF"
Check(t)    == Peek(current) = t

\* Mistake: the last token counts as the end (OverflowsOnlyAtTheEnd).
AdvancedShort == IF Peek(current + 1) = "EOF" THEN current ELSE current + 1

\* where advance leaves the parser; it does not move at the end
Advanced == IF AtEnd THEN current ELSE current + 1

Calling(f) == stack # <<>> /\ Head(stack) = <<f>>

\* what a step adds to the calls of the function that has it to do
Enter(step) == IF step[1] \in Functions THEN 1 ELSE 0

\* the function goes on with the steps of todo
Then(todo) ==
  /\ stack' = todo \o Tail(stack)
  /\ depths' = [i \in 1..Len(todo) |-> Head(depths) + Enter(todo[i])] \o Tail(depths)

NoError == UNCHANGED errorVars

\* Mistake: an error that does not mark the parse as failed (ErrorsReported).
ErrorNotRecorded(at) ==
  /\ panic_mode' = TRUE
  /\ reported' = IF panic_mode THEN reported ELSE reported \cup {at}
  /\ UNCHANGED had_error

\* parser_error: only the first error of a panic is reported.
Error(at) ==
  /\ panic_mode' = TRUE
  /\ had_error' = TRUE
  /\ reported' = IF panic_mode THEN reported ELSE reported \cup {at}

Frame == UNCHANGED <<tokens, decls, crashed>>

\* f goes on with todo after accepting t, or without reading anything
Accept(t, todo) ==
  Check(t) /\ current' = Advanced /\ Then(todo) /\ NoError /\ Frame
Skip(todo) ==
  current' = current /\ Then(todo) /\ NoError /\ Frame

\* match(parser, t) in an if with an else
Match(t, todo, otherwise) == Accept(t, todo) \/ (~Check(t) /\ Skip(otherwise))

-----------------------------------------------------------------------------
\* consume
Consume ==
  /\ stack # <<>>
  /\ \E t \in Kinds :
       /\ Head(stack) = <<"take", t>>
       /\ \/ Accept(t, <<>>)
          \/ ~Check(t) /\ Error(current) /\ current' = current /\ Then(<<>>) /\ Frame

\* parse_module_decl and parse_module_path
ModulePath ==
  \/ Calling("module_decl") /\ Skip(<<<<"take", "module">>, <<"module_path">>>>)
  \/ Calling("module_path") /\ Skip(<<<<"take", "id">>, <<"path_tail">>>>)
  \/ Calling("path_tail") /\ Match(".", <<<<"take", "id">>, <<"path_tail">>>>, <<>>)

\* The loop of nova_parser_parse over imports, and parse_import_decl, which
\* reads the keyword the loop has stepped back over.
Imports ==
  \/ Calling("imports") /\ Match("import", <<<<"import_decl">>, <<"imports">>>>, <<>>)
  \/ Calling("import_decl") /\ Skip(<<<<"module_path">>, <<"import_symbols">>>>)
  \/ /\ Calling("import_symbols")
     /\ Match("{", <<<<"symbols">>, <<"take", "}">>>>, <<>>)
  \/ /\ Calling("symbols")
     /\ IF Check("}") \/ AtEnd THEN Skip(<<>>)
                               ELSE Skip(<<<<"take", "id">>, <<"symbols_tail">>>>)
  \/ Calling("symbols_tail") /\ Match(",", <<<<"symbols">>>>, <<>>)

\* parse_param_list, whose terminator is always ")", parse_param, and the two
\* optional parts of a declaration that are made of them
Params ==
  \/ /\ Calling("param_list")
     /\ IF Check(")") THEN Skip(<<<<"take", ")">>>>)
                      ELSE Skip(<<<<"param">>, <<"params_tail">>>>)
  \/ Calling("param") /\ Skip(<<<<"take", "id">>, <<"annotation">>>>)
  \/ /\ Calling("params_tail")
     /\ Match(",", <<<<"param">>, <<"params_tail">>>>, <<<<"take", ")">>>>)
  \/ Calling("annotation") /\ Match(":", <<<<"take", "id">>>>, <<>>)
  \/ Calling("payload") /\ Match("(", <<<<"param_list">>>>, <<>>)

-----------------------------------------------------------------------------
\* Declarations.  The function for each keyword one begins with.
DeclOf == [let |-> "let_decl", fun |-> "fun_decl", type |-> "type_decl"]

\* parse_let_decl, parse_fun_decl, parse_type_decl
DeclBody ==
  \/ /\ Calling("let_decl")
     /\ Skip(<<<<"take", "let">>, <<"take", "id">>, <<"annotation">>, <<"take", "=">>,
               <<"expression">>>>)
  \/ /\ Calling("fun_decl")
     /\ Skip(<<<<"take", "fun">>, <<"take", "id">>, <<"take", "(">>, <<"param_list">>,
               <<"annotation">>, <<"take", "=">>, <<"expression">>>>)
  \/ /\ Calling("type_decl")
     /\ Skip(<<<<"take", "type">>, <<"take", "id">>, <<"type_body">>>>)

SyncStops(i) ==
  \/ Peek(i) = "EOF"
  \/ Previous(i) = ";"
  \/ Peek(i) \in {"fun", "let", "type", "if", "while", "match", "async"}

\* Mistake: the token that ends the recovery is skipped as well (TypeOK).
SynchronizePast ==
  /\ panic_mode' = FALSE
  /\ \E i \in current..Len(tokens) :
       /\ SyncStops(i) /\ \A j \in current..i-1 : ~SyncStops(j)
       /\ current' = i + 1

\* synchronize: leave panic mode and skip to where a statement may start
Synchronize ==
  /\ panic_mode' = FALSE
  /\ \E i \in current..Len(tokens) :
       /\ SyncStops(i) /\ \A j \in current..i-1 : ~SyncStops(j)
       /\ current' = i

\* parse_decl; its fallback adds an empty let declaration.
Decl ==
  /\ Calling("decl")
  /\ decls' = decls \cup {current}
  /\ \/ /\ Peek(current) \in DOMAIN DeclOf
        /\ Then(<<<<DeclOf[Peek(current)]>>>>)
        /\ UNCHANGED <<current, errorVars>>
     \/ /\ Peek(current) \notin DOMAIN DeclOf
        /\ had_error' = TRUE
        /\ reported' = IF panic_mode THEN reported ELSE reported \cup {current}
        /\ Synchronize
        /\ Then(<<>>)
  /\ UNCHANGED <<tokens, crashed>>

\* Mistake: one declaration is read, not all (DeclarationsKept).
DeclsOnce ==
  /\ Calling("decls")
  /\ IF AtEnd THEN Skip(<<>>) ELSE Skip(<<<<"decl">>>>)

\* the loop of nova_parser_parse over declarations
Decls ==
  /\ Calling("decls")
  /\ IF AtEnd THEN Skip(<<>>) ELSE Skip(<<<<"decl">>, <<"decls">>>>)

\* parse_type_decl after the name, parse_variant_list, parse_variant_decl
TypeBody ==
  \/ /\ Calling("type_body")
     /\ \/ Accept("=", <<<<"variant_list">>>>)
        \/ Accept("(", <<<<"param_list">>>>)
        \/ /\ ~Check("=") /\ ~Check("(")
           /\ Error(current) /\ current' = current /\ Then(<<>>) /\ Frame
  \/ Calling("variant_list") /\ Skip(<<<<"variant_decl">>, <<"variants_tail">>>>)
  \/ Calling("variant_decl") /\ Skip(<<<<"take", "id">>, <<"payload">>>>)
  \/ Calling("variants_tail") /\ Match("|", <<<<"variant_decl">>, <<"variants_tail">>>>, <<>>)

-----------------------------------------------------------------------------
\* Expressions.  parse_expression
Expression ==
  \/ /\ Calling("expression")
     /\ \/ Accept("if", <<<<"expression">>, <<"block_expression">>, <<"else">>>>)
        \/ Accept("while", <<<<"expression">>, <<"block_expression">>>>)
        \/ Accept("match", <<<<"match_expr">>>>)
        \/ Accept("async", <<<<"block_expression">>>>)
        \/ /\ Peek(current) \notin {"if", "while", "match", "async"}
           /\ Skip(<<<<"unary_or_pipe">>>>)
  \/ /\ Calling("else")
     /\ Match("else", IF Peek(current + 1) = "if" THEN <<<<"expression">>>>
                                                 ELSE <<<<"block_expression">>>>, <<>>)

\* parse_unary_or_pipe, parse_pipe_expr and parse_call_expr
Operand ==
  \/ /\ Calling("unary_or_pipe")
     /\ \/ Accept("await", <<<<"expression">>>>)
        \/ Accept("!", <<<<"expression">>>>)
        \/ Peek(current) \notin {"await", "!"} /\ Skip(<<<<"pipe_expr">>>>)
  \/ Calling("pipe_expr") /\ Skip(<<<<"call_expr">>, <<"pipe_tail">>>>)
  \/ Calling("pipe_tail") /\ Match("|>", <<<<"call_expr">>, <<"pipe_tail">>>>, <<>>)
  \/ Calling("call_expr") /\ Skip(<<<<"primary">>, <<"call_tail">>>>)
  \/ Calling("call_tail") /\ Match("(", <<<<"argument_list">>, <<"call_tail">>>>, <<>>)

\* parse_argument_list
Arguments ==
  \/ /\ Calling("argument_list")
     /\ IF Check(")") THEN Skip(<<<<"take", ")">>>>) ELSE Skip(<<<<"arg">>, <<"args_tail">>>>)
  \/ /\ Calling("arg")
     /\ IF Check("id") /\ Peek(current + 1) = "="
        THEN Accept("id", <<<<"take", "=">>, <<"expression">>>>)
        ELSE Skip(<<<<"expression">>>>)
  \/ Calling("args_tail") /\ Match(",", <<<<"arg">>, <<"args_tail">>>>, <<<<"take", ")">>>>)

\* Mistake: names in parentheses are taken for a lambda (GrammaticalIsAccepted).
LookaheadNames ==
  /\ Check("(")
  /\ \E close \in current+2..Len(tokens)-1 :
       /\ tokens[close] = ")"
       /\ \A i \in current+2..close-1 : tokens[i] \in {"id", ",", ":"}

\* lookahead_lambda: names, commas and colons up to the first ")", then an arrow.
\* parse_lambda takes only one of the two arrows.
LookaheadLambda ==
  /\ Check("(")
  /\ \E close \in current+2..Len(tokens)-1 :
       /\ tokens[close] = ")" /\ tokens[close + 1] \in {"->", "=>"}
       /\ \A i \in current+2..close-1 : tokens[i] \in {"id", ",", ":"}

\* parse_lambda behind the "(" the lookahead began with
Lambda ==
  Calling("lambda") /\ Skip(<<<<"param_list">>, <<"take", "->">>, <<"expression">>>>)

\* parse_primary works on the token that advance returns, which at the end of
\* the input is the token before.
Primary ==
  /\ Calling("primary")
  /\ \/ LookaheadLambda /\ Accept("(", <<<<"lambda">>>>)
     \/ /\ ~LookaheadLambda
        /\ LET token == Previous(Advanced) IN
           \/ /\ token \in {"id", "lit"}
              /\ current' = Advanced /\ Then(<<>>) /\ NoError
           \/ /\ token = "("
              /\ current' = Advanced /\ Then(<<<<"expression">>, <<"take", ")">>>>) /\ NoError
           \/ /\ token = "{"
              /\ current' = Advanced - 1 /\ Then(<<<<"block_expression">>>>) /\ NoError
           \/ /\ token = "["
              /\ current' = Advanced - 1 /\ Then(<<<<"list_literal">>>>) /\ NoError
           \/ /\ token \notin {"id", "lit", "(", "{", "["}
              /\ current' = Advanced /\ Then(<<>>)
              /\ Error(IF AtEnd /\ current > 0 THEN current - 1 ELSE current)
        /\ Frame

\* parse_block_expression
Block ==
  \/ Calling("block_expression") /\ Skip(<<<<"take", "{">>, <<"items">>, <<"take", "}">>>>)
  \/ /\ Calling("items")
     /\ IF Check("}") \/ AtEnd THEN Skip(<<>>) ELSE Skip(<<<<"expression">>, <<"items_sep">>>>)
  \/ Calling("items_sep") /\ Match(";", <<<<"items">>>>, <<<<"items">>>>)

\* parse_match_expr
Arms ==
  \/ /\ Calling("match_expr")
     /\ Skip(<<<<"expression">>, <<"take", "{">>, <<"arms">>, <<"take", "}">>>>)
  \/ /\ Calling("arms")
     /\ IF Check("}") \/ AtEnd
        THEN Skip(<<>>)
        ELSE Skip(<<<<"take", "id">>, <<"payload">>, <<"take", "->">>, <<"expression">>,
                    <<"arms_sep">>>>)
  \/ Calling("arms_sep") /\ Match(";", <<<<"arms">>>>, <<<<"arms">>>>)

\* Mistake: a list may end with a comma (AcceptedIsGrammatical).
ListTrailing ==
  \/ Calling("list_literal") /\ Skip(<<<<"take", "[">>, <<"list_items">>>>)
  \/ /\ Calling("list_items")
     /\ IF Check("]") THEN Skip(<<<<"take", "]">>>>)
                      ELSE Skip(<<<<"expression">>, <<"list_tail">>>>)
  \/ Calling("list_tail")
     /\ Match(",", <<<<"list_items">>>>, <<<<"take", "]">>>>)

\* parse_list_literal
List ==
  \/ Calling("list_literal") /\ Skip(<<<<"take", "[">>, <<"list_items">>>>)
  \/ /\ Calling("list_items")
     /\ IF Check("]") THEN Skip(<<<<"take", "]">>>>)
                      ELSE Skip(<<<<"expression">>, <<"list_tail">>>>)
  \/ Calling("list_tail")
     /\ Match(",", <<<<"expression">>, <<"list_tail">>>>, <<<<"take", "]">>>>)

\* the calls that are active, the one about to begin included
Depth == IF stack = <<>> THEN 0 ELSE Head(depths)

\* A call that the thread's stack has no room for: the process is killed.
Overflow ==
  /\ Depth > MaxDepth
  /\ crashed' = TRUE
  /\ stack' = <<>> /\ depths' = <<>>
  /\ UNCHANGED <<tokens, current, errorVars, decls>>

-----------------------------------------------------------------------------
\* nova_parser_init, and nova_parser_parse about to read the module declaration
Start ==
  /\ current = 0
  /\ panic_mode = FALSE /\ had_error = FALSE /\ reported = {}
  /\ decls = {}
  /\ stack = <<<<"module_decl">>, <<"imports">>, <<"decls">>>>
  /\ depths = <<2, 1, 1>>
  /\ crashed = FALSE

Init == tokens \in Seq(Kinds) /\ TokenArray(tokens) /\ Start

Step ==
  Consume \/ ModulePath \/ Imports \/ Params \/ Decl \/ Decls \/ DeclBody \/ TypeBody
  \/ Expression \/ Operand \/ Arguments \/ Lambda \/ Primary \/ Block \/ Arms \/ List

Next == (Depth <= MaxDepth /\ Step) \/ Overflow

Spec == Init /\ [][Next]_vars

\* nova_parser_parse is a loop of one thread that nothing else can stop.
FairSpec == Spec /\ WF_vars(Next)

Done     == stack = <<>> /\ ~crashed
Accepted == Done /\ ~had_error

-----------------------------------------------------------------------------
\* Every variable has its type; the parser never stands outside the token
\* array, in spite of its steps back (parser->current--), and the tokens it
\* has reported are tokens of the array.
TypeOK ==
  /\ tokens \in Seq(Kinds) /\ TokenArray(tokens)
  /\ current \in 0..Len(tokens)
  /\ panic_mode \in BOOLEAN /\ had_error \in BOOLEAN /\ crashed \in BOOLEAN
  /\ reported \in SUBSET (0..Len(tokens))
  /\ decls \in SUBSET (0..Len(tokens))
  /\ stack \in Seq(Instructions)
  /\ depths \in Seq(Nat) /\ Len(depths) = Len(stack)

\* The tools test had_error and print the diagnostics: an error is never
\* silent and a diagnostic never goes with an accepted program, whatever was
\* suppressed in panic mode.
ErrorsReported ==
  /\ had_error <=> reported # {}
  /\ panic_mode => had_error

\* A program that is accepted has one declaration for each fun, let and type
\* keyword and no fallback declaration: nothing is skipped or swallowed.
DeclarationsKept ==
  Accepted => decls = {i \in 0..Len(tokens)-1 : tokens[i + 1] \in DOMAIN DeclOf}

\* The parser comes to an end on every input.
Terminates == <>(stack = <<>>)

\* Nothing is left to read but a bracket that was read already: parse_primary
\* takes it for the next operand, and stands before it while it steps back.
DeadEnd ==
  \/ AtEnd /\ Previous(current) \in {"(", "{", "["}
  \/ Peek(current) \in {"{", "["} /\ Peek(current + 1) = "EOF"

\* Recursion is paid for with tokens, at most six calls for each and eight to
\* begin with: a parser with room for that many only ever runs out of it at the
\* end of an input, where it reads an opening bracket as one operand after the
\* other.  Six is what `[` and `{` cost, parse_expression to parse_list_literal.
OverflowsOnlyAtTheEnd ==
  crashed /\ MaxDepth >= 6 * Len(tokens) + 8 => DeadEnd

=============================================================================
