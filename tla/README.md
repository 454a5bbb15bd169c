# Verification of the NovaLang toolchain

TLA+ models of the C4NovaLang repository (`src/`): its garbage collector; its
compiler from the text to the functions written by the two backends
(lexer, parser, analyzer, lowering, optimizer, emitters); the index the analyzer keeps;
and the tools that turn a program into an executable or create a project, as
processes on one file system. TLC checks them on small instances; TLAPS proves
the invariants of the collector, the parser, the index, the analyzer's tables of
types and the tools, and two refinements, for all sizes. Paths below are relative to `src/`.

## 1. Inventory of the system

| component | code | state | operations | interacts with |
|---|---|---|---|---|
| garbage collector | `src/gc.cpp` | object list, mark bits, root table, mark stack, sweep cursor, byte counts, threshold | create, destroy, alloc, add/remove root, mark_ptr, collect_step, collect | the client's payloads through the trace callback; the client's allocator |
| lexer | `src/lexer.cpp` | position, line and column in the text | next, tokenize | feeds the parser one array; nova-lsp reads the places of its tokens |
| parser | `src/parser.cpp`, grammar `nova.g4` | token array, current, panic_mode, had_error, diagnostics | one function per construct | produces `NovaProgram` for all tools |
| semantic analyzer | `src/semantic.cpp` | scopes, type pool, type records, expression list and its hash index, diagnostics | analyze_program, lookup_expr, type_info | reads the tree; read by the lowering, the emitters, nova-lsp and nova-repl |
| IR | `src/ir.cpp` | tree of IR expressions | lower, optimize, free | asks the analyzer for types |
| code generator | `src/codegen.cpp` | generated files | emit_object, emit_executable (C and LLVM) | file system, `cc`/`clang` through `system` |
| nova-check | `tools/nova_check.cpp` | command line, files | one run | all of the above, concurrently with other runs |
| nova-new | `tools/nova_new.cpp` | directories and files | scaffold a project | file system, concurrently with the others |
| nova-lsp, nova-repl, nova-fmt | `tools/` | a request loop; files | hover, evaluate, format | parser, analyzer, file system |
| containers | `src/ast.cpp`, `src/token.cpp`, `src/diagnostic.cpp` | growable arrays | add, free | everything |

What makes each of them correct:

- *Collector.* An object the client can reach is never freed, whatever the
  interleaving of incremental steps with client calls; garbage goes away;
  the byte counts match the list.
- *Lexer.* It cuts a text in the tokens the lexer rules of `nova.g4` say, and the
  places it gives them lead a hover request to the token under the cursor.
- *Parser.* It ends on every token array, within a bounded stack, accepts what
  the grammar derives, and never fails in silence.
- *Analyzer.* A record of an expression is found again; a match is reported
  exactly when it misses a variant; a name means its first definition; the
  effects inferred for a function include all it has, and a program without
  diagnostics does not go wrong.
- *Lowering, optimizer, emitters.* What is emitted and accepted by LLVM or the C
  compiler computes what the source computes, with the same calls in the same
  order; programs the backends are made for are accepted.
- *Driver and tools.* A successful run produced the output from its own source
  and entry, or a whole project; nothing is left behind, whatever failed.

The hard behaviours are the incremental collector running between arbitrary
client statements, error recovery, arrays that `realloc` moves under pointers,
a hash table that grows under colliding keys, and processes that share generated files,
are killed, and find what others left. They are listed line by line in the
`hazards` of `PROJECT.json`, with the properties that watch each.

## 2. Modules

| module | models | composes with |
|---|---|---|
| `NovaGC` | the collector and its client | implements `ManagedHeap` |
| `ManagedHeap` | the heap a client may rely on, without a collector | |
| `NovaGCProofs` | theorems about `NovaGC`: reachable objects stay | extends it |
| `NovaGCHeapProofs` | the refinement of `ManagedHeap`; the mark stack with any client | extends `NovaGCProofs` |
| `NovaGCBytesProofs` | byte counts as sums over sets of objects | extends `NovaGCHeapProofs` |
| `NovaLexer` | the lexer, and the lookup of a token by its place in nova-lsp | its tokens are inputs of the parser in `MCNovaParser` |
| `NovaParser` | the recursive-descent parser | |
| `NovaGrammar` | `nova.g4`: parser rules as data (`Strict`), and with the parser's liberties (`Relaxed`); lexer rules (`TokensOf`) | compared with parser and lexer in `MCNovaParser` |
| `NovaParserProofs` | theorems about `NovaParser`: places and errors | extends it |
| `NovaParserStackProofs` | how deep the parser recurses; that no declaration is lost | extends `NovaParserProofs` |
| `NovaBuild` | runs of nova-check and nova-new on a shared file system | |
| `NovaBuildProofs` | theorems about `NovaBuild` | extends it |
| `NovaExprIndex` | the expression index | implements `ExprInfo` |
| `NovaExprIndexProofs` | theorems about `NovaExprIndex`, with the refinement | extends it |
| `ExprInfo` | a partial map from expressions to records | |
| `NovaSyntax` | syntax trees | used by all below |
| `NovaTypeRegistry` | type declarations, names, scopes | |
| `TypeTables` | the same, with the analysis of let and fun reduced to what it may do to the tables | extends it |
| `NovaTypeRegistryProofs` | theorems about `TypeTables`; what the count of exhaustiveness means | extends it |
| `NovaMeaning` | an evaluator of source programs: the reference | |
| `NovaAnalyzer` | type and effect inference, match exhaustiveness | extends `NovaTypeRegistry` and `NovaMeaning`, implements `TypeTables` |
| `NovaIR` | lowering and optimizer | extends `NovaAnalyzer` |
| `NovaEmit` | LLVM instructions and C trees of a function | extends `NovaIR` |
| `NovaTarget` | what LLVM and C accept, and what accepted code does (external) | |
| `NovaCompiler` | nova-check from the analysis to the text of the functions | extends `NovaEmit`, `NovaTarget` |
| `MC*` | instances for TLC | |

Definitions keep the names of the source. An operator whose comment begins with
"Mistake:" is a plausible bug next to the definition it would replace; no
specification uses it. Replacing the definition by it breaks the property its
comment names, which shows that the property depends on that code.

### Collector (`NovaGC`)

The heap has one thread. `pc = "client"` between calls; the other values of
`pc` walk through `nova_gc_collect_step` one loop iteration at a time
(`BeginStep`, `ScanRoots`, `TraceSome`/`TraceCallback`, `SweepSome`,
`FinishStep`), during which no client action is enabled. So every client call
is one uninterrupted handler, and each action is small enough to prove about.
`nova_gc_collect` comes back to `BeginStep` until the cycle ends, as its
do-while does; `nova_gc_alloc` remembers the object it will return. An object is
its address, which the allocator may reuse. `sweep_cursor` is the number of
objects in front of `*gc->sweep_cursor`; an insertion at the head shifts it
unless the cursor is `&gc->objects` itself.

The client stores, erases, loads and forgets pointers and calls the API in any
order. The constant `Liberties` says how far it may go beyond a *quiet*
client, which leaves the heap alone while a cycle runs, does not let an
allocation collect, and marks nothing once the sweep moves. A local that is not
registered counts as lost once the collector has run (`ForgetLocals`). Left out:
finalizers, the counters only `nova_gc_stats` reads, and overflow of sizes.

### Lexer (`NovaLexer`)

A text is a sequence of characters, a few of each class that the code tells
apart. A lexer is a position with its line and column; each function of
`lexer.cpp` is an operator from the lexer before it to the token and the lexer
behind it. The lexer has no memory between tokens, so one text is one value:
`MCNovaParser` starts the parser with the tokens of a text, as `nova_parser_init`
does. The reference is the second half of `NovaGrammar`, which says of a
lexeme which rule of `nova.g4` it obeys and always takes the longest. Its
comment lists what the lexer does otherwise: it takes `1.` for a number, lets a
backslash escape a quote between three quotes, and reads on behind a carriage
return in a comment; `=>` is a token no rule uses; and three quotes never begin
with an empty string. `FindTokenAt` is the loop by which nova-lsp looks a token
up; a string over several lines is found on its first line only, which
`HoverFindsToken` says.

### Parser (`NovaParser`)

A token is its kind. `stack` holds what the active functions have still to do,
innermost first, so that one action is one function up to its next call. That is
not how deep the calls are: a function with nothing left to do but return, as
`parse_expression` behind its call of `parse_unary_or_pipe`, has nothing on
`stack` and its frame all the same. `depths` therefore says, for each step on
`stack`, how many calls are active while it is done: `nova_parser_parse` is one,
and each of the `Functions` one more than its caller; the `Rests` are where a
function goes on, in the frame it has. `Depth` is what `MaxDepth` bounds, as the thread's
stack does. What `match`, `consume` and `peek` need on top, and what a compiler
saves by inlining, is not counted. Actions keep
the code's lookahead, its steps back, `panic_mode`, and its habit of taking the
token *before* the end for the current one. The lookahead for a lambda takes
either arrow, `parse_lambda` then only `->`, as in the code. The tree is abstracted to the set of
declarations that reach the program.

`NovaGrammar` is written from `nova.g4`. `Relaxed` names each thing the parser
accepts beyond it, so `AcceptedIsGrammatical` is a complete account of the
difference on the inputs checked.

### Build and new projects (`NovaBuild`)

A job is one run of nova-check or nova-new; each file-system call and the run of
the compiler is a step, with other jobs, and `Kill`, in between. A file holds a
sequence of pieces: a whole program's functions, or a `main` that calls an
entry. The front end's verdict and each backend's support for a program are
attached to the program. The compiler is external: it rejects a name defined
twice and links only with a `main` and the entry it calls. Buffered output
reaches the file at `fclose`; if another job uses the same path, what it finds
there is nondeterministic. `apart`, chosen at the start, says whether the users
keep jobs that touch the same file from running at once: `BuiltFromOwnProgram`
needs that, `NoLitter` and `CreatedWhole` do not. nova-new makes two
directories, then a manifest and a module; the disks it may meet hold nothing, a
file in the place of a directory, or what a killed run left. A project named
like a keyword gets a module nova-check rejects (`misnamed`): nova-new derives
the module name without asking the lexer. Left out: short writes, the contents
of diagnostics.

The files a run writes are operators of the job and its request (`OutputOf`,
`GeneratedOf`, `TouchedOf`), so that four assumptions can say what the requests
and disks under consideration are. `PathsAssumption`: every path a run may name
exists on every disk, with a file or without. `DisksAssumption`: before the runs
the disks hold no generated source and no object of a run to come; what an
earlier killed run left is a run of its own here. `OwnAssumption`: the process id
in `build/nova-check-<pid>.o` (`tools/nova_check.cpp`) keeps an object that was
not asked for to one run. `ProjectAssumption`: what nova-new writes depends on
the root of the project alone, and no other run is told to write its output
there. TLC evaluates all four for the instances of `MCNovaBuild`.

### Expression index (`NovaExprIndex`)

It runs `expr_info_list_record` with allocations that may fail. The rehash of
`expr_index_reserve` goes one slot at a time, and the loop that looks for a
capacity one doubling at a time (`Reserve`, `Double`, `Allocate`): that the
capacity is enough is then the condition the loop ends on.

### Analyzer (`NovaTypeRegistry`, `TypeTables`, `NovaAnalyzer`)

An expression is a record with its children; its place (the numbers of the
children on the way down) stands for its address. One step registers a type or
analyzes a declaration, as the two loops of `nova_semantic_analyze_program` do;
inside a step each `analyze_*` function is an operator that threads the type
pool, the diagnostics and the records through the tree in the order of the code,
early returns included. Diagnostics are kept per declaration. A record pointer
is the block it points into and an index; `realloc` may return another block, and
a read through a pointer into a freed block returns any variant list or crashes.
`InPlace` holds while the array has never moved, as for every program of at most
four types.

`TypeTables` is the analyzer without its expressions. It declares types by the
actions of `NovaTypeRegistry`; the analysis of a let or fun declaration
(`AnalyzeDeclaration`) adds functions and lists to the type pool, adds the
declared name to the scope unless it is taken, reports what it reports of this
declaration only, and leaves the rest alone. `Crash` is possible only once the
array has moved. `NovaAnalyzer` implements it (`ImplementsTypeTables`, the same
variables, so the mapping is the identity): analysis never changes a type or a
constructor, and the parameters of a function do not outlive it.

`NovaMeaning` is no translation of code: it is the evaluator that
`docs/language.md` (sections 3 and 4) describes in words, and the yardstick for
`EffectsComplete`, `TypesSound` and the properties of the compiler. A program
that goes wrong is *stuck* with a reason; nothing in the language can change a
value, so a loop that is entered never ends, and says so. Recursion is cut at
`CallDepth`, which counts as not ending.

### Compiler (`NovaIR`, `NovaEmit`, `NovaTarget`, `NovaCompiler`)

Lowering keeps what `ir.cpp` does about missing parts: a NULL argument of a call
stays, elsewhere it makes the whole expression NULL. The optimizer rewrites
children first and a selected branch again. `EmitExpr` writes instructions into
an emitter with the two counters, which go on from function to function; `CExpr`
builds the C expression. `NovaTarget` holds the parts of the LLVM verifier that
this code can offend (one definition per name, operand types, phis against
predecessors, known callees), the type rules of C in declaration order, and an
interpreter of each. A call whose types are not those of its callee passes the
LLVM verifier and is undefined. Numbers are texts; `SixDigits` is what `%g`
makes of one. Left out: sizes of buffers, memory that runs out, and the
spelling of the output.

The properties of `NovaCompiler` are exact about where they do not hold. Each
exemption below is a fault of the compiler, and removing it from the property
makes TLC find a program:

| exemption | the code |
|---|---|
| `Missing` | a lambda, or a call of something that is no name, as an argument becomes `0` (`src/ir.cpp:121`) |
| `DropsCalls` | the scrutinee of a match with one arm is removed with its calls (`src/ir.cpp:407`) |
| `TypesKnown` | types the emitters trust and the analyzer did not check: missing annotations, a result annotation that is not the type of the body (`src/semantic.cpp:747`), a parenthesized body, which has no record (`src/ir.cpp:531`), a recursive call of a function that returns no number (`src/semantic.cpp:735`) |
| `Rounded` | C numbers have six digits (`src/codegen.cpp:334`) |
| `Unordered` | two arguments with calls are written as C arguments (`src/codegen.cpp:355`) |
| `ShortStage` | a pipeline stage with too few arguments is accepted (`src/semantic.cpp:502`) |
| `BranchInBranch` | the phi of an if with a branch in a branch (`src/codegen.cpp:231`, the run `compiler_nested_if`) |
| `NamesTaken` | a parameter called `entry` or `t0` (`src/codegen.cpp:98`) |
| `LoopInExpression` | C has no loop in an expression, and the emitter gives up |

`TakenOnTrust` in `NovaAnalyzer` plays the same part for `TypesSound`, which also
names the two mistakes the analyzer never reports: the short stage, and a match
on a value of a type without variants.

## 3. What the runs show

| run | question | result | bounds |
|---|---|---|---|
| `gc_quiet` | is a reachable object ever freed, are marks and survivor counts right? | holds | 3 objects, 2 slots, budgets 1 and 3, threshold of two objects |
| `gc_any_client` | with any client: mark stack, counts, types | holds | 2 objects, all liberties, all refusals |
| `gc_live` | does the collector implement `ManagedHeap`, do calls return, cycles end, is garbage freed? | holds | 2 objects, 2 slots, budget 0 |
| `gc_alloc_over_threshold` | an allocation that collects | violated | |
| `parser_inputs` | tokens and their places; errors, declarations, stack, accepted language in both directions | holds | 11 families of up to 5 varying tokens, 5 of texts of up to 7 varying characters |
| `parser_never_ends` | termination | violated | 2 varying tokens |
| `build` | is the output the run's own, is anything left behind? | holds | 2 runs, 2 sources, kills, all failures, same files or not |
| `build_default_entry` | does the default entry build? | violated | 1 run |
| `expr_index` | is the index a partial map? | holds | 4 colliding keys, growth 2 to 8 slots |
| `compiler` | what analysis does to the tables, names, types, effects, exhaustiveness, meaning of the representation and of the emitted code | holds, with the exemptions above | 93,000 programs: up to 3 types and a match; a type, a helper and any body of two or three levels; three functions of numbers and truth values |
| `analyzer_move` | exhaustiveness with moving records | violated | 76,000 of them |
| `compiler_nested_if` | do phis name the blocks they are entered from? | violated | as `compiler` |

The violated runs are disagreements between the code and what its README, language
document or tests say; `findings` in `PROJECT.json` quotes both sides. The
holding runs of the collector say that the algorithm is right under the quiet
discipline. Each clause of the discipline that the code does not enforce is
needed: `gc_alloc_over_threshold` shows it for an allocation that collects; with
`Liberties = {"during_cycle"}` in `gc_quiet.cfg` TLC finds an object that is lost
because a pointer was stored between two steps (there is no write barrier); and
with `"mark_stack"` added to `MayFail` one that is marked, never traced, and whose
children are swept while reachable.

Three more things the models show of the code without a run of their own. At the
end of an input inside brackets `advance` no longer moves, and `parse_primary`
recurses until the stack is gone; `OverflowsOnlyAtTheEnd` says that this is the
only way to run out of a stack with room for six calls per token and eight
more: `parse_expression`, `parse_unary_or_pipe`, `parse_pipe_expr`,
`parse_call_expr`, `parse_primary` and `parse_list_literal` or
`parse_block_expression` are all active for each `[` or `{` that is open. The parser need not stand behind the bracket when that happens: it steps back
before it takes it again, so `DeadEnd` has two cases. Proving the property showed
that; with the first case alone it passes at `MaxDepth` 93 and 100, because of what
those leave when divided by six, and fails at 96. Only the fallback of `parse_decl` leaves panic
mode, so one error hides those of later declarations; `ErrorsReported` is
therefore about the first. And each line of `Relaxed` is a form the parser
accepts that `nova.g4` does not have.

Why the bounds are enough: three objects let one be marked, one be on the stack
and one be garbage while two slots point at them; budgets 1 and 3 stop the
trace and the sweep at every place of such a list; first capacities of 1 and 2
make both tables grow. Each family of token arrays in `MCNovaParser` varies the
tokens of one construct in its place, long enough for every branch of that
construct and for an error followed by a recovery; together the families reach
every action. The texts are all short ones over one character of each class, and
longer ones over the characters strings, numbers and marks are made of: seven
behind a first quote are enough for a string in three quotes with an escape in
it, or for two strings. `MaxDepth` 96 is more than six calls
for each of the 14 tokens of the longest input and eight, so only recursion that
reads nothing reaches it.
Two jobs are enough for every pair of calls to meet on a file. Four keys with
equal low bits make the table rehash twice and wrap round. Two places in the
record array instead of four make the third type move it. The program families
put every kind of expression inside every other, over helpers that are pure or
not, recursive, of zero to two parameters, values or constructors, declared
before or after their use; `CallDepth` 3 lets a call, the call in it and a
recursive one return. `MaxJumps` 12 is more than any of the functions needs
without a loop that never ends.

A cfg turns off TLC's deadlock check where the system does stop: a parser that
has finished, a run of a tool that has exited, a compilation that is done,
and an index whose list has reached the bound `MaxItems`. `gc_any_client` stops exploring
at a state in which the client holds a dangling pointer (`BeforeDangling`), because
what the program does next is undefined.

*Fairness.* `FairSpec` of the collector assumes that a call that has started
runs on, which is what a thread in a loop does; nothing is assumed of the client.
`SteppingSpec` adds that the client keeps calling `nova_gc_collect_step`, as
the loops of `tests/parser_tests.cpp` do; this is strong fairness because the
client's turn comes and goes. The parser is a loop of one thread
(`WF_vars(Next)`). The remaining specifications are safety only.

## 4. What is proved

`tlapm` checks these for every value of the constants that satisfies the `ASSUME`s of
the modules. The second column is a property a run of section 3 checks; the last
says what has to hold beyond the assumptions.

| theorem | property | for |
|---|---|---|
| `NovaGCProofs!TypeCorrect` | `TypeOK` | every client |
| `NovaGCProofs!QuietInvariant`, `Safety`, `CleanMarks` | `QuietInv`, `ReachableStaysLive`, `NoStaleMarks` | `Quiet` |
| `NovaGCHeapProofs!HeapRefinement` | `ImplementsManagedHeap` | `Quiet` |
| `NovaGCHeapProofs!MarkStackOfAnyClient` | `MarkStackLive` | every client, up to a dangling pointer |
| `NovaGCBytesProofs!AllocatedBytes` | `AllocatedExact` | every client |
| `NovaGCBytesProofs!SurvivingBytes` | `SurvivorsExact` | `Quiet` |
| `NovaParserProofs!TypeCorrect`, `ErrorsAreReported` | `TypeOK`, `ErrorsReported` | every token array |
| `NovaParserStackProofs!RecursionIsPaidFor`, `DeclarationsAreKept` | `OverflowsOnlyAtTheEnd`, `DeclarationsKept` | every token array |
| `NovaExprIndexProofs!TypeCorrect`, `KeysAreFound`, `Room` | `TypeOK`, `EveryKeyIsFound`, `RoomToProbe` | every hash |
| `NovaExprIndexProofs!Refinement` | `ImplementsExprInfo` | every hash |
| `NovaTypeRegistryProofs!PointersValid`, `FirstConstructorKept`, `NamesStandForTypes` | `RecordPointersValid`, `ConstructorsKept`, `TypeNamesResolved` | every program, in `TypeTables` |
| `NovaTypeRegistryProofs!TablesTyped` | (`RegistryTypeOK`, which is part of `CompilerTypeOK`) | every program, in `TypeTables` |
| `NovaTypeRegistryProofs!FewTypesNeverMove` | (`FewTypesInPlace`) | every program, in `TypeTables` |
| `NovaTypeRegistryProofs!CountingIsExhaustiveness` | (about `Covered`) | all variants and arms |
| `NovaBuildProofs!TypeCorrect`, `NothingLeft`, `WholeProjects` | `TypeOK`, `NoLitter`, `CreatedWhole` | all jobs |
| `NovaBuildProofs!BuiltFromOwn` | `BuiltFromOwnProgram` | jobs kept apart (`apart`) |

`Quiet` is the discipline of section 3 as an assumption on the constants: no
liberties, and the mark stack can grow (roots may be refused). It cannot be
dropped: the violated runs and variants of section 3 are what happens without it.

*Reachable objects (`QuietInv`).* `ReachableStaysLive` is not inductive: nothing
in it forbids an unmarked object that the client reaches while the sweep is on.
Before the stack is empty for good, the whole heap is
closed under children and everything marked and not on the stack has marked
children (`ClosureInv`, but for the object whose trace callback is running).
From then on (`Settled`), what is marked or already swept over is closed and
contains every pointer the client holds (`SlotInv`), so freeing the rest keeps
it closed. `ReachableFrom` is the least closed set, so `QuietInv` implies
safety. There is one lemma per action (`BeginStepKeeps` to `CreateKeeps`), each
split by conjunct; `MarkPtrEffect` is shared by the three callers of
`nova_gc_mark_ptr`.

*The heap without a collector.* Under `QuietInv` an allocation, an access and a
change of a root map to those of `ManagedHeap`, a sweep that frees an object to
the loss of one the client cannot reach, the rest to stutters. The safety part is
proved; `ManagedHeap`'s fairness stays with `gc_live`.

*Any client.* After the client has reached a freed object what it does is
undefined, so `MarkStackOfAnyClient` is about `AnyClientSpec`, whose steps all
start in a state that has `ReachableStaysLive`: exactly the states
`gc_any_client` explores (its `CONSTRAINT`). `StackInv` says that the objects
waiting to be traced lie in a set of existing objects closed under children.
That is less than `QuietInv` and enough, because the sweep starts with an empty
stack.

*Byte counts.* `AccountInv`: no object is on the list twice, and
`bytes_allocated` is the sum of the sizes on it. `SurvivorInv`: `bytes_live` is
zero while the roots are scanned and from then on the sum over the list in front
of the cursor. The sum is a fold of
the community modules. That it is additive is an induction over finite sets,
which the library's induction theorems cannot give (they take an operator); it
is proved from the well-foundedness of strict inclusion instead: a smallest
set on which the law fails has an element to remove.

*Parser.* One lemma per action over the shared facts about `Accept`, `Skip`,
`Match` and `Error`. `PaidInv` charges recursion to tokens: `Grow` is how many
more calls a step makes active before it has read a token, and with the calls
that are active while it is done (`depths`) no step of the stack comes to more
than six for each token that has been read and eight.
A block or a list steps back over the bracket it begins with; while it stands
before it (`Ahead`) that token has paid already. The bound fails only where
reading no longer moves, which is `DeadEnd`. `KeptInv` describes the shape of the stack (a
declaration's keyword is only ever the next thing to take, so none is read as part of
something else), and equates `decls` with the declarations before `current` as
long as there was no error.

*Index.* `IndexInv` has `EveryKeyIsFound` for the table in use and for the one
being filled, that the new one holds exactly the slots before `next_slot`
(`Moved`), and that `count` is the number of keys (`CountInv`). With the
capacity the sizing loop ends on, a free slot remains, so probing ends.

*Tables of types.* The theorems are about `TypeTables`, because the analysis of an
expression is `RECURSIVE` and out of the provers' reach; that `NovaAnalyzer`
keeps to `TypeTables` is what the run `compiler` checks, on its bounded programs.
The two parts meet in `AnalyzeDeclaration`. The properties speak of the end of
the analysis, so the invariant, `RegistryInv`, says what they come from while the
types are being declared, about those declared so far (`DeclaredTypes`):
`RecordsInv` that a record and its type lead to each other and that the first
record of a name is that of the first type of that name; `ScopeInv` that the
scope holds exactly their constructors, so that a taken name is one of an
earlier type; `ReportsInv` that nothing has been reported of a type before its
turn. That a name is unknown when its payload is resolved is then the same as
that no declaration up to this one has it. `Registered` reduces a step of
`register_type_decl` to facts about tables before and after: the loop over the
variants is a recursive function and `FlattenSeq` another, and what they
compute is shown by an induction over sets of numbers, which rests on the
well-foundedness of inclusion as the sums above do. `GrowthInv` counts the
records against the capacity: the array is in its first block until there are
more types than it had room for. `CountingIsExhaustiveness` is the step from the
number `check_match_exhaustiveness` compares to the warning it stands for.

*Tools.* `ControlInv` ties a job's place in the code to its options and to the
files it may remove. `LitterInv`: a generated source that exists is one that
some job *owes* (it runs, or was killed, and has the path still to remove), and an
object nobody asked for exists only between its compilation and its removal, or
behind a run that was killed.
`WholeInv` follows the manifest and the module of a project from opening to
closing; that two runs on one root write the same text is
`ProjectAssumption`. `BuiltInv`: jobs that run at once touch different files
(`ApartInv`), so the sources and the output of a job hold, place by place, what
it has written itself (`SourcesInv`).

Only model-checked:

- liveness (`gc_live`; that nothing waits for ever), which the provers do not handle;
- `AcceptedIsGrammatical` and its converse: `Derives` is recursive over the grammar;
- the lexer (`LexesGrammar`, `HoverFindsToken`): recursion over the text;
- what the analyzer makes of expressions, and the compiler: both are recursive
  over trees. `UseBeforeDeclaration`, `ExhaustivenessInPlace` (beyond its count),
  that analysis keeps to `TypeTables`, `EffectsComplete`, `TypesSound`,
  `CompilerTypeOK` (beyond `RegistryTypeOK`) and the properties of the emitted code
  compare such recursions for every input;
- `ReachableStaysLive` beyond a quiet client does not hold and is not claimed.

## 5. Not modelled, and why

- Text processing: JSON, headers and URIs in nova-lsp, the reflow of nova-fmt, the spelling of emitted code and the buffers it is put together in.
  String processing without interleavings or state. The lexer and the lookup of a
  token by its place are modelled.
- nova-repl and nova-lsp are loops over the parser and analyzer that are
  modelled, one request at a time, with nothing kept from one to the next.
- Tree, token and diagnostic containers: their one hazard is a refused allocation
  that drops an element. Failing allocations are modelled in the collector, the
  mark stack, the root table and the expression index only.
- `nova_semantic_context_free`, `nova_ir_free` and the other destructors; the
  models never use what they free, except for the record array that `realloc`
  moves.
- Scripts and the Makefile: no program state.

## 6. Plan

1. The allocation failures of the analyzer's arrays, which drop an element and go
   on (`src/semantic.cpp:253`).
2. Places in the lexer: that line and column grow from token to token for every
   text needs no grammar, and is within reach of TLAPS once `NovaLexer` scans
   with recursive functions throughout.
