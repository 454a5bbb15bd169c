----------------------------- MODULE MCNovaBuild -----------------------------
(***************************************************************************)
(* Two runs of nova-check or nova-new over a directory with two Nova       *)
(* sources and places for two projects.  The outputs x and x.o share the   *)
(* generated file x.c; y shares nothing; a run without --emit-aot has an   *)
(* object file of its own.                                                 *)
(***************************************************************************)
EXTENDS NovaBuild, FiniteSets, TLC

CONSTANTS a, b

TwoJobs == {a, b}
OneJob  == {a}

Source  == <<"s", "nova">>
Other   == <<"t", "nova">>
Outputs == {<<"x">>, <<"x", "o">>, <<"y">>}
Objects == {<<j, "o">> : j \in Jobs}

\* the root of a project whose name is a word of the language, and of one whose
\* name is not
Roots == {<<"r">>, <<"match">>}

AllPaths ==
  {Source, Other} \cup UNION {{p, CPath(p), IRPath(p), WrapperPath(p), MergePath(p)} :
                         p \in Outputs \cup Objects}
  \cup UNION {{r, SrcDir(r), Manifest(r), MainModule(r)} : r \in Roots}

\* Two applications, one whose entry is main, a program the C backend cannot emit (it has a
\* list), one the front end warns about and one it rejects; "main" is an ordinary
\* Nova name.
AllPrograms == {"app", "tool", "with_main", "lists", "warns", "broken",
                "fresh", "misnamed"}
AllFacts ==
  [app       |-> [verdict |-> "clean",    functions |-> {"start", "f"},
                  entries |-> {"start"},  emits |-> {"c", "llvm"}],
   tool      |-> [verdict |-> "clean",    functions |-> {"start"},
                  entries |-> {"start"},  emits |-> {"c", "llvm"}],
   with_main |-> [verdict |-> "clean",    functions |-> {"main"},
                  entries |-> {"main"},   emits |-> {"c", "llvm"}],
   lists     |-> [verdict |-> "clean",    functions |-> {"start"},
                  entries |-> {"start"},  emits |-> {"llvm"}],
   warns     |-> [verdict |-> "warned",   functions |-> {"start"},
                  entries |-> {"start"},  emits |-> {"c"}],
   fresh     |-> [verdict |-> "clean",    functions |-> {"answer", "main"},
                  entries |-> {"answer", "main"}, emits |-> {"c", "llvm"}],
   misnamed  |-> [verdict |-> "rejected", functions |-> {}, entries |-> {},
                  emits |-> {}],
   broken    |-> [verdict |-> "rejected", functions |-> {}, entries |-> {},
                  emits |-> {}]]

\* One source holds any program or is missing, the other is a program that
\* builds, and x may be an older build.  Where a project is to go there is
\* nothing, a file, or the directories and files of an interrupted run.
Text(p) == Content("nova", <<Functions(p)>>)
Disk(source, x) ==
  [p \in AllPaths |-> CASE p = Source -> source [] p = Other -> Text("tool")
                       [] p = <<"x">> -> x [] OTHER -> NoFile]
Older == Content("binary", <<Functions("app"), MainCalling("start")>>)
Sources == {Text(p) : p \in {"app", "with_main", "lists", "warns", "broken"}} \cup {NoFile}
Interrupted ==
  (<<"r">> :> Directory) @@ (SrcDir(<<"r">>) :> Directory)
  @@ (Manifest(<<"r">>) :> Content("toml", <<>>)) @@ (MainModule(<<"r">>) :> Text("app"))
AllDisks ==
  {Disk(source, x) : source \in Sources, x \in {NoFile, Older}}
  \cup {taken @@ Disk(NoFile, NoFile) :
          taken \in {Interrupted, <<"r">> :> Older, SrcDir(<<"r">>) :> Older @@ <<"r">> :> Directory}}

Command(path, aot, backend, entry, strict, skip) ==
  [tool |-> "check", path |-> path, aot |-> aot, backend |-> backend, entry |-> entry,
   strict |-> strict, skip |-> skip]

New(root, module) == [tool |-> "new", path |-> root, module |-> module]

\* every output and backend with the right entry, then the odd ones, then
\* nova-new and nova-check on what it makes
Commands ==
  {Command(path, aot, backend, "start", TRUE, FALSE) : path \in {Source, Other},
     aot \in Outputs \cup {NoPath}, backend \in {"c", "llvm"}}
  \cup {Command(Source, NoPath, "c", "main", FALSE, TRUE),
        Command(Source, <<"x">>, "c", "main", FALSE, FALSE),
        Command(NoPath, NoPath, "c", "main", FALSE, FALSE),
        New(<<"r">>, "fresh"), New(<<"match">>, "misnamed"), New(NoPath, "fresh"),
        Command(MainModule(<<"r">>), <<"y">>, "llvm", "answer", FALSE, FALSE),
        Command(MainModule(<<"match">>), <<"y">>, "llvm", "answer", FALSE, FALSE)}

DefaultCommands == {Command(Source, <<"x">>, backend, "main", FALSE, FALSE) :
                      backend \in {"c", "llvm"}}
                   \cup {Command(Source, aot, "c", "start", FALSE, FALSE) :
                      aot \in Outputs \cup {NoPath}}

Symmetry == Permutations(Jobs)
=============================================================================
