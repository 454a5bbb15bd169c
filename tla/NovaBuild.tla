------------------------------ MODULE NovaBuild ------------------------------
(***************************************************************************)
(* nova-check (src/tools/nova_check.cpp), the code generator's driver      *)
(* (src/src/codegen.cpp) and nova-new (src/tools/nova_new.cpp) as          *)
(* processes that share a file system.                                     *)
(*                                                                         *)
(* A job is one run of nova-check or nova-new.  Each of its calls on the   *)
(* file system, and the run of the system compiler, is one step, so that   *)
(* other jobs, or the user's ^C, come in between.  A file is an abstract   *)
(* text: a sequence of pieces, each the translation of a whole Nova        *)
(* program or the C/LLVM `main` that calls an entry function.  The front   *)
(* end (parser, semantic analysis, lowering) is a verdict attached to the  *)
(* program here; module NovaCompiler models it.  Messages are left out.    *)
(*                                                                         *)
(* An operator whose comment begins with "Mistake:" is a faulty variant of *)
(* the one below it, for checking that a property notices.                 *)
(***************************************************************************)
EXTENDS Integers, SequencesExt

CONSTANTS
  Jobs,      \* runs of nova-check or nova-new
  Requests,  \* the tool they run, its command line and environment
  Programs,  \* texts of Nova source files
  Facts,     \* what the front end and the emitters find out about a program
  Disks,     \* file systems the jobs may start from
  NoFile,    \* content of a path where there is no file
  NoPath,    \* an argument that is not given
  MayFail,   \* what may fail: "open", "cc", "lower", "mkdir"; "kill"
  Users      \* may users keep jobs that touch the same file apart in time?

ASSUME FailAssumption  == MayFail \subseteq {"open", "cc", "lower", "mkdir", "kill"}
ASSUME UsersAssumption == Users \subseteq BOOLEAN
ASSUME FactsAssumption ==
  \A p \in Programs :
    /\ Facts[p].verdict \in {"rejected", "warned", "clean"}
    /\ Facts[p].entries \subseteq Facts[p].functions
    /\ Facts[p].emits \subseteq {"c", "llvm"}

VARIABLES
  files,    \* path -> content
  request,  \* job -> its command line
  pc,
  program,  \* job -> the program it read
  doomed,   \* job -> files it is about to remove, in order
  built,    \* job -> did the code generator return true
  apart     \* two jobs that touch the same file never run at once (external)

vars == <<files, request, pc, program, doomed, built, apart>>

-----------------------------------------------------------------------------
(* Texts and paths.  A path is a stem and its suffixes: x.wrapper.c is     *)
(* <<"x", "wrapper", "c">>.                                                *)

Content(kind, pieces) == [kind |-> kind, pieces |-> pieces]
Functions(p) == [kind |-> "functions", name |-> p]
MainCalling(e) == [kind |-> "main", name |-> e]

CPath(p)  == IF Len(p) > 1 /\ Last(p) = "o" THEN Front(p) \o <<"c">> ELSE p \o <<"c">>
WrapperPath(p) == p \o <<"wrapper", "c">>
MergePath(p) == p \o <<"merge", "c">>
IRPath(p) == p \o <<"ll">>

\* object_path of job j for request r: the argument of --emit-aot or
\* build/nova-check-<pid>.o
OutputOf(j, r)  == IF r.aot # NoPath THEN r.aot ELSE <<j, "o">>
ProgramOf(j, r) == IF r.backend = "llvm" THEN IRPath(OutputOf(j, r)) ELSE CPath(OutputOf(j, r))

\* The sources the code generator leaves behind unless it removes them, and
\* the one it hands to the compiler, the last.
GeneratedOf(j, r) ==
  IF r.tool = "new" THEN <<>>
  ELSE IF r.aot # NoPath /\ r.backend # "llvm"
  THEN <<ProgramOf(j, r), WrapperPath(OutputOf(j, r)), MergePath(OutputOf(j, r))>>
  ELSE <<ProgramOf(j, r)>>

\* a project of nova-new: directories are stems as well
SrcDir(root)  == root \o <<"/src">>
Manifest(root) == root \o <<"/nova", "toml">>
MainModule(root) == root \o <<"/src/main", "nova">>
Project(root) == {root, SrcDir(root), Manifest(root), MainModule(root)}

\* every path a run writes to
TouchedOf(j, r) ==
  IF r.tool = "new" THEN IF r.path = NoPath THEN {} ELSE Project(r.path)
  ELSE ToSet(GeneratedOf(j, r)) \cup {OutputOf(j, r)}

IsNew(j) == request[j].tool = "new"
IsCheck(j) == request[j].tool = "check"
IsAot(j) == request[j].aot # NoPath
UsesLLVM(j) == request[j].backend = "llvm"
Output(j) == OutputOf(j, request[j])
ProgramPath(j) == ProgramOf(j, request[j])
Generated(j) == GeneratedOf(j, request[j])
CompilerInput(j) == Last(Generated(j))
Root(j) == request[j].path
Touched(j) == TouchedOf(j, request[j])

Apartness(j, k) ==
  Touched(j) \cap (Touched(k) \cup {request[k].path}) = {}

\* A path is a sequence, and every path a run may name is on every disk.
IsPath(p) == p \in Seq(ToSet(p))
ASSUME PathsAssumption ==
  \A r \in Requests, j \in Jobs :
    /\ r.tool \in {"check", "new"} /\ (r.path # NoPath => IsPath(r.path))
    /\ r.tool = "check" /\ r.aot # NoPath => IsPath(r.aot)
    /\ \A d \in Disks : TouchedOf(j, r) \cup ({r.path} \ {NoPath}) \subseteq DOMAIN d
\* Before the runs the disks hold no generated source, and no object of a run.
ASSUME DisksAssumption ==
  \A d \in Disks :
    /\ \A p \in DOMAIN d : d[p] # NoFile =>
         /\ d[p].kind \in {"nova", "binary", "dir", "toml"}
         /\ d[p].kind = "nova" /\ d[p].pieces # <<>> => d[p].pieces[1].name \in Programs
    /\ \A j \in Jobs : <<j, "o">> \in DOMAIN d => d[<<j, "o">>] = NoFile
\* The process id in its name keeps an object that was not asked for, and the
\* source it is made from, to one run.
ASSUME OwnAssumption ==
  \A r, s \in Requests, j \in Jobs : \A k \in Jobs \ {j} :
    r.tool = "check" /\ r.aot = NoPath => TouchedOf(j, r) \cap TouchedOf(k, s) = {}
\* What nova-new puts into a project depends on its root alone, and nobody else
\* is told to write there.
ASSUME ProjectAssumption ==
  \A r, s \in Requests, j \in Jobs :
    r.tool = "new" /\ r.path # NoPath =>
      /\ r.module \in Programs
      /\ s.tool = "new" /\ s.path = r.path => s.module = r.module
      /\ s.tool = "check" \/ s.path # r.path => Project(r.path) \cap TouchedOf(j, s) = {}

-----------------------------------------------------------------------------
(* The system compiler, external.  It rejects a text that defines a name   *)
(* twice; to link, it needs one main and the entry function it calls.      *)

DefinedBy(piece) ==
  IF piece.kind = "main" THEN {"main"} ELSE Facts[piece.name].functions

Compiles(text, link) ==
  /\ \A i, k \in DOMAIN text :
       i # k => DefinedBy(text[i]) \cap DefinedBy(text[k]) = {}
  /\ link => \E i, k \in DOMAIN text :
       /\ text[i].kind = "main" /\ text[k].kind = "functions"
       /\ text[i].name \in Facts[text[k].name].entries

-----------------------------------------------------------------------------
(* The steps of a job *)

At(j, place) == pc[j] = place
Goto(j, place) == pc' = [pc EXCEPT ![j] = place]
Fails(call) == call \in MayFail

\* An early return: remove the files listed, in this order, then report.
CleanUp(j, paths, ok) ==
  /\ Goto(j, "clean")
  /\ doomed' = [doomed EXCEPT ![j] = paths]
  /\ built' = [built EXCEPT ![j] = ok]

\* Mistake: fopen(path, "a").  Breaks BuiltFromOwnProgram.
TruncateNot(path) ==
  files' = [files EXCEPT ![path] = IF @ = NoFile THEN Content("text", <<>>) ELSE @]

\* fopen(path, "w"): an empty file from now on.
Truncate(path) ==
  files' = [files EXCEPT ![path] = Content("text", <<>>)]

\* fclose after writing: the text goes to the file the handle is open on,
\* empty since fopen.  If another job truncated, wrote, removed or replaced the
\* file at path meanwhile, it may overwrite what is there or not reach it.
Contested(j, path) == \E k \in Jobs \ {j} : path \in Touched(k)
Put(path, text) ==
  files' = [files EXCEPT ![path] = IF @ = NoFile THEN @ ELSE Content("text", text)]
Write(j, path, text) ==
  \/ files[path] # NoFile /\ Put(path, files[path].pieces \o text)
  \/ Contested(j, path) /\ (Put(path, text) \/ UNCHANGED files)

Init ==
  /\ files \in Disks
  /\ request \in [Jobs -> Requests]
  /\ pc = [j \in Jobs |-> "start"]
  /\ program = [j \in Jobs |-> NoFile]
  /\ doomed = [j \in Jobs |-> <<>>]
  /\ built = [j \in Jobs |-> FALSE]
  /\ apart \in Users

Running(j) == pc[j] \notin {"start", "exit 0", "exit 1", "exit 2", "killed"}

\* main of both tools: the arguments
Start(j) ==
  /\ At(j, "start")
  /\ apart => \A k \in Jobs \ {j} :
       Running(k) => Apartness(j, k) /\ Apartness(k, j)
  /\ \/ Root(j) = NoPath /\ Goto(j, IF IsNew(j) THEN "exit 1" ELSE "exit 2")
     \/ Root(j) # NoPath /\ Goto(j, IF IsNew(j) THEN "make root" ELSE "read")
  /\ UNCHANGED <<files, request, program, doomed, built, apart>>

\* read_file_contents, and the parser on what it returns
Read(j) ==
  /\ At(j, "read")
  /\ LET source == files[request[j].path]
     IN IF source # NoFile /\ source.kind = "nova" /\ source.pieces # <<>>
        THEN /\ program' = [program EXCEPT ![j] = source.pieces[1].name]
             /\ Goto(j, "analyze")
        ELSE /\ Goto(j, "exit 1")
             /\ UNCHANGED program
  /\ UNCHANGED <<files, request, doomed, built, apart>>

\* parser and semantic diagnostics, --strict, --skip-codegen
Analyze(j) ==
  /\ At(j, "analyze")
  /\ LET verdict == Facts[program[j]].verdict
     IN Goto(j, IF verdict = "rejected" \/ (request[j].strict /\ verdict = "warned")
                THEN "exit 1"
                ELSE IF request[j].skip THEN "exit 0" ELSE "lower")
  /\ UNCHANGED <<files, request, program, doomed, built, apart>>

\* nova_ir_lower and the build directory
Lower(j) ==
  /\ At(j, "lower")
  /\ \/ Goto(j, "open program")
     \/ (Fails("lower") \/ Fails("mkdir")) /\ Goto(j, "exit 1")
  /\ UNCHANGED <<files, request, program, doomed, built, apart>>

\* emit_program_c, emit_program_llvm: fopen
OpenProgram(j) ==
  /\ At(j, "open program")
  /\ \/ Truncate(ProgramPath(j)) /\ Goto(j, "write program")
     \/ Fails("open") /\ Goto(j, "exit 1") /\ UNCHANGED files
  /\ UNCHANGED <<request, program, doomed, built, apart>>

\* emit_program_c, emit_program_llvm: the functions, unless one of them has
\* an expression the backend does not support
WriteProgram(j) ==
  /\ At(j, "write program")
  /\ UNCHANGED <<request, program, apart>>
  /\ IF request[j].backend \in Facts[program[j]].emits
     THEN /\ Write(j, ProgramPath(j), <<Functions(program[j])>>)
          /\ Goto(j, IF ~IsAot(j) THEN "compile"
                     ELSE IF UsesLLVM(j) THEN "append main" ELSE "open wrapper")
          /\ UNCHANGED <<doomed, built>>
     ELSE /\ CleanUp(j, <<ProgramPath(j)>>, FALSE)
          /\ UNCHANGED files

\* nova_codegen_emit_executable, LLVM: fopen(ir_path, "a"), define i32 @main
AppendMain(j) ==
  /\ At(j, "append main")
  /\ UNCHANGED <<request, program, apart>>
  /\ \/ /\ LET path == ProgramPath(j)
               before == IF files[path] = NoFile THEN <<>> ELSE files[path].pieces
           IN files' = [files EXCEPT ![path] =
                Content("text", Append(before, MainCalling(request[j].entry)))]
        /\ Goto(j, "compile")
        /\ UNCHANGED <<doomed, built>>
     \/ /\ Fails("open")
        /\ CleanUp(j, <<ProgramPath(j)>>, FALSE)
        /\ UNCHANGED files

\* nova_codegen_emit_executable, C: the wrapper
OpenWrapper(j) ==
  /\ At(j, "open wrapper")
  /\ UNCHANGED <<request, program, apart>>
  /\ \/ /\ Truncate(WrapperPath(Output(j)))
        /\ Goto(j, "write wrapper")
        /\ UNCHANGED <<doomed, built>>
     \/ /\ Fails("open")
        /\ CleanUp(j, <<ProgramPath(j)>>, FALSE)
        /\ UNCHANGED files

WriteWrapper(j) ==
  /\ At(j, "write wrapper")
  /\ Write(j, WrapperPath(Output(j)), <<MainCalling(request[j].entry)>>)
  /\ Goto(j, "open merged")
  /\ UNCHANGED <<request, program, doomed, built, apart>>

\* Mistake: the wrapper is forgotten when the merged file cannot be opened.
\* Breaks NoLitter.
OpenMergedForgets(j) ==
  /\ At(j, "open merged")
  /\ UNCHANGED <<request, program, apart>>
  /\ \/ /\ Truncate(MergePath(Output(j)))
        /\ Goto(j, "merge")
        /\ UNCHANGED <<doomed, built>>
     \/ /\ Fails("open")
        /\ CleanUp(j, <<ProgramPath(j)>>, FALSE)
        /\ UNCHANGED files

\* nova_codegen_emit_executable, C: the merged file
OpenMerged(j) ==
  /\ At(j, "open merged")
  /\ UNCHANGED <<request, program, apart>>
  /\ \/ /\ Truncate(MergePath(Output(j)))
        /\ Goto(j, "merge")
        /\ UNCHANGED <<doomed, built>>
     \/ /\ Fails("open")
        /\ CleanUp(j, <<ProgramPath(j), WrapperPath(Output(j))>>, FALSE)
        /\ UNCHANGED files

\* Both sources are opened for reading and copied one after the other.
Merge(j) ==
  /\ At(j, "merge")
  /\ UNCHANGED <<request, program, apart>>
  /\ LET source == files[ProgramPath(j)]
         entry == files[WrapperPath(Output(j))]
     IN \/ /\ NoFile \notin {source, entry}
           /\ Write(j, MergePath(Output(j)), source.pieces \o entry.pieces)
           /\ Goto(j, "compile")
           /\ UNCHANGED <<doomed, built>>
        \/ /\ Fails("open") \/ NoFile \in {source, entry}
           /\ CleanUp(j, Generated(j), FALSE)
           /\ UNCHANGED files

\* invoke_cc, invoke_llvm_cc: the compiler writes its output or fails, and a
\* failed link may leave an older output in place or remove it.
Compile(j) ==
  /\ At(j, "compile")
  /\ UNCHANGED <<request, program, apart>>
  /\ LET input == files[CompilerInput(j)]
         good == /\ input # NoFile /\ input.kind = "text"
                 /\ Compiles(input.pieces, IsAot(j))
     IN \/ /\ good
           /\ files' = [files EXCEPT ![Output(j)] = Content("binary", input.pieces)]
           /\ CleanUp(j, Generated(j), TRUE)
        \/ /\ ~good \/ Fails("cc")
           /\ \/ UNCHANGED files
              \/ files' = [files EXCEPT ![Output(j)] = NoFile]
           /\ CleanUp(j, Generated(j), FALSE)

\* remove, one file at a time
RemoveFile(j) ==
  /\ At(j, "clean") /\ doomed[j] # <<>>
  /\ files' = [files EXCEPT ![Head(doomed[j])] = NoFile]
  /\ doomed' = [doomed EXCEPT ![j] = Tail(@)]
  /\ UNCHANGED <<request, pc, program, built, apart>>

\* Mistake: a failed compiler run is not reported.  Breaks TypeOK.
ReportAlwaysOk(j) ==
  /\ At(j, "clean") /\ doomed[j] = <<>>
  /\ Goto(j, "ok")
  /\ UNCHANGED <<files, request, program, doomed, built, apart>>

\* The code generator returns.  A failure ends the run.
Report(j) ==
  /\ At(j, "clean") /\ doomed[j] = <<>>
  /\ Goto(j, IF built[j] THEN "ok" ELSE "exit 1")
  /\ UNCHANGED <<files, request, program, doomed, built, apart>>

\* main: an object file only proves that code generation works
Finish(j) ==
  /\ At(j, "ok")
  /\ IF IsAot(j)
     THEN UNCHANGED files
     ELSE files' = [files EXCEPT ![Output(j)] = NoFile]
  /\ Goto(j, "exit 0")
  /\ UNCHANGED <<request, program, doomed, built, apart>>

-----------------------------------------------------------------------------
(* nova-new.  The contents of a project depend on its root alone.          *)

TomlText(root) == Content("toml", <<root>>)
ModuleText(j)  == Content("nova", <<Functions(request[j].module)>>)
Directory == Content("dir", <<>>)

\* Whatever is there already counts as a directory (EEXIST).
MakeDirectory(path) ==
  files' = [files EXCEPT ![path] = IF @ = NoFile THEN Directory ELSE @]

\* mkdir_p of the root
MakeRoot(j) ==
  /\ At(j, "make root")
  /\ \/ MakeDirectory(Root(j)) /\ Goto(j, "make src")
     \/ Fails("mkdir") /\ Goto(j, "exit 1") /\ UNCHANGED files
  /\ UNCHANGED <<request, program, doomed, built, apart>>

\* mkdir_p of src, which fails if the root is a file
MakeSrc(j) ==
  /\ At(j, "make src")
  /\ \/ /\ files[Root(j)] = Directory
        /\ MakeDirectory(SrcDir(Root(j))) /\ Goto(j, "open manifest")
     \/ /\ Fails("mkdir") \/ files[Root(j)] # Directory
        /\ Goto(j, "exit 1") /\ UNCHANGED files
  /\ UNCHANGED <<request, program, doomed, built, apart>>

\* Mistake: a file that is there already is kept (CreatedWhole).
OpenForNewKeeps(path, kind) ==
  files' = [files EXCEPT ![path] = IF @ = NoFile THEN Content(kind, <<>>) ELSE @]
\* write_file: fopen(path, "w")
OpenForNew(path, kind) == files' = [files EXCEPT ![path] = Content(kind, <<>>)]

\* write_file: fwrite and fclose.  The text goes over what the file holds; what
\* another run on the same project wrote meanwhile is the same text.
PutNew(path, text) ==
  files' = [files EXCEPT ![path] = IF @.pieces = <<>> THEN text ELSE @]

OpenManifest(j) ==
  /\ At(j, "open manifest")
  /\ \/ OpenForNew(Manifest(Root(j)), "toml") /\ Goto(j, "write manifest")
     \/ Fails("open") /\ Goto(j, "exit 1") /\ UNCHANGED files
  /\ UNCHANGED <<request, program, doomed, built, apart>>

WriteManifest(j) ==
  /\ At(j, "write manifest")
  /\ PutNew(Manifest(Root(j)), TomlText(Root(j))) /\ Goto(j, "open module")
  /\ UNCHANGED <<request, program, doomed, built, apart>>

OpenModule(j) ==
  /\ At(j, "open module")
  /\ \/ /\ files[SrcDir(Root(j))] = Directory
        /\ OpenForNew(MainModule(Root(j)), "nova") /\ Goto(j, "write module")
     \/ /\ Fails("open") \/ files[SrcDir(Root(j))] # Directory
        /\ Goto(j, "exit 1") /\ UNCHANGED files
  /\ UNCHANGED <<request, program, doomed, built, apart>>

WriteModule(j) ==
  /\ At(j, "write module")
  /\ PutNew(MainModule(Root(j)), ModuleText(j)) /\ Goto(j, "exit 0")
  /\ UNCHANGED <<request, program, doomed, built, apart>>

\* The user interrupts a run (external).
Kill(j) ==
  /\ Fails("kill") /\ Running(j)
  /\ Goto(j, "killed")
  /\ UNCHANGED <<files, request, program, doomed, built, apart>>

Step(j) ==
  \/ Start(j) \/ Read(j) \/ Analyze(j) \/ Lower(j)
  \/ OpenProgram(j) \/ WriteProgram(j) \/ AppendMain(j)
  \/ OpenWrapper(j) \/ WriteWrapper(j) \/ OpenMerged(j) \/ Merge(j)
  \/ Compile(j) \/ RemoveFile(j) \/ Report(j) \/ Finish(j)
  \/ MakeRoot(j) \/ MakeSrc(j) \/ OpenManifest(j) \/ WriteManifest(j)
  \/ OpenModule(j) \/ WriteModule(j)

Next == \E j \in Jobs : Step(j) \/ Kill(j)

Spec == Init /\ [][Next]_vars

-----------------------------------------------------------------------------
(* Properties *)

Places ==
  {"start", "read", "analyze", "lower", "open program", "write program",
   "append main", "open wrapper", "write wrapper", "open merged", "merge",
   "compile", "clean", "ok", "make root", "make src", "open manifest",
   "write manifest", "open module", "write module",
   "exit 0", "exit 1", "exit 2", "killed"}

\* The types, and what the control flow promises about them: only files of
\* the job's own are up for removal, and success is only ever reported by a
\* job whose code generator succeeded or was not asked for.
TypeOK ==
  /\ \A p \in DOMAIN files :
       files[p] = NoFile \/ files[p].kind \in {"nova", "text", "binary", "dir", "toml"}
  /\ request \in [Jobs -> Requests]
  /\ pc \in [Jobs -> Places]
  /\ program \in [Jobs -> Programs \cup {NoFile}]
  /\ built \in [Jobs -> BOOLEAN] /\ apart \in Users
  /\ \A j \in Jobs :
       /\ ToSet(doomed[j]) \subseteq ToSet(Generated(j))
       /\ IsCheck(j) /\ pc[j] \in {"ok", "exit 0"} => built[j] \/ request[j].skip

Ended(j) == pc[j] \in {"exit 0", "exit 1", "exit 2"}

\* What the output of a successful job is made of.
Expected(j) ==
  <<Functions(program[j])>> \o
    (IF IsAot(j) THEN <<MainCalling(request[j].entry)>> ELSE <<>>)

\* As long as jobs that touch the same file are kept apart, when the code
\* generator has returned true the file it was asked for holds exactly the
\* program this run read, whole and once, with a main that calls this run's
\* entry: nothing of an older program or of sources that a killed or failed
\* run left behind (the return values of nova_codegen_emit_object and
\* nova_codegen_emit_executable).
BuiltFromOwnProgram ==
  apart => \A j \in Jobs :
    At(j, "ok") => files[Output(j)] = Content("binary", Expected(j))

\* Once every run has ended by itself, whatever failed in it and however the
\* runs interleaved, even over the same files, no generated source is left
\* (the remove calls on every return path of the code generator) and no object
\* of a run that was not asked for one.
NoLitter ==
  (\A j \in Jobs : Ended(j)) =>
    /\ \A p \in DOMAIN files : files[p] = NoFile \/ files[p].kind # "text"
    /\ \A j \in Jobs : IsCheck(j) /\ ~IsAot(j) => files[Output(j)] = NoFile

\* README.md:43-44: nova-new scaffolds a project with a manifest and a module.
\* When it has reported success, both files are there and whole, also where an
\* earlier run failed or was killed half-way and was run again, or where another
\* run on the same project interleaves, unless one that comes later stops
\* half-way (main of tools/nova_new.cpp).
CreatedWhole ==
  \A j \in Jobs :
    /\ IsNew(j) /\ At(j, "exit 0")
    /\ \A k \in Jobs : IsNew(k) /\ Root(k) = Root(j) => pc[k] \in {"start", "exit 0"}
    => /\ files[Manifest(Root(j))] = TomlText(Root(j))
       /\ files[MainModule(Root(j))] = ModuleText(j)

\* README.md:74-76: without --entry, nova-check uses the `main` Nova function
\* as the entry point of the executable.  So a program that passes the checks,
\* that the backend supports and that has such a function, must build.
DefaultEntryBuilds ==
  \A j \in Jobs :
    /\ program[j] # NoFile /\ request[j].entry = "main" /\ IsAot(j)
    /\ "main" \in Facts[program[j]].entries
    /\ Facts[program[j]].verdict = "clean"
    /\ request[j].backend \in Facts[program[j]].emits
    => pc[j] # "exit 1"
=============================================================================
