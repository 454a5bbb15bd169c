-------------------------- MODULE NovaBuildProofs --------------------------
(***************************************************************************)
(* Theorems about NovaBuild for any number of runs, any command lines,     *)
(* programs and disks that its assumptions admit.                          *)
(***************************************************************************)
EXTENDS NovaBuild, SequenceTheorems, TLAPS

-----------------------------------------------------------------------------
(* Sequences and paths                                                     *)

LEMMA TupleElements ==
  /\ ToSet(<<>>) = {}
  /\ \A x : ToSet(<<x>>) = {x}
  /\ \A x, y : ToSet(<<x, y>>) = {x, y}
  /\ \A x, y, z : ToSet(<<x, y, z>>) = {x, y, z}
<1>1. ToSet(<<>>) = {}
  BY DEF ToSet
<1>2. ASSUME NEW x PROVE ToSet(<<x>>) = {x}
  BY DEF ToSet
<1>3. ASSUME NEW x, NEW y PROVE ToSet(<<x, y>>) = {x, y}
  <2>1. DOMAIN <<x, y>> = {1, 2}
    OBVIOUS
  <2> QED
    BY <2>1 DEF ToSet
<1>4. ASSUME NEW x, NEW y, NEW z PROVE ToSet(<<x, y, z>>) = {x, y, z}
  <2>1. DOMAIN <<x, y, z>> = {1, 2, 3}
    OBVIOUS
  <2> QED
    BY <2>1 DEF ToSet
<1> QED
  BY <1>1, <1>2, <1>3, <1>4

\* Taking the first element off a queue.
LEMMA QueueFacts ==
  ASSUME NEW S, NEW q \in Seq(S), q # <<>>
  PROVE  /\ Tail(q) \in Seq(S) /\ Head(q) \in ToSet(q)
         /\ ToSet(q) = {Head(q)} \cup ToSet(Tail(q)) /\ ToSet(q) \subseteq S
<1>1. /\ Len(q) \in Nat \ {0} /\ Head(q) = q[1] /\ DOMAIN q = 1..Len(q)
      /\ Tail(q) \in Seq(S) /\ Len(Tail(q)) = Len(q) - 1
      /\ \A i \in 1..Len(Tail(q)) : Tail(q)[i] = q[i+1]
  BY HeadTailProperties, LenProperties, EmptySeq
<1>2. ToSet(q) = {q[i] : i \in 1..Len(q)}
  BY <1>1 DEF ToSet
<1>3. ToSet(Tail(q)) = {Tail(q)[i] : i \in 1..Len(Tail(q))}
  BY <1>1, LenProperties DEF ToSet
<1>4. ASSUME NEW i \in 1..Len(q) PROVE q[i] \in {Head(q)} \cup ToSet(Tail(q))
  <2>1. CASE i = 1
    BY <1>1, <2>1
  <2>2. CASE i # 1
    <3>1. i-1 \in 1..Len(Tail(q)) /\ (i-1)+1 = i
      BY <1>1, <2>2
    <3>2. Tail(q)[i-1] = q[i]
      BY <1>1, <3>1
    <3> QED
      BY <1>3, <3>1, <3>2
  <2> QED
    BY <2>1, <2>2
<1>5. ASSUME NEW i \in 1..Len(Tail(q)) PROVE Tail(q)[i] \in ToSet(q)
  BY <1>1, <1>2
<1>6. Head(q) \in ToSet(q)
  BY <1>1, <1>2
<1>7. ToSet(q) \subseteq S
  BY <1>2, ElementOfSeq
<1> QED
  BY <1>1, <1>2, <1>3, <1>4, <1>5, <1>6, <1>7

\* The files of a run differ from one another and from its output: they are
\* longer, or end in another suffix.
LEMMA PathFacts ==
  ASSUME NEW q, IsPath(q)
  PROVE  /\ CPath(q) # q /\ IRPath(q) # q /\ WrapperPath(q) # q /\ MergePath(q) # q
         /\ CPath(q) # WrapperPath(q) /\ CPath(q) # MergePath(q)
         /\ WrapperPath(q) # MergePath(q)
<1> DEFINE S == ToSet(q) \cup {"o", "c", "ll", "wrapper", "merge"}
           n == Len(q)
<1>1. q \in Seq(S) /\ n \in Nat
  <2>1. q \in Seq(ToSet(q))
    BY DEF IsPath
  <2> QED
    BY <2>1, LenProperties, SeqMonotonic
<1>2. /\ <<"c">> \in Seq(S) /\ <<"ll">> \in Seq(S) /\ <<"wrapper", "c">> \in Seq(S)
      /\ <<"merge", "c">> \in Seq(S)
  OBVIOUS
<1> HIDE DEF S
<1>3. /\ Len(q \o <<"c">>) = n + 1 /\ Len(q \o <<"ll">>) = n + 1
      /\ Len(q \o <<"wrapper", "c">>) = n + 2 /\ Len(q \o <<"merge", "c">>) = n + 2
      /\ (q \o <<"wrapper", "c">>)[n+1] = "wrapper" /\ (q \o <<"merge", "c">>)[n+1] = "merge"
  BY <1>1, <1>2, ConcatProperties
<1>4. CASE n > 1 /\ Last(q) = "o"
  <2>1. /\ Front(q) \in Seq(S) /\ Len(Front(q)) = n - 1
    <3>1. \A i \in 1..n-1 : q[i] \in S
      BY <1>1, ElementOfSeq
    <3>2. SubSeq(q, 1, n-1) \in Seq(S) /\ Len(SubSeq(q, 1, n-1)) = n - 1
      BY <1>1, <1>4, <3>1, SubSeqProperties
    <3> QED
      BY <3>2 DEF Front
  <2>2. Len(Front(q) \o <<"c">>) = n /\ (Front(q) \o <<"c">>)[n] = "c"
    <3> DEFINE f == Front(q)
    <3>1. f \in Seq(S) /\ Len(f) = n - 1
      BY <2>1
    <3> HIDE DEF f
    <3>2. Len(f \o <<"c">>) = n /\ (f \o <<"c">>)[n] = "c"
      BY <1>1, <1>2, <1>4, <3>1, ConcatProperties
    <3> QED
      BY <3>2 DEF f
  <2>3. q[n] = "o"
    BY <1>4 DEF Last
  <2>4. CPath(q) = Front(q) \o <<"c">>
    BY <1>4 DEF CPath
  <2> QED
    BY <1>1, <1>3, <2>2, <2>3, <2>4 DEF IRPath, WrapperPath, MergePath
<1>5. CASE ~(n > 1 /\ Last(q) = "o")
  <2>1. CPath(q) = q \o <<"c">>
    BY <1>5 DEF CPath
  <2> QED
    BY <1>1, <1>3, <2>1 DEF IRPath, WrapperPath, MergePath
<1> QED
  BY <1>4, <1>5

\* A project's root, source directory, manifest and module are four paths.
LEMMA ProjectFacts ==
  ASSUME NEW q, IsPath(q)
  PROVE  /\ Manifest(q) \notin {q, SrcDir(q), MainModule(q)}
         /\ MainModule(q) \notin {q, SrcDir(q)}
<1> DEFINE S == ToSet(q) \cup {"/src", "/nova", "toml", "/src/main", "nova"}
           n == Len(q)
<1>1. q \in Seq(S) /\ n \in Nat
  <2>1. q \in Seq(ToSet(q))
    BY DEF IsPath
  <2> QED
    BY <2>1, LenProperties, SeqMonotonic
<1>2. /\ <<"/src">> \in Seq(S) /\ <<"/nova", "toml">> \in Seq(S)
      /\ <<"/src/main", "nova">> \in Seq(S)
  OBVIOUS
<1> HIDE DEF S
<1>3. /\ Len(q \o <<"/src">>) = n + 1
      /\ Len(q \o <<"/nova", "toml">>) = n + 2
      /\ Len(q \o <<"/src/main", "nova">>) = n + 2
      /\ (q \o <<"/nova", "toml">>)[n+1] = "/nova"
      /\ (q \o <<"/src/main", "nova">>)[n+1] = "/src/main"
  BY <1>1, <1>2, ConcatProperties
<1> QED
  BY <1>1, <1>3 DEF SrcDir, Manifest, MainModule

\* The files nova-check writes for a command line: the sources, the last of
\* which it compiles, and the output.
LEMMA CheckFacts ==
  ASSUME NEW j \in Jobs, NEW r \in Requests, r.tool = "check"
  PROVE  LET out  == OutputOf(j, r)
             prog == ProgramOf(j, r)
             all  == GeneratedOf(j, r)
         IN /\ IsPath(out)
            /\ TouchedOf(j, r) = ToSet(all) \cup {out} /\ out \notin ToSet(all)
            /\ prog \in ToSet(all) /\ Last(all) \in ToSet(all)
            /\ all \in Seq(ToSet(all)) /\ <<prog>> \in Seq(ToSet(all))
            /\ r.aot = NoPath \/ r.backend = "llvm" =>
                 all = <<prog>> /\ Last(all) = prog /\ ToSet(all) = {prog}
            /\ r.aot # NoPath /\ r.backend # "llvm" =>
                 /\ all = <<prog, WrapperPath(out), MergePath(out)>>
                 /\ ToSet(all) = {prog, WrapperPath(out), MergePath(out)}
                 /\ Last(all) = MergePath(out)
                 /\ prog # WrapperPath(out) /\ prog # MergePath(out)
                 /\ WrapperPath(out) # MergePath(out)
                 /\ <<prog, WrapperPath(out)>> \in Seq(ToSet(all))
<1> DEFINE out  == OutputOf(j, r)
           prog == ProgramOf(j, r)
           all  == GeneratedOf(j, r)
<1>1. IsPath(out)
  <2>1. CASE r.aot # NoPath
    BY <2>1, PathsAssumption DEF OutputOf
  <2>2. CASE r.aot = NoPath
    <3>1. ToSet(<<j, "o">>) = {j, "o"}
      BY TupleElements
    <3> QED
      BY <2>2, <3>1 DEF OutputOf, IsPath
  <2> QED
    BY <2>1, <2>2
<1>2. TouchedOf(j, r) = ToSet(all) \cup {out}
  BY DEF TouchedOf
<1>3. prog \in {CPath(out), IRPath(out)} /\ (r.backend # "llvm" => prog = CPath(out))
  BY DEF ProgramOf
<1>4. prog # out
  BY <1>1, <1>3, PathFacts
<1>5. CASE r.aot = NoPath \/ r.backend = "llvm"
  <2>1. all = <<prog>>
    BY <1>5 DEF GeneratedOf
  <2>2. Last(<<prog>>) = prog /\ ToSet(<<prog>>) = {prog} /\ <<prog>> \in Seq({prog})
    BY TupleElements DEF Last
  <2> HIDE DEF all, prog, out
  <2>3. /\ Last(all) = prog /\ ToSet(all) = {prog} /\ <<prog>> \in Seq(ToSet(all))
    BY <2>1, <2>2
  <2> QED
    BY <1>1, <1>2, <1>4, <1>5, <2>1, <2>3 DEF all, prog, out
<1>6. CASE r.aot # NoPath /\ r.backend # "llvm"
  <2> DEFINE w == WrapperPath(out)
             m == MergePath(out)
  <2>1. all = <<prog, w, m>>
    BY <1>6 DEF GeneratedOf
  <2>2. prog # w /\ prog # m /\ w # m /\ w # out /\ m # out
    BY <1>1, <1>3, <1>6, PathFacts
  <2> HIDE DEF prog, w, m, out
  <2>3. /\ Last(<<prog, w, m>>) = m /\ ToSet(<<prog, w, m>>) = {prog, w, m}
        /\ <<prog>> \in Seq({prog, w, m}) /\ <<prog, w>> \in Seq({prog, w, m})
        /\ <<prog, w, m>> \in Seq({prog, w, m})
    BY TupleElements DEF Last
  <2> HIDE DEF all
  <2>4. /\ Last(all) = m /\ ToSet(all) = {prog, w, m}
        /\ <<prog>> \in Seq(ToSet(all)) /\ <<prog, w>> \in Seq(ToSet(all))
        /\ all \in Seq(ToSet(all))
    BY <2>1, <2>3
  <2> QED
    BY <1>1, <1>2, <1>4, <1>6, <2>1, <2>2, <2>4 DEF all, prog, w, m, out
<1> QED
  BY <1>5, <1>6

-----------------------------------------------------------------------------
(* The types and the control flow                                          *)

NewPlaces == {"make root", "make src", "open manifest", "write manifest",
              "open module", "write module"}
AotCPlaces == {"open wrapper", "write wrapper", "open merged", "merge"}
CheckPlaces == AotCPlaces \cup
  {"read", "analyze", "lower", "open program", "write program", "append main",
   "compile", "clean", "ok"}

KnownFile(f) ==
  f # NoFile =>
    /\ f.kind \in {"nova", "text", "binary", "dir", "toml"}
    /\ f.kind = "nova" /\ f.pieces # <<>> => f.pieces[1].name \in Programs

\* Which tool and options a job has, from where it is; what it may remove.
ControlInv(j) ==
  /\ doomed[j] \in Seq(ToSet(Generated(j)))
  /\ pc[j] \in NewPlaces => IsNew(j) /\ Root(j) # NoPath
  /\ pc[j] \in CheckPlaces => IsCheck(j) /\ Root(j) # NoPath
  /\ pc[j] \in AotCPlaces => IsAot(j) /\ ~UsesLLVM(j)
  /\ pc[j] = "append main" => IsAot(j) /\ UsesLLVM(j)
  /\ pc[j] = "ok" => built[j]
  /\ IsCheck(j) /\ pc[j] = "exit 0" => built[j] \/ request[j].skip
  /\ IsNew(j) /\ pc[j] = "exit 0" => Root(j) # NoPath

TypeInv ==
  /\ request \in [Jobs -> Requests]
  /\ pc \in [Jobs -> Places]
  /\ program \in [Jobs -> Programs \cup {NoFile}]
  /\ built \in [Jobs -> BOOLEAN] /\ apart \in Users
  /\ DOMAIN doomed = Jobs
  /\ \A p \in DOMAIN files : KnownFile(files[p])
  /\ \A j \in Jobs, r \in Requests :
       TouchedOf(j, r) \cup ({r.path} \ {NoPath}) \subseteq DOMAIN files
  /\ \A j \in Jobs : ControlInv(j)

\* A step of job j moves j alone and changes at most one file, one of its own,
\* and none before it runs.
Local(j) ==
  /\ request' = request /\ apart' = apart
  /\ \E place \in Places : pc' = [pc EXCEPT ![j] = place]
  /\ program' = program \/ \E x \in Programs : program' = [program EXCEPT ![j] = x]
  /\ doomed' = doomed \/ \E q : doomed' = [doomed EXCEPT ![j] = q]
  /\ built' = built \/ \E b \in BOOLEAN : built' = [built EXCEPT ![j] = b]
  /\ \/ files' = files
     \/ /\ Running(j)
        /\ \E p \in Touched(j) : \E f : KnownFile(f) /\ files' = [files EXCEPT ![p] = f]

\* The rest of a job's state and of the files is as before.
Frame(j) ==
  /\ request' = request /\ apart' = apart
  /\ \A k \in Jobs \ {j} :
       pc'[k] = pc[k] /\ program'[k] = program[k] /\ doomed'[k] = doomed[k] /\ built'[k] = built[k]
  /\ DOMAIN files' = DOMAIN files
  /\ \A p \in DOMAIN files \ Touched(j) : files'[p] = files[p]
  /\ ~Running(j) => files' = files

LEMMA LocalFrame ==
  ASSUME TypeInv, NEW j \in Jobs, Local(j)
  PROVE  /\ Frame(j)
         /\ ControlInv(j)' => TypeInv'
<1>1. /\ request' = request /\ apart' = apart /\ DOMAIN files' = DOMAIN files
      /\ pc' \in [Jobs -> Places] /\ program' \in [Jobs -> Programs \cup {NoFile}]
      /\ built' \in [Jobs -> BOOLEAN] /\ DOMAIN doomed' = Jobs
  BY DEF TypeInv, Local
<1>2. \A k \in Jobs \ {j} :
        pc'[k] = pc[k] /\ program'[k] = program[k] /\ doomed'[k] = doomed[k] /\ built'[k] = built[k]
  BY DEF TypeInv, Local
<1>3. /\ \A p \in DOMAIN files \ Touched(j) : files'[p] = files[p]
      /\ ~Running(j) => files' = files
  BY DEF Local
<1>4. \A p \in DOMAIN files' : KnownFile(files'[p])
  BY DEF Local, TypeInv
<1>5. Frame(j)
  BY <1>1, <1>2, <1>3 DEF Frame
<1>6. ASSUME ControlInv(j)' PROVE TypeInv'
  <2>1. ASSUME NEW k \in Jobs PROVE ControlInv(k)'
    <3>1. CASE k = j
      BY <1>6, <3>1
    <3>2. CASE k # j
      <4>1. ControlInv(k) /\ k \in Jobs \ {j}
        BY <3>2 DEF TypeInv
      <4> QED
        BY <4>1, <1>1, <1>2 DEF ControlInv, Generated, IsNew, IsCheck, IsAot, UsesLLVM, Root
    <3> QED
      BY <3>1, <3>2
  <2>2. \A p \in DOMAIN files' : KnownFile(files[p])'
    BY <1>4 DEF KnownFile
  <2>3. request' \in [Jobs -> Requests] /\ apart' \in Users
    BY <1>1 DEF TypeInv
  <2>4. \A k \in Jobs, r \in Requests :
          TouchedOf(k, r) \cup ({r.path} \ {NoPath}) \subseteq DOMAIN files'
    BY <1>1 DEF TypeInv
  <2> QED
    BY <2>1, <2>2, <2>3, <2>4, <1>1 DEF TypeInv
<1> QED
  BY <1>5, <1>6

\* What CheckFacts says of a job's own command line.
LEMMA CheckJobFacts ==
  ASSUME TypeInv, NEW j \in Jobs, IsCheck(j)
  PROVE  /\ Touched(j) = ToSet(Generated(j)) \cup {Output(j)} /\ Output(j) \notin ToSet(Generated(j))
         /\ ProgramPath(j) \in ToSet(Generated(j)) /\ CompilerInput(j) \in ToSet(Generated(j))
         /\ Generated(j) \in Seq(ToSet(Generated(j)))
         /\ <<ProgramPath(j)>> \in Seq(ToSet(Generated(j)))
         /\ ToSet(<<ProgramPath(j)>>) = {ProgramPath(j)}
         /\ ~IsAot(j) \/ UsesLLVM(j) =>
              /\ Generated(j) = <<ProgramPath(j)>> /\ CompilerInput(j) = ProgramPath(j)
              /\ ToSet(Generated(j)) = {ProgramPath(j)}
         /\ IsAot(j) /\ ~UsesLLVM(j) =>
              LET w == WrapperPath(Output(j))
                  m == MergePath(Output(j))
              IN /\ ToSet(Generated(j)) = {ProgramPath(j), w, m} /\ CompilerInput(j) = m
                 /\ ProgramPath(j) # w /\ ProgramPath(j) # m /\ w # m
                 /\ <<ProgramPath(j), w>> \in Seq(ToSet(Generated(j)))
                 /\ ToSet(<<ProgramPath(j), w>>) = {ProgramPath(j), w}
<1> DEFINE r == request[j]
<1>1. r \in Requests /\ r.tool = "check"
  BY DEF TypeInv, IsCheck
<1>2. /\ Touched(j) = TouchedOf(j, r) /\ Output(j) = OutputOf(j, r)
      /\ ProgramPath(j) = ProgramOf(j, r) /\ Generated(j) = GeneratedOf(j, r)
      /\ CompilerInput(j) = Last(GeneratedOf(j, r))
      /\ IsAot(j) <=> r.aot # NoPath
      /\ UsesLLVM(j) <=> r.backend = "llvm"
  BY DEF Touched, Output, ProgramPath, Generated, CompilerInput, IsAot, UsesLLVM
<1> HIDE DEF r
<1>3. /\ ToSet(<<ProgramPath(j)>>) = {ProgramPath(j)}
      /\ ToSet(<<ProgramPath(j), WrapperPath(Output(j))>>) = {ProgramPath(j), WrapperPath(Output(j))}
  BY TupleElements
<1> QED
  BY <1>1, <1>2, <1>3, CheckFacts

\* The same without the sequences.
LEMMA CheckPaths ==
  ASSUME TypeInv, NEW j \in Jobs, IsCheck(j)
  PROVE  /\ {ProgramPath(j), Output(j), CompilerInput(j)} \subseteq Touched(j)
         /\ ProgramPath(j) # Output(j) /\ CompilerInput(j) # Output(j)
         /\ Output(j) \notin ToSet(Generated(j))
         /\ ~IsAot(j) \/ UsesLLVM(j) => CompilerInput(j) = ProgramPath(j)
         /\ IsAot(j) /\ ~UsesLLVM(j) =>
              LET w == WrapperPath(Output(j))
                  m == MergePath(Output(j))
              IN /\ {w, m} \subseteq Touched(j) /\ CompilerInput(j) = m
                 /\ ProgramPath(j) # w /\ ProgramPath(j) # m /\ w # m
BY CheckJobFacts

\* The paths of a project are on the disk.
LEMMA NewJobFacts ==
  ASSUME TypeInv, NEW j \in Jobs, IsNew(j), Root(j) # NoPath
  PROVE  /\ Touched(j) = Project(Root(j)) /\ Touched(j) \subseteq DOMAIN files
         /\ IsPath(Root(j)) /\ request[j].module \in Programs
         /\ Manifest(Root(j)) \notin {Root(j), SrcDir(Root(j)), MainModule(Root(j))}
         /\ MainModule(Root(j)) \notin {Root(j), SrcDir(Root(j))}
<1> DEFINE r == request[j]
<1>1. r \in Requests /\ r.tool = "new" /\ r.path # NoPath /\ Root(j) = r.path
      /\ Touched(j) = TouchedOf(j, r)
  BY DEF TypeInv, IsNew, Root, Touched
<1> HIDE DEF r
<1>2. Touched(j) = Project(Root(j)) /\ Touched(j) \subseteq DOMAIN files
  BY <1>1 DEF TouchedOf, TypeInv
<1>3. IsPath(r.path) /\ r.module \in Programs
  BY <1>1, PathsAssumption, ProjectAssumption
<1> QED
  BY <1>1, <1>2, <1>3, ProjectFacts DEF r

\* What the steps put into files is known.
LEMMA TextsKnown ==
  /\ KnownFile(NoFile) /\ KnownFile(Directory)
  /\ \A x : /\ KnownFile(Content("text", x)) /\ KnownFile(Content("binary", x))
            /\ KnownFile(Content("toml", x))
BY DEF KnownFile, Directory, Content

LEMMA WriteIsKnown ==
  ASSUME NEW j, NEW path, NEW text, Write(j, path, text)
  PROVE  files' = files \/ \E f : KnownFile(f) /\ files' = [files EXCEPT ![path] = f]
<1>1. ASSUME NEW t, Put(path, t)
      PROVE  \E f : KnownFile(f) /\ files' = [files EXCEPT ![path] = f]
  <2>1. CASE files[path] = NoFile
    <3>1. files' = [files EXCEPT ![path] = NoFile]
      BY <1>1, <2>1 DEF Put
    <3> QED
      BY <3>1, TextsKnown
  <2>2. CASE files[path] # NoFile
    <3>1. files' = [files EXCEPT ![path] = Content("text", t)]
      BY <1>1, <2>2 DEF Put
    <3> QED
      BY <3>1, TextsKnown
  <2> QED
    BY <2>1, <2>2
<1> QED
  BY <1>1 DEF Write

\* What nova-new does to a path on the disk.
LEMMA KnownStays ==
  ASSUME TypeInv, NEW path \in DOMAIN files, NEW f, KnownFile(f)
  PROVE  \A c \in BOOLEAN :
           LET g == IF c THEN f ELSE files[path]
           IN KnownFile(g)
BY DEF TypeInv

LEMMA ModuleKnown ==
  ASSUME TypeInv, NEW j \in Jobs, IsNew(j), Root(j) # NoPath
  PROVE  KnownFile(ModuleText(j)) /\ KnownFile(Content("nova", <<>>))
<1>1. request[j].module \in Programs
  BY NewJobFacts
<1>2. ModuleText(j).pieces[1].name = request[j].module
  BY DEF ModuleText, Content, Functions
<1> QED
  BY <1>1, <1>2 DEF KnownFile, ModuleText, Content

\* Every step of a job is local and leaves it where its control flow allows.
LEMMA StepIsLocal ==
  ASSUME TypeInv, NEW j \in Jobs, Step(j) \/ Kill(j)
  PROVE  Local(j) /\ ControlInv(j)'
<1> USE DEF At, Goto, Fails
<1>1. /\ ControlInv(j) /\ j \in DOMAIN doomed /\ pc \in [Jobs -> Places]
      /\ program \in [Jobs -> Programs \cup {NoFile}] /\ built \in [Jobs -> BOOLEAN]
      /\ request[j] \in Requests
  BY DEF TypeInv
<1>2. (IsNew(j) => ~IsCheck(j)) /\ (IsNew(j) \/ IsCheck(j))
  BY <1>1, PathsAssumption DEF IsNew, IsCheck
<1>3. CASE Start(j)
  <2>1. Local(j)
    BY <1>1, <1>3 DEF Start, Local, Places
  <2>2. ControlInv(j)'
    BY <1>1, <1>2, <1>3 DEF Start, ControlInv, NewPlaces, CheckPlaces, AotCPlaces, IsNew,
       IsCheck, IsAot, UsesLLVM, Root, Generated
  <2> QED
    BY <2>1, <2>2
<1>4. CASE Read(j)
  <2>1. files[request[j].path] # NoFile /\ files[request[j].path].kind = "nova"
          /\ files[request[j].path].pieces # <<>>
        => files[request[j].path].pieces[1].name \in Programs
    <3>1. request[j].path \in DOMAIN files
      BY <1>1, <1>4 DEF Read, ControlInv, CheckPlaces, TypeInv, Root
    <3> QED
      BY <3>1 DEF TypeInv, KnownFile
  <2>2. Local(j)
    BY <1>1, <1>4, <2>1 DEF Read, Local, Places
  <2>3. ControlInv(j)'
    BY <1>1, <1>2, <1>4 DEF Read, ControlInv, NewPlaces, CheckPlaces, AotCPlaces, IsNew,
       IsCheck, IsAot, UsesLLVM, Root, Generated
  <2> QED
    BY <2>2, <2>3
<1>5. CASE Analyze(j)
  <2>1. Local(j)
    BY <1>1, <1>5 DEF Analyze, Local, Places
  <2>2. ControlInv(j)'
    BY <1>1, <1>2, <1>5 DEF Analyze, ControlInv, NewPlaces, CheckPlaces, AotCPlaces, IsNew,
       IsCheck, IsAot, UsesLLVM, Root, Generated
  <2> QED
    BY <2>1, <2>2
<1>6. CASE Lower(j)
  <2>1. Local(j)
    BY <1>1, <1>6 DEF Lower, Local, Places
  <2>2. ControlInv(j)'
    BY <1>1, <1>2, <1>6 DEF Lower, ControlInv, NewPlaces, CheckPlaces, AotCPlaces, IsNew,
       IsCheck, IsAot, UsesLLVM, Root, Generated
  <2> QED
    BY <2>1, <2>2
<1>7. CASE Kill(j)
  <2>1. Local(j)
    BY <1>1, <1>7 DEF Kill, Local, Places
  <2>2. ControlInv(j)'
    BY <1>1, <1>2, <1>7 DEF Kill, ControlInv, NewPlaces, CheckPlaces, AotCPlaces, IsNew,
       IsCheck, IsAot, UsesLLVM, Root, Generated
  <2> QED
    BY <2>1, <2>2
<1>8. CASE Report(j)
  <2>1. Local(j)
    BY <1>1, <1>8 DEF Report, Local, Places
  <2>2. ControlInv(j)'
    BY <1>1, <1>2, <1>8 DEF Report, ControlInv, NewPlaces, CheckPlaces, AotCPlaces, IsNew,
       IsCheck, IsAot, UsesLLVM, Root, Generated
  <2> QED
    BY <2>1, <2>2
<1>9. CASE OpenProgram(j)
  <2>1. IsCheck(j) /\ Running(j) /\ pc[j] \in CheckPlaces
    BY <1>1, <1>9 DEF OpenProgram, ControlInv, CheckPlaces, AotCPlaces, Running
  <2>2. \/ files' = files
        \/ \E p \in Touched(j) : \E f : KnownFile(f) /\ files' = [files EXCEPT ![p] = f]
    BY <1>1, <1>9, <2>1, CheckJobFacts, TextsKnown DEF OpenProgram, Truncate
  <2>3. Local(j)
    BY <1>1, <1>9, <2>1, <2>2 DEF OpenProgram, CleanUp, Local, Places
  <2>4. ControlInv(j)'
    BY <1>1, <1>2, <1>9, <2>1, CheckJobFacts DEF OpenProgram, CleanUp, ControlInv, NewPlaces,
       CheckPlaces, AotCPlaces, IsNew, IsCheck, IsAot, UsesLLVM, Root, Generated, ProgramPath, Output
  <2> QED
    BY <2>3, <2>4
<1>10. CASE WriteProgram(j)
  <2>1. IsCheck(j) /\ Running(j) /\ pc[j] \in CheckPlaces
    BY <1>1, <1>10 DEF WriteProgram, ControlInv, CheckPlaces, AotCPlaces, Running
  <2>2. \/ files' = files
        \/ \E p \in Touched(j) : \E f : KnownFile(f) /\ files' = [files EXCEPT ![p] = f]
    BY <1>1, <1>10, <2>1, CheckJobFacts, TextsKnown, WriteIsKnown DEF WriteProgram
  <2>3. Local(j)
    BY <1>1, <1>10, <2>1, <2>2 DEF WriteProgram, CleanUp, Local, Places
  <2>4. ControlInv(j)'
    <3>1. /\ pc'[j] \in {"compile", "append main", "open wrapper", "clean"}
          /\ pc'[j] = "append main" => IsAot(j) /\ UsesLLVM(j)
          /\ pc'[j] = "open wrapper" => IsAot(j) /\ ~UsesLLVM(j)
      BY <1>1, <1>10 DEF WriteProgram, CleanUp
    <3>2. doomed'[j] \in {doomed[j], <<ProgramPath(j)>>}
      BY <1>1, <1>10 DEF WriteProgram, CleanUp
    <3>3. doomed'[j] \in Seq(ToSet(Generated(j)))
      BY <1>1, <2>1, <3>2, CheckJobFacts DEF ControlInv
    <3>4. request' = request /\ ~IsNew(j) /\ IsCheck(j) /\ Root(j) # NoPath
      BY <1>1, <1>2, <1>10, <2>1 DEF WriteProgram, ControlInv
    <3>5. /\ pc'[j] \notin NewPlaces \cup {"ok", "exit 0"}
          /\ pc'[j] \in AotCPlaces => pc'[j] = "open wrapper"
      BY <3>1 DEF NewPlaces, AotCPlaces
    <3> QED
      BY <3>1, <3>3, <3>4, <3>5 DEF ControlInv, IsNew, IsCheck, IsAot, UsesLLVM, Root, Generated
  <2> QED
    BY <2>3, <2>4
<1>11. CASE AppendMain(j)
  <2>1. IsCheck(j) /\ Running(j) /\ pc[j] \in CheckPlaces
    BY <1>1, <1>11 DEF AppendMain, ControlInv, CheckPlaces, AotCPlaces, Running
  <2>2. \/ files' = files
        \/ \E p \in Touched(j) : \E f : KnownFile(f) /\ files' = [files EXCEPT ![p] = f]
    BY <1>1, <1>11, <2>1, CheckJobFacts, TextsKnown DEF AppendMain
  <2>3. Local(j)
    BY <1>1, <1>11, <2>1, <2>2 DEF AppendMain, CleanUp, Local, Places
  <2>4. ControlInv(j)'
    BY <1>1, <1>2, <1>11, <2>1, CheckJobFacts DEF AppendMain, CleanUp, ControlInv, NewPlaces,
       CheckPlaces, AotCPlaces, IsNew, IsCheck, IsAot, UsesLLVM, Root, Generated, ProgramPath, Output
  <2> QED
    BY <2>3, <2>4
<1>12. CASE OpenWrapper(j)
  <2>1. IsCheck(j) /\ Running(j) /\ pc[j] \in CheckPlaces
    BY <1>1, <1>12 DEF OpenWrapper, ControlInv, CheckPlaces, AotCPlaces, Running
  <2>2. \/ files' = files
        \/ \E p \in Touched(j) : \E f : KnownFile(f) /\ files' = [files EXCEPT ![p] = f]
    BY <1>1, <1>12, <2>1, CheckJobFacts, TextsKnown DEF OpenWrapper, Truncate, ControlInv, AotCPlaces
  <2>3. Local(j)
    BY <1>1, <1>12, <2>1, <2>2 DEF OpenWrapper, CleanUp, Local, Places
  <2>4. ControlInv(j)'
    BY <1>1, <1>2, <1>12, <2>1, CheckJobFacts DEF OpenWrapper, CleanUp, ControlInv, NewPlaces,
       CheckPlaces, AotCPlaces, IsNew, IsCheck, IsAot, UsesLLVM, Root, Generated, ProgramPath, Output
  <2> QED
    BY <2>3, <2>4
<1>13. CASE WriteWrapper(j)
  <2>1. IsCheck(j) /\ Running(j) /\ pc[j] \in CheckPlaces
    BY <1>1, <1>13 DEF WriteWrapper, ControlInv, CheckPlaces, AotCPlaces, Running
  <2>2. \/ files' = files
        \/ \E p \in Touched(j) : \E f : KnownFile(f) /\ files' = [files EXCEPT ![p] = f]
    BY <1>1, <1>13, <2>1, CheckJobFacts, TextsKnown, WriteIsKnown DEF WriteWrapper, ControlInv, AotCPlaces
  <2>3. Local(j)
    BY <1>1, <1>13, <2>1, <2>2 DEF WriteWrapper, CleanUp, Local, Places
  <2>4. ControlInv(j)'
    BY <1>1, <1>2, <1>13, <2>1, CheckJobFacts DEF WriteWrapper, CleanUp, ControlInv, NewPlaces,
       CheckPlaces, AotCPlaces, IsNew, IsCheck, IsAot, UsesLLVM, Root, Generated, ProgramPath, Output
  <2> QED
    BY <2>3, <2>4
<1>14. CASE OpenMerged(j)
  <2>1. IsCheck(j) /\ Running(j) /\ pc[j] \in CheckPlaces
    BY <1>1, <1>14 DEF OpenMerged, ControlInv, CheckPlaces, AotCPlaces, Running
  <2>2. \/ files' = files
        \/ \E p \in Touched(j) : \E f : KnownFile(f) /\ files' = [files EXCEPT ![p] = f]
    BY <1>1, <1>14, <2>1, CheckJobFacts, TextsKnown DEF OpenMerged, Truncate, ControlInv, AotCPlaces
  <2>3. Local(j)
    BY <1>1, <1>14, <2>1, <2>2 DEF OpenMerged, CleanUp, Local, Places
  <2>4. ControlInv(j)'
    BY <1>1, <1>2, <1>14, <2>1, CheckJobFacts DEF OpenMerged, CleanUp, ControlInv, NewPlaces,
       CheckPlaces, AotCPlaces, IsNew, IsCheck, IsAot, UsesLLVM, Root, Generated, ProgramPath, Output
  <2> QED
    BY <2>3, <2>4
<1>15. CASE Merge(j)
  <2>1. IsCheck(j) /\ Running(j) /\ pc[j] \in CheckPlaces
    BY <1>1, <1>15 DEF Merge, ControlInv, CheckPlaces, AotCPlaces, Running
  <2>2. \/ files' = files
        \/ \E p \in Touched(j) : \E f : KnownFile(f) /\ files' = [files EXCEPT ![p] = f]
    BY <1>1, <1>15, <2>1, CheckJobFacts, TextsKnown, WriteIsKnown DEF Merge, ControlInv, AotCPlaces
  <2>3. Local(j)
    BY <1>1, <1>15, <2>1, <2>2 DEF Merge, CleanUp, Local, Places
  <2>4. ControlInv(j)'
    BY <1>1, <1>2, <1>15, <2>1, CheckJobFacts DEF Merge, CleanUp, ControlInv, NewPlaces,
       CheckPlaces, AotCPlaces, IsNew, IsCheck, IsAot, UsesLLVM, Root, Generated, ProgramPath, Output
  <2> QED
    BY <2>3, <2>4
<1>16. CASE Compile(j)
  <2>1. IsCheck(j) /\ Running(j) /\ pc[j] \in CheckPlaces
    BY <1>1, <1>16 DEF Compile, ControlInv, CheckPlaces, AotCPlaces, Running
  <2>2. \/ files' = files
        \/ \E p \in Touched(j) : \E f : KnownFile(f) /\ files' = [files EXCEPT ![p] = f]
    BY <1>1, <1>16, <2>1, CheckJobFacts, TextsKnown DEF Compile
  <2>3. Local(j)
    BY <1>1, <1>16, <2>1, <2>2 DEF Compile, CleanUp, Local, Places
  <2>4. ControlInv(j)'
    BY <1>1, <1>2, <1>16, <2>1, CheckJobFacts DEF Compile, CleanUp, ControlInv, NewPlaces,
       CheckPlaces, AotCPlaces, IsNew, IsCheck, IsAot, UsesLLVM, Root, Generated, ProgramPath, Output
  <2> QED
    BY <2>3, <2>4
<1>17. CASE RemoveFile(j)
  <2>1. IsCheck(j) /\ Running(j) /\ pc[j] \in CheckPlaces
    BY <1>1, <1>17 DEF RemoveFile, ControlInv, CheckPlaces, AotCPlaces, Running
  <2>5. /\ Head(doomed[j]) \in ToSet(Generated(j)) /\ Tail(doomed[j]) \in Seq(ToSet(Generated(j)))
    <3> DEFINE S == ToSet(Generated(j))
               q == doomed[j]
    <3>1. q \in Seq(S) /\ q # <<>>
      BY <1>1, <1>17 DEF RemoveFile, ControlInv
    <3> HIDE DEF S, q
    <3>2. Tail(q) \in Seq(S) /\ Head(q) \in S
      BY <3>1, QueueFacts
    <3> QED
      BY <3>2 DEF S, q
  <2>2. \/ files' = files
        \/ \E p \in Touched(j) : \E f : KnownFile(f) /\ files' = [files EXCEPT ![p] = f]
    BY <1>1, <1>17, <2>1, CheckJobFacts, TextsKnown, <2>5 DEF RemoveFile
  <2>3. Local(j)
    <3>1. /\ UNCHANGED <<request, pc, program, built, apart>>
          /\ doomed' = [doomed EXCEPT ![j] = Tail(doomed[j])]
      BY <1>17 DEF RemoveFile
    <3>2. pc' = [pc EXCEPT ![j] = pc[j]] /\ pc[j] \in Places
      BY <1>1, <3>1 DEF TypeInv
    <3> QED
      BY <2>1, <2>2, <3>1, <3>2 DEF Local
  <2>4. ControlInv(j)'
    BY <1>1, <1>2, <1>17, <2>1, CheckJobFacts, <2>5 DEF RemoveFile, CleanUp, ControlInv, NewPlaces,
       CheckPlaces, AotCPlaces, IsNew, IsCheck, IsAot, UsesLLVM, Root, Generated, ProgramPath, Output
  <2> QED
    BY <2>3, <2>4
<1>18. CASE Finish(j)
  <2>1. IsCheck(j) /\ Running(j) /\ pc[j] \in CheckPlaces
    BY <1>1, <1>18 DEF Finish, ControlInv, CheckPlaces, AotCPlaces, Running
  <2>2. \/ files' = files
        \/ \E p \in Touched(j) : \E f : KnownFile(f) /\ files' = [files EXCEPT ![p] = f]
    BY <1>1, <1>18, <2>1, CheckJobFacts, TextsKnown DEF Finish
  <2>3. Local(j)
    BY <1>1, <1>18, <2>1, <2>2 DEF Finish, CleanUp, Local, Places
  <2>4. ControlInv(j)'
    BY <1>1, <1>2, <1>18, <2>1, CheckJobFacts DEF Finish, CleanUp, ControlInv, NewPlaces,
       CheckPlaces, AotCPlaces, IsNew, IsCheck, IsAot, UsesLLVM, Root, Generated, ProgramPath, Output
  <2> QED
    BY <2>3, <2>4
<1>19. CASE MakeRoot(j)
  <2>1. IsNew(j) /\ Root(j) # NoPath /\ Running(j) /\ pc[j] \in NewPlaces
    BY <1>1, <1>19 DEF MakeRoot, ControlInv, NewPlaces, Running
  <2>2. \/ files' = files
        \/ \E p \in Touched(j) : \E f : KnownFile(f) /\ files' = [files EXCEPT ![p] = f]
    BY <1>19, <2>1, NewJobFacts, TextsKnown, KnownStays, ModuleKnown DEF MakeRoot, MakeDirectory, Project
  <2>3. Local(j)
    BY <1>1, <1>19, <2>1, <2>2 DEF MakeRoot, Local, Places
  <2>4. ControlInv(j)'
    BY <1>1, <1>2, <1>19, <2>1 DEF MakeRoot, ControlInv, NewPlaces, CheckPlaces, AotCPlaces, IsNew,
       IsCheck, IsAot, UsesLLVM, Root, Generated
  <2> QED
    BY <2>3, <2>4
<1>20. CASE MakeSrc(j)
  <2>1. IsNew(j) /\ Root(j) # NoPath /\ Running(j) /\ pc[j] \in NewPlaces
    BY <1>1, <1>20 DEF MakeSrc, ControlInv, NewPlaces, Running
  <2>2. \/ files' = files
        \/ \E p \in Touched(j) : \E f : KnownFile(f) /\ files' = [files EXCEPT ![p] = f]
    BY <1>20, <2>1, NewJobFacts, TextsKnown, KnownStays, ModuleKnown DEF MakeSrc, MakeDirectory, Project
  <2>3. Local(j)
    BY <1>1, <1>20, <2>1, <2>2 DEF MakeSrc, Local, Places
  <2>4. ControlInv(j)'
    BY <1>1, <1>2, <1>20, <2>1 DEF MakeSrc, ControlInv, NewPlaces, CheckPlaces, AotCPlaces, IsNew,
       IsCheck, IsAot, UsesLLVM, Root, Generated
  <2> QED
    BY <2>3, <2>4
<1>21. CASE OpenManifest(j)
  <2>1. IsNew(j) /\ Root(j) # NoPath /\ Running(j) /\ pc[j] \in NewPlaces
    BY <1>1, <1>21 DEF OpenManifest, ControlInv, NewPlaces, Running
  <2>2. \/ files' = files
        \/ \E p \in Touched(j) : \E f : KnownFile(f) /\ files' = [files EXCEPT ![p] = f]
    BY <1>21, <2>1, NewJobFacts, TextsKnown, KnownStays, ModuleKnown DEF OpenManifest, OpenForNew, Project
  <2>3. Local(j)
    BY <1>1, <1>21, <2>1, <2>2 DEF OpenManifest, Local, Places
  <2>4. ControlInv(j)'
    BY <1>1, <1>2, <1>21, <2>1 DEF OpenManifest, ControlInv, NewPlaces, CheckPlaces, AotCPlaces, IsNew,
       IsCheck, IsAot, UsesLLVM, Root, Generated
  <2> QED
    BY <2>3, <2>4
<1>22. CASE WriteManifest(j)
  <2>1. IsNew(j) /\ Root(j) # NoPath /\ Running(j) /\ pc[j] \in NewPlaces
    BY <1>1, <1>22 DEF WriteManifest, ControlInv, NewPlaces, Running
  <2>2. \/ files' = files
        \/ \E p \in Touched(j) : \E f : KnownFile(f) /\ files' = [files EXCEPT ![p] = f]
    BY <1>22, <2>1, NewJobFacts, TextsKnown, KnownStays, ModuleKnown DEF WriteManifest, PutNew, TomlText, Project
  <2>3. Local(j)
    BY <1>1, <1>22, <2>1, <2>2 DEF WriteManifest, Local, Places
  <2>4. ControlInv(j)'
    BY <1>1, <1>2, <1>22, <2>1 DEF WriteManifest, ControlInv, NewPlaces, CheckPlaces, AotCPlaces, IsNew,
       IsCheck, IsAot, UsesLLVM, Root, Generated
  <2> QED
    BY <2>3, <2>4
<1>23. CASE OpenModule(j)
  <2>1. IsNew(j) /\ Root(j) # NoPath /\ Running(j) /\ pc[j] \in NewPlaces
    BY <1>1, <1>23 DEF OpenModule, ControlInv, NewPlaces, Running
  <2>2. \/ files' = files
        \/ \E p \in Touched(j) : \E f : KnownFile(f) /\ files' = [files EXCEPT ![p] = f]
    BY <1>23, <2>1, NewJobFacts, TextsKnown, KnownStays, ModuleKnown DEF OpenModule, OpenForNew, Project
  <2>3. Local(j)
    BY <1>1, <1>23, <2>1, <2>2 DEF OpenModule, Local, Places
  <2>4. ControlInv(j)'
    BY <1>1, <1>2, <1>23, <2>1 DEF OpenModule, ControlInv, NewPlaces, CheckPlaces, AotCPlaces, IsNew,
       IsCheck, IsAot, UsesLLVM, Root, Generated
  <2> QED
    BY <2>3, <2>4
<1>24. CASE WriteModule(j)
  <2>1. IsNew(j) /\ Root(j) # NoPath /\ Running(j) /\ pc[j] \in NewPlaces
    BY <1>1, <1>24 DEF WriteModule, ControlInv, NewPlaces, Running
  <2>2. \/ files' = files
        \/ \E p \in Touched(j) : \E f : KnownFile(f) /\ files' = [files EXCEPT ![p] = f]
    BY <1>24, <2>1, NewJobFacts, TextsKnown, KnownStays, ModuleKnown DEF WriteModule, PutNew, Project
  <2>3. Local(j)
    BY <1>1, <1>24, <2>1, <2>2 DEF WriteModule, Local, Places
  <2>4. ControlInv(j)'
    BY <1>1, <1>2, <1>24, <2>1 DEF WriteModule, ControlInv, NewPlaces, CheckPlaces, AotCPlaces, IsNew,
       IsCheck, IsAot, UsesLLVM, Root, Generated
  <2> QED
    BY <2>3, <2>4
<1> QED
  BY <1>3, <1>4, <1>5, <1>6, <1>7, <1>8, <1>9, <1>10, <1>11, <1>12, <1>13, <1>14, <1>15, <1>16,
     <1>17, <1>18, <1>19, <1>20, <1>21, <1>22, <1>23, <1>24 DEF Step

LEMMA InitTypes == Init => TypeInv
<1> SUFFICES ASSUME Init PROVE TypeInv
  OBVIOUS
<1>1. files \in Disks /\ request \in [Jobs -> Requests] /\ apart \in Users
  BY DEF Init
<1>2. \A p \in DOMAIN files : KnownFile(files[p])
  BY <1>1, DisksAssumption DEF KnownFile
<1>3. \A j \in Jobs, r \in Requests :
        TouchedOf(j, r) \cup ({r.path} \ {NoPath}) \subseteq DOMAIN files
  BY <1>1, PathsAssumption
<1>4. \A j \in Jobs : ControlInv(j)
  BY DEF Init, ControlInv, NewPlaces, CheckPlaces, AotCPlaces
<1> QED
  BY <1>1, <1>2, <1>3, <1>4 DEF Init, TypeInv, Places

LEMMA StepTypes ==
  ASSUME TypeInv, [Next]_vars
  PROVE  TypeInv'
<1>1. CASE Next
  <2>1. PICK j \in Jobs : Step(j) \/ Kill(j)
    BY <1>1 DEF Next
  <2> QED
    BY <2>1, StepIsLocal, LocalFrame
<1>2. CASE UNCHANGED vars
  BY <1>2 DEF vars, TypeInv, KnownFile, ControlInv, Generated, IsNew, IsCheck, IsAot, UsesLLVM, Root
<1> QED
  BY <1>1, <1>2

LEMMA Types == Spec => []TypeInv
BY InitTypes, StepTypes, PTL DEF Spec

\* The types hold, only files of the job's own are up for removal, and a run of
\* nova-check reports success only if its code generator succeeded or was
\* skipped: the return paths of main and of the code generator's driver.
THEOREM TypeCorrect == Spec => []TypeOK
<1>1. TypeInv => TypeOK
  <2> SUFFICES ASSUME TypeInv PROVE TypeOK
    OBVIOUS
  <2>1. \A p \in DOMAIN files :
          files[p] = NoFile \/ files[p].kind \in {"nova", "text", "binary", "dir", "toml"}
    BY DEF TypeInv, KnownFile
  <2>2. ASSUME NEW j \in Jobs
        PROVE  /\ ToSet(doomed[j]) \subseteq ToSet(Generated(j))
               /\ IsCheck(j) /\ pc[j] \in {"ok", "exit 0"} => built[j] \/ request[j].skip
    <3>1. ControlInv(j)
      BY DEF TypeInv
    <3>2. ToSet(doomed[j]) \subseteq ToSet(Generated(j))
      <4> DEFINE S == ToSet(Generated(j))
                 q == doomed[j]
      <4>1. q \in Seq(S)
        BY <3>1 DEF ControlInv
      <4> HIDE DEF S, q
      <4>2. ToSet(q) \subseteq S
        <5>1. CASE q = <<>>
          BY <5>1, TupleElements
        <5>2. CASE q # <<>>
          BY <4>1, <5>2, QueueFacts
        <5> QED
          BY <5>1, <5>2
      <4> QED
        BY <4>2 DEF S, q
    <3>3. IsCheck(j) /\ pc[j] \in {"ok", "exit 0"} => built[j] \/ request[j].skip
      BY <3>1 DEF ControlInv
    <3> QED
      BY <3>2, <3>3
  <2> QED
    BY <2>1, <2>2 DEF TypeInv, TypeOK
<1> QED
  BY <1>1, Types, PTL

-----------------------------------------------------------------------------
(* Nothing is left behind                                                  *)

IsText(f) == f # NoFile /\ f.kind = "text"

\* The sources a job will yet remove, unless it is killed.
Owes(j) ==
  {p \in ToSet(Generated(j)) :
     \/ /\ p = ProgramPath(j)
        /\ pc[j] \in {"write program", "append main", "open wrapper", "write wrapper", "open merged"}
     \/ p = WrapperPath(Output(j)) /\ pc[j] \in {"write wrapper", "open merged"}
     \/ pc[j] \in {"merge", "compile", "killed"}
     \/ pc[j] = "clean" /\ p \in ToSet(doomed[j])}

\* An object that was not asked for is there only between its compilation and
\* the end of the run.
ObjectInv(j) ==
  IsCheck(j) /\ ~IsAot(j) =>
    \/ files[Output(j)] = NoFile \/ pc[j] = "killed"
    \/ pc[j] \in {"clean", "ok"} /\ built[j]

LitterInv ==
  /\ \A p \in DOMAIN files : IsText(files[p]) => \E j \in Jobs : p \in Owes(j)
  /\ \A j \in Jobs : ObjectInv(j)

LEMMA OnlyTexts ==
  /\ ~IsText(NoFile) /\ ~IsText(Directory)
  /\ \A kind, x : kind # "text" => ~IsText(Content(kind, x))
BY DEF IsText, Directory, Content

LEMMA WriteOnly ==
  ASSUME NEW j, NEW path, NEW text, Write(j, path, text)
  PROVE  \A p \in DOMAIN files \ {path} : files'[p] = files[p]
BY DEF Write, Put

\* Before it compiles, and when it cleans up, a run changes only its sources.
LEMMA SourcesOnly ==
  ASSUME TypeInv, NEW j \in Jobs, IsCheck(j), Step(j) \/ Kill(j)
  PROVE  Compile(j) \/ Finish(j)
         \/ \A p \in DOMAIN files \ ToSet(Generated(j)) : files'[p] = files[p]
<1> USE DEF At
<1> DEFINE Kept == \A p \in DOMAIN files \ ToSet(Generated(j)) : files'[p] = files[p]
<1>1. ControlInv(j) /\ ~IsNew(j) /\ pc[j] \notin NewPlaces
  BY DEF TypeInv, ControlInv, IsCheck, IsNew
<1>2. CASE Start(j) \/ Read(j) \/ Analyze(j) \/ Lower(j) \/ Report(j) \/ Kill(j)
  BY <1>2 DEF Start, Read, Analyze, Lower, Report, Kill
<1>3. CASE OpenProgram(j)
  BY <1>3, CheckJobFacts DEF OpenProgram, Truncate
<1>4. CASE WriteProgram(j)
  BY <1>4, CheckJobFacts, WriteOnly DEF WriteProgram
<1>5. CASE AppendMain(j)
  BY <1>5, CheckJobFacts DEF AppendMain
<1>6. CASE OpenWrapper(j)
  BY <1>1, <1>6, CheckJobFacts DEF OpenWrapper, Truncate, ControlInv, AotCPlaces
<1>7. CASE WriteWrapper(j)
  BY <1>1, <1>7, CheckJobFacts, WriteOnly DEF WriteWrapper, ControlInv, AotCPlaces
<1>8. CASE OpenMerged(j)
  BY <1>1, <1>8, CheckJobFacts DEF OpenMerged, Truncate, ControlInv, AotCPlaces
<1>9. CASE Merge(j)
  BY <1>1, <1>9, CheckJobFacts, WriteOnly DEF Merge, ControlInv, AotCPlaces
<1>10. CASE RemoveFile(j)
  <2> DEFINE S == ToSet(Generated(j))
             q == doomed[j]
  <2>1. q \in Seq(S) /\ q # <<>>
    BY <1>1, <1>10 DEF RemoveFile, ControlInv
  <2> HIDE DEF S, q
  <2>2. Head(q) \in S
    BY <2>1, QueueFacts
  <2>3. Head(doomed[j]) \in ToSet(Generated(j))
    BY <2>2 DEF S, q
  <2> QED
    BY <2>3, <1>10 DEF RemoveFile
<1>11. CASE MakeRoot(j) \/ MakeSrc(j) \/ OpenManifest(j) \/ WriteManifest(j)
            \/ OpenModule(j) \/ WriteModule(j)
  BY <1>1, <1>11 DEF MakeRoot, MakeSrc, OpenManifest, WriteManifest, OpenModule, WriteModule, NewPlaces
<1> QED
  BY <1>2, <1>3, <1>4, <1>5, <1>6, <1>7, <1>8, <1>9, <1>10, <1>11 DEF Step

\* A step of nova-new makes no generated source.
LEMMA NewMakesNoText ==
  ASSUME TypeInv, NEW j \in Jobs, IsNew(j), Step(j) \/ Kill(j)
  PROVE  \A p \in DOMAIN files : IsText(files'[p]) => IsText(files[p])
<1> USE DEF At
<1>1. ControlInv(j) /\ ~IsCheck(j) /\ pc[j] \notin CheckPlaces
  BY DEF TypeInv, ControlInv, IsCheck, IsNew
<1>2. CASE Start(j) \/ Kill(j)
  BY <1>2 DEF Start, Kill
<1>3. CASE MakeRoot(j)
  BY <1>3, OnlyTexts DEF MakeRoot, MakeDirectory
<1>4. CASE MakeSrc(j)
  BY <1>4, OnlyTexts DEF MakeSrc, MakeDirectory
<1>5. CASE OpenManifest(j)
  <2>1. files' = files \/ files' = [files EXCEPT ![Manifest(Root(j))] = Content("toml", <<>>)]
    BY <1>5 DEF OpenManifest, OpenForNew
  <2> QED
    BY <2>1, OnlyTexts
<1>6. CASE WriteManifest(j)
  BY <1>6, OnlyTexts DEF WriteManifest, PutNew, TomlText
<1>7. CASE OpenModule(j)
  <2>1. files' = files \/ files' = [files EXCEPT ![MainModule(Root(j))] = Content("nova", <<>>)]
    BY <1>7 DEF OpenModule, OpenForNew
  <2> QED
    BY <2>1, OnlyTexts
<1>8. CASE WriteModule(j)
  BY <1>8, OnlyTexts DEF WriteModule, PutNew, ModuleText
<1>9. ASSUME ~(IsNew(j) /\ (Start(j) \/ Kill(j) \/ MakeRoot(j) \/ MakeSrc(j) \/ OpenManifest(j)
                 \/ WriteManifest(j) \/ OpenModule(j) \/ WriteModule(j)))
      PROVE FALSE
  BY <1>1, <1>9 DEF Step, CheckPlaces, AotCPlaces, Read, Analyze, Lower, OpenProgram, WriteProgram,
     AppendMain, OpenWrapper, WriteWrapper, OpenMerged, Merge, Compile, RemoveFile, Report, Finish
<1> QED
  BY <1>2, <1>3, <1>4, <1>5, <1>6, <1>7, <1>8, <1>9

\* A text that is there after a step of a run of nova-check is one that run owes
\* then, or was there before and not owed by the run.
LEMMA TextsOwed ==
  ASSUME TypeInv, NEW j \in Jobs, IsCheck(j), Step(j) \/ Kill(j)
  PROVE  \A p \in DOMAIN files :
           IsText(files'[p]) => p \in Owes(j)' \/ (IsText(files[p]) /\ p \notin Owes(j))
<1> USE DEF At
<1>0. /\ ControlInv(j) /\ ~IsNew(j) /\ pc[j] \notin NewPlaces /\ j \in DOMAIN doomed
      /\ pc \in [Jobs -> Places]
  BY DEF TypeInv, ControlInv, IsCheck, IsNew
<1>1. request' = request /\ Generated(j)' = Generated(j)
      /\ ProgramPath(j)' = ProgramPath(j) /\ Output(j)' = Output(j)
  BY StepIsLocal DEF Local, Generated, ProgramPath, Output
<1> DEFINE prog == ProgramPath(j)
           w == WrapperPath(Output(j))
           all == ToSet(Generated(j))
<1>a. Owes(j)' =
        {p \in all :
           \/ /\ p = prog
              /\ pc'[j] \in {"write program", "append main", "open wrapper", "write wrapper", "open merged"}
           \/ p = w /\ pc'[j] \in {"write wrapper", "open merged"}
           \/ pc'[j] \in {"merge", "compile", "killed"}
           \/ pc'[j] = "clean" /\ p \in ToSet(doomed'[j])}
  BY <1>1 DEF Owes, WrapperPath
<1>2. CASE Start(j)
  BY <1>0, <1>1, <1>2, CheckJobFacts, OnlyTexts DEF Start, Goto, CleanUp, ControlInv, AotCPlaces,
     Owes, Generated, ProgramPath, Output, IsAot, UsesLLVM
<1>3. CASE Read(j)
  BY <1>0, <1>1, <1>3, CheckJobFacts, OnlyTexts DEF Read, Goto, CleanUp, ControlInv, AotCPlaces,
     Owes, Generated, ProgramPath, Output, IsAot, UsesLLVM
<1>4. CASE Analyze(j)
  BY <1>0, <1>1, <1>4, CheckJobFacts, OnlyTexts DEF Analyze, Goto, CleanUp, ControlInv, AotCPlaces,
     Owes, Generated, ProgramPath, Output, IsAot, UsesLLVM
<1>5. CASE Lower(j)
  BY <1>0, <1>1, <1>5, CheckJobFacts, OnlyTexts DEF Lower, Goto, CleanUp, ControlInv, AotCPlaces,
     Owes, Generated, ProgramPath, Output, IsAot, UsesLLVM
<1>6. CASE Kill(j)
  BY <1>0, <1>1, <1>6, CheckJobFacts, OnlyTexts DEF Kill, Goto, CleanUp, ControlInv, AotCPlaces,
     Owes, Generated, ProgramPath, Output, IsAot, UsesLLVM
<1>7. CASE Report(j)
  BY <1>0, <1>1, <1>7, CheckJobFacts, OnlyTexts, TupleElements DEF Report, Goto, CleanUp, ControlInv, AotCPlaces,
     Owes, Generated, ProgramPath, Output, IsAot, UsesLLVM
<1>8. CASE OpenProgram(j)
  BY <1>0, <1>1, <1>8, CheckJobFacts, OnlyTexts DEF OpenProgram, Goto, CleanUp, ControlInv, AotCPlaces,
     Owes, Generated, ProgramPath, Output, IsAot, UsesLLVM, Truncate
<1>9. CASE WriteProgram(j)
  <2>1. prog \in all /\ ToSet(<<prog>>) = {prog} /\ (IsAot(j) /\ ~UsesLLVM(j) => w # prog)
    BY CheckJobFacts
  <2>2. \A p \in DOMAIN files \ {prog} : files'[p] = files[p]
    BY <1>9, WriteOnly DEF WriteProgram
  <2>3. \/ pc'[j] \in {"compile", "append main", "open wrapper"}
        \/ pc'[j] = "clean" /\ doomed'[j] = <<prog>>
    BY <1>0, <1>9 DEF WriteProgram, Goto, CleanUp
  <2>4. prog \in Owes(j)'
    BY <1>a, <2>1, <2>3
  <2>5. Owes(j) \subseteq {prog}
    BY <1>9 DEF WriteProgram, Owes
  <2> QED
    BY <2>2, <2>4, <2>5
<1>10. CASE AppendMain(j)
  BY <1>0, <1>1, <1>10, CheckJobFacts, OnlyTexts DEF AppendMain, Goto, CleanUp, ControlInv, AotCPlaces,
     Owes, Generated, ProgramPath, Output, IsAot, UsesLLVM
<1>11. CASE OpenWrapper(j)
  <2>1. prog \in all /\ w \in all /\ w \in all /\ ToSet(<<prog>>) = {prog}
    BY <1>0, <1>11, CheckJobFacts DEF OpenWrapper, ControlInv, AotCPlaces
  <2>2. Owes(j) = {prog}
    BY <2>1, <1>11 DEF OpenWrapper, Owes
  <2>3. \/ /\ pc'[j] = "write wrapper" /\ files' = [files EXCEPT ![w] = Content("text", <<>>)]
        \/ pc'[j] = "clean" /\ doomed'[j] = <<prog>> /\ files' = files
    BY <1>0, <1>11 DEF OpenWrapper, Goto, CleanUp, Truncate
  <2>4. Owes(j) \subseteq Owes(j)' /\ (files' # files => w \in Owes(j)')
    BY <2>1, <2>2, <2>3, <1>a
  <2> QED
    BY <2>3, <2>4
<1>12. CASE WriteWrapper(j)
  <2>1. prog \in all /\ w \in all
    BY <1>0, <1>12, CheckJobFacts DEF WriteWrapper, ControlInv, AotCPlaces
  <2>2. pc'[j] = "open merged" /\ \A p \in DOMAIN files \ {w} : files'[p] = files[p]
    BY <1>0, <1>12, WriteOnly DEF WriteWrapper, Goto
  <2>3. Owes(j)' = {prog, w}
    BY <2>1, <2>2, <1>a
  <2>4. Owes(j) \subseteq {prog, w}
    BY <1>12 DEF WriteWrapper, Owes
  <2> QED
    BY <2>2, <2>3, <2>4
<1>13. CASE OpenMerged(j)
  <2>1. prog \in all /\ w \in all /\ MergePath(Output(j)) \in all /\ ToSet(<<prog, w>>) = {prog, w}
    BY <1>0, <1>13, CheckJobFacts DEF OpenMerged, ControlInv, AotCPlaces
  <2>2. Owes(j) = {prog, w}
    BY <2>1, <1>13 DEF OpenMerged, Owes
  <2>3. \/ /\ pc'[j] = "merge" /\ files' = [files EXCEPT ![MergePath(Output(j))] = Content("text", <<>>)]
        \/ pc'[j] = "clean" /\ doomed'[j] = <<prog, w>> /\ files' = files
    BY <1>0, <1>13 DEF OpenMerged, Goto, CleanUp, Truncate
  <2>4. Owes(j) \subseteq Owes(j)' /\ (files' # files => MergePath(Output(j)) \in Owes(j)')
    BY <2>1, <2>2, <2>3, <1>a
  <2> QED
    BY <2>3, <2>4
<1>14. CASE Merge(j)
  <2> DEFINE m == MergePath(Output(j))
  <2>1. m \in all
    BY <1>0, <1>14, CheckJobFacts DEF Merge, ControlInv, AotCPlaces
  <2>2. \/ pc'[j] = "compile" /\ \A p \in DOMAIN files \ {m} : files'[p] = files[p]
        \/ pc'[j] = "clean" /\ doomed'[j] = Generated(j) /\ files' = files
    BY <1>0, <1>14, WriteOnly DEF Merge, Goto, CleanUp
  <2>3. Owes(j)' = all
    BY <2>2, <1>a
  <2>4. Owes(j) \subseteq all
    BY DEF Owes
  <2> QED
    BY <2>1, <2>2, <2>3, <2>4
<1>15. CASE Compile(j)
  <2>1. pc'[j] = "clean" /\ doomed'[j] = Generated(j)
    BY <1>0, <1>15 DEF Compile, Goto, CleanUp
  <2>2. Owes(j)' = all
    BY <2>1, <1>a
  <2>3. Owes(j) \subseteq all
    BY DEF Owes
  <2>4. \A p \in DOMAIN files : IsText(files'[p]) => IsText(files[p])
    <3>1. \/ files' = files \/ files' = [files EXCEPT ![Output(j)] = NoFile]
          \/ \E x : files' = [files EXCEPT ![Output(j)] = Content("binary", x)]
      BY <1>15, Zenon DEF Compile
    <3>2. \A x : ~IsText(Content("binary", x))
      BY OnlyTexts
    <3> QED
      BY <3>1, <3>2, OnlyTexts
  <2> QED
    BY <2>2, <2>3, <2>4
<1>16. CASE RemoveFile(j)
  <2> DEFINE S == ToSet(Generated(j))
             q == doomed[j]
  <2>1. q \in Seq(S) /\ q # <<>>
    BY <1>0, <1>16 DEF RemoveFile, ControlInv
  <2> HIDE DEF S, q
  <2>2. ToSet(q) = {Head(q)} \cup ToSet(Tail(q))
    BY <2>1, QueueFacts
  <2>3. ToSet(doomed[j]) = {Head(doomed[j])} \cup ToSet(doomed'[j])
    BY <2>2, <1>0, <1>16 DEF RemoveFile, q
  <2> QED
    BY <2>3, <1>0, <1>1, <1>16, OnlyTexts DEF RemoveFile, Owes
<1>17. CASE Finish(j)
  BY <1>0, <1>1, <1>17, CheckJobFacts, OnlyTexts DEF Finish, Goto, CleanUp, ControlInv, AotCPlaces,
     Owes, Generated, ProgramPath, Output, IsAot, UsesLLVM
<1>18. CASE MakeRoot(j) \/ MakeSrc(j) \/ OpenManifest(j) \/ WriteManifest(j)
            \/ OpenModule(j) \/ WriteModule(j)
  BY <1>0, <1>18 DEF MakeRoot, MakeSrc, OpenManifest, WriteManifest, OpenModule, WriteModule, NewPlaces
<1> QED
  BY <1>2, <1>3, <1>4, <1>5, <1>6, <1>7, <1>8, <1>9, <1>10, <1>11, <1>12, <1>13, <1>14, <1>15, <1>16,
     <1>17, <1>18 DEF Step

\* A step of a run keeps the rule about its own object.
LEMMA ObjectStep ==
  ASSUME TypeInv, NEW j \in Jobs, ObjectInv(j), Step(j) \/ Kill(j)
  PROVE  ObjectInv(j)'
<1> SUFFICES ASSUME IsCheck(j), ~IsAot(j) PROVE ObjectInv(j)'
  <2>1. request' = request
    BY StepIsLocal DEF Local
  <2> QED
    BY <2>1 DEF ObjectInv, IsCheck, IsAot
<1> USE DEF At
<1>0. /\ ControlInv(j) /\ pc \in [Jobs -> Places] /\ built \in [Jobs -> BOOLEAN]
      /\ Output(j) \in DOMAIN files \ ToSet(Generated(j))
  BY CheckJobFacts DEF TypeInv, Touched
<1>1. Output(j)' = Output(j)
  BY StepIsLocal DEF Local, Output
<1>2. CASE Kill(j)
  BY <1>0, <1>2 DEF Kill, Goto, ObjectInv
<1>3. CASE Compile(j)
  <2>1. (built'[j] /\ pc'[j] = "clean") \/ files'[Output(j)] = NoFile
    BY <1>0, <1>3 DEF Compile, CleanUp, Goto, ObjectInv
  <2> QED
    BY <1>1, <2>1 DEF ObjectInv
<1>4. CASE Finish(j)
  <2>1. files'[Output(j)] = NoFile
    BY <1>0, <1>4 DEF Finish
  <2> QED
    BY <1>1, <2>1 DEF ObjectInv
<1>5. CASE ~Kill(j) /\ ~Compile(j) /\ ~Finish(j)
  <2>1. files'[Output(j)] = files[Output(j)]
    BY <1>0, <1>5, SourcesOnly
  <2>2. ~(pc[j] \in {"clean", "ok"} /\ built[j]) \/ (pc'[j] \in {"clean", "ok"} /\ built'[j])
    BY <1>0, <1>5 DEF Step, Start, Read, Analyze, Lower, OpenProgram, WriteProgram,
       AppendMain, OpenWrapper, WriteWrapper, OpenMerged, Merge, RemoveFile, Report, Goto,
       MakeRoot, MakeSrc, OpenManifest, WriteManifest, OpenModule, WriteModule
  <2>3. pc[j] # "killed"
    BY <1>5 DEF Step, Start, Read, Analyze, Lower, OpenProgram, WriteProgram,
       AppendMain, OpenWrapper, WriteWrapper, OpenMerged, Merge, RemoveFile, Report,
       MakeRoot, MakeSrc, OpenManifest, WriteManifest, OpenModule, WriteModule
  <2> QED
    BY <1>1, <2>1, <2>2, <2>3 DEF ObjectInv
<1> QED
  BY <1>2, <1>3, <1>4, <1>5

\* A step of another run leaves it alone.
LEMMA ObjectFrame ==
  ASSUME TypeInv, NEW j \in Jobs, NEW k \in Jobs \ {j}, Frame(j), ObjectInv(k)
  PROVE  ObjectInv(k)'
<1> SUFFICES ASSUME IsCheck(k), ~IsAot(k) PROVE ObjectInv(k)'
  BY DEF Frame, ObjectInv, IsCheck, IsAot
<1>1. Output(k) \in Touched(k) /\ Output(k) \in DOMAIN files
  BY CheckJobFacts DEF TypeInv, Touched
<1>2. Touched(k) \cap Touched(j) = {}
  BY OwnAssumption DEF TypeInv, Touched, IsCheck, IsAot
<1>3. files'[Output(k)] = files[Output(k)] /\ Output(k)' = Output(k)
  BY <1>1, <1>2 DEF Frame, Output
<1>4. pc'[k] = pc[k] /\ built'[k] = built[k]
  BY DEF Frame
<1> QED
  BY <1>3, <1>4 DEF ObjectInv

LEMMA InitLitter == Init => LitterInv
<1> SUFFICES ASSUME Init PROVE LitterInv
  OBVIOUS
<1>1. files \in Disks /\ TypeInv
  BY InitTypes DEF Init
<1>2. \A p \in DOMAIN files : ~IsText(files[p])
  BY <1>1, DisksAssumption DEF IsText
<1>3. ASSUME NEW j \in Jobs, IsCheck(j), ~IsAot(j) PROVE files[Output(j)] = NoFile
  <2>1. Output(j) = <<j, "o">> /\ Output(j) \in DOMAIN files
    BY <1>1, <1>3, CheckJobFacts DEF TypeInv, Touched, IsAot, Output, OutputOf
  <2> QED
    BY <1>1, <2>1, DisksAssumption
<1> QED
  BY <1>2, <1>3 DEF LitterInv, ObjectInv

LEMMA StepLitter ==
  ASSUME TypeInv, LitterInv, [Next]_vars
  PROVE  LitterInv'
<1>1. CASE Next
  <2>1. PICK j \in Jobs : Step(j) \/ Kill(j)
    BY <1>1 DEF Next
  <2>2. Frame(j)
    BY <2>1, StepIsLocal, LocalFrame
  <2>3. \A k \in Jobs : ObjectInv(k)'
    BY <2>1, <2>2, ObjectStep, ObjectFrame DEF LitterInv
  <2>4. ASSUME NEW p \in DOMAIN files', IsText(files'[p])
        PROVE  \E k \in Jobs : p \in Owes(k)'
    <3>1. p \in DOMAIN files
      BY <2>2 DEF Frame
    <3>2. CASE p \in Owes(j)'
      BY <3>2
    <3>3. CASE p \notin Owes(j)'
      <4>1. IsText(files[p]) /\ p \notin Owes(j)
        <5>1. CASE IsCheck(j)
          BY <2>1, <2>4, <3>1, <3>3, <5>1, TextsOwed
        <5>2. CASE IsNew(j)
          <6>1. Owes(j) = {}
            BY <5>2, TupleElements DEF Owes, Generated, GeneratedOf, IsNew
          <6> QED
            BY <2>1, <2>4, <3>1, <5>2, <6>1, NewMakesNoText
        <5> QED
          BY <5>1, <5>2, PathsAssumption DEF TypeInv, IsNew, IsCheck
      <4>2. PICK k \in Jobs \ {j} : p \in Owes(k)
        BY <3>1, <4>1 DEF LitterInv
      <4>3. p \in Owes(k)'
        <5>1. pc'[k] = pc[k] /\ doomed'[k] = doomed[k] /\ request' = request
          BY <2>2 DEF Frame
        <5> QED
          BY <4>2, <5>1 DEF Owes, Generated, ProgramPath, Output
      <4> QED
        BY <4>3
    <3> QED
      BY <3>2, <3>3
  <2>5. \A p \in DOMAIN files' : IsText(files[p])' => \E k \in Jobs : p \in Owes(k)'
    BY <2>4 DEF IsText
  <2> QED
    BY <2>3, <2>5 DEF LitterInv
<1>2. CASE UNCHANGED vars
  BY <1>2 DEF vars, LitterInv, ObjectInv, IsText, Owes, Generated, ProgramPath, Output, IsCheck, IsAot
<1> QED
  BY <1>1, <1>2

\* However the runs interleave, and whatever fails in them: once all have ended
\* by themselves, no generated source is left, and no object that was not asked
\* for (the remove calls on every return path of the code generator's driver
\* and of main).  A source is there only as long as some run owes its removal.
THEOREM NothingLeft == Spec => []NoLitter
<1>1. TypeInv /\ LitterInv => NoLitter
  <2> SUFFICES ASSUME TypeInv, LitterInv, \A j \in Jobs : Ended(j)
               PROVE  /\ \A p \in DOMAIN files : files[p] = NoFile \/ files[p].kind # "text"
                      /\ \A j \in Jobs : IsCheck(j) /\ ~IsAot(j) => files[Output(j)] = NoFile
    BY DEF NoLitter
  <2>1. \A j \in Jobs : Owes(j) = {}
    BY DEF Owes, Ended
  <2>2. \A p \in DOMAIN files : ~IsText(files[p])
    BY <2>1 DEF LitterInv
  <2> QED
    BY <2>2 DEF LitterInv, ObjectInv, IsText, Ended
<1>2. Spec => []LitterInv
  BY InitTypes, InitLitter, StepTypes, StepLitter, PTL DEF Spec
<1> QED
  BY <1>1, <1>2, Types, PTL

-----------------------------------------------------------------------------
(* A new project is whole                                                  *)

SameProject(j, k) == IsNew(k) /\ Root(k) = Root(j)

\* From the moment it opened a file of its project, a run of nova-new sees it
\* empty or whole, and empty only if a run on the same project is writing it or
\* was killed.
WholeFile(j, file, empty, text, writing, later) ==
  pc[j] \in {writing} \cup later =>
    /\ files[file] \in {empty, text}
    /\ files[file] # text =>
         \E k \in Jobs : SameProject(j, k) /\ pc[k] \in {writing, "killed"}

WholeManifest(j) ==
  WholeFile(j, Manifest(Root(j)), Content("toml", <<>>), TomlText(Root(j)),
            "write manifest", {"open module", "write module", "exit 0"})
WholeModule(j) ==
  WholeFile(j, MainModule(Root(j)), Content("nova", <<>>), ModuleText(j),
            "write module", {"exit 0"})

WholeInv ==
  \A j \in Jobs : IsNew(j) /\ Root(j) # NoPath => WholeManifest(j) /\ WholeModule(j)

\* A step of job k does one of three things to a file of a project: open it,
\* write what is still empty, or nothing.
Opens(j, k, file, empty, writing) ==
  SameProject(j, k) /\ pc'[k] = writing /\ files'[file] = empty
Fills(j, k, file, text, writing) ==
  /\ SameProject(j, k) /\ pc[k] = writing
  /\ files'[file] = IF files[file].pieces = <<>> THEN text ELSE files[file]
Leaves(j, k, file, writing, later) ==
  /\ files'[file] = files[file]
  /\ SameProject(j, k) =>
       /\ pc'[k] \in {writing} \cup later => pc[k] \in {writing} \cup later
       /\ pc[k] \in {writing, "killed"} => pc'[k] \in {writing, "killed"}

LEMMA WholeStep ==
  ASSUME TypeInv, NEW j \in Jobs, NEW k \in Jobs, Frame(k),
         NEW file, NEW empty, NEW text, NEW writing, NEW later,
         empty.pieces = <<>>, text.pieces # <<>>, IsNew(j),
         WholeFile(j, file, empty, text, writing, later),
         SameProject(j, k) => WholeFile(k, file, empty, text, writing, later),
         \/ Opens(j, k, file, empty, writing) \/ Fills(j, k, file, text, writing)
         \/ Leaves(j, k, file, writing, later)
  PROVE  WholeFile(j, file, empty, text, writing, later)'
<1>1. \A x \in Jobs : SameProject(j, x)' <=> SameProject(j, x)
  BY DEF Frame, SameProject, IsNew, Root
<1>2. \A x \in Jobs \ {k} : pc'[x] = pc[x]
  BY DEF Frame
<1>3. SameProject(j, j)
  BY DEF SameProject
<1>4. CASE Opens(j, k, file, empty, writing)
  BY <1>1, <1>4 DEF Opens, WholeFile
<1>5. CASE Fills(j, k, file, text, writing)
  <2>1. files[file] \in {empty, text}
    BY <1>5 DEF Fills, WholeFile
  <2>2. files'[file] = text
    BY <1>5, <2>1 DEF Fills
  <2> QED
    BY <2>2 DEF WholeFile
<1>6. CASE Leaves(j, k, file, writing, later)
  <2> SUFFICES ASSUME pc'[j] \in {writing} \cup later
               PROVE  /\ files'[file] \in {empty, text}
                      /\ files'[file] # text =>
                           \E x \in Jobs : SameProject(j, x)' /\ pc'[x] \in {writing, "killed"}
    BY DEF WholeFile
  <2>1. pc[j] \in {writing} \cup later
    BY <1>2, <1>3, <1>6 DEF Leaves
  <2>2. files[file] \in {empty, text} /\ files'[file] = files[file]
    BY <1>6, <2>1 DEF Leaves, WholeFile
  <2>3. ASSUME files[file] # text
        PROVE  \E x \in Jobs : SameProject(j, x)' /\ pc'[x] \in {writing, "killed"}
    <3>1. PICK x \in Jobs : SameProject(j, x) /\ pc[x] \in {writing, "killed"}
      BY <2>1, <2>3 DEF WholeFile
    <3>2. pc'[x] \in {writing, "killed"}
      BY <1>2, <1>6, <3>1 DEF Leaves
    <3> QED
      BY <1>1, <3>1, <3>2
  <2> QED
    BY <2>2, <2>3
<1> QED
  BY <1>4, <1>5, <1>6

\* Only runs of nova-new on the same project write to it.
LEMMA OthersLeave ==
  ASSUME TypeInv, NEW j \in Jobs, NEW k \in Jobs, Frame(k),
         IsNew(j), Root(j) # NoPath, ~SameProject(j, k)
  PROVE  /\ files'[Manifest(Root(j))] = files[Manifest(Root(j))]
         /\ files'[MainModule(Root(j))] = files[MainModule(Root(j))]
<1>1. {Manifest(Root(j)), MainModule(Root(j))} \subseteq Project(Root(j))
  BY DEF Project
<1>2. Project(Root(j)) \subseteq DOMAIN files
  BY NewJobFacts
<1>3. Project(Root(j)) \cap Touched(k) = {}
  <2>1. request[j] \in Requests /\ request[k] \in Requests
    BY DEF TypeInv
  <2>2. request[k].tool = "check" \/ request[k].path # request[j].path
    BY <2>1, PathsAssumption DEF SameProject, IsNew, Root
  <2> QED
    BY <2>1, <2>2, ProjectAssumption DEF IsNew, Root, Touched
<1> QED
  BY <1>1, <1>2, <1>3 DEF Frame

\* What each step of a run on the project does to its two files.
LEMMA ProjectSteps ==
  ASSUME TypeInv, NEW j \in Jobs, NEW k \in Jobs, Step(k) \/ Kill(k),
         IsNew(j), Root(j) # NoPath, SameProject(j, k)
  PROVE  LET file == Manifest(Root(j))
             main == MainModule(Root(j))
         IN /\ \/ Opens(j, k, file, Content("toml", <<>>), "write manifest")
               \/ Fills(j, k, file, TomlText(Root(j)), "write manifest")
               \/ Leaves(j, k, file, "write manifest", {"open module", "write module", "exit 0"})
            /\ \/ Opens(j, k, main, Content("nova", <<>>), "write module")
               \/ Fills(j, k, main, ModuleText(j), "write module")
               \/ Leaves(j, k, main, "write module", {"exit 0"})
<1> USE DEF At, Goto
<1>1. /\ IsNew(k) /\ Root(k) = Root(j) /\ ~IsCheck(k) /\ pc[k] \notin CheckPlaces
      /\ pc \in [Jobs -> Places]
  BY DEF TypeInv, ControlInv, IsCheck, IsNew, SameProject
<1>2. /\ {Root(j), SrcDir(Root(j)), Manifest(Root(j)), MainModule(Root(j))} \subseteq DOMAIN files
      /\ Manifest(Root(j)) \notin {Root(j), SrcDir(Root(j)), MainModule(Root(j))}
      /\ MainModule(Root(j)) \notin {Root(j), SrcDir(Root(j))}
  BY NewJobFacts DEF Project
<1>3. ModuleText(k) = ModuleText(j)
  BY <1>1, ProjectAssumption DEF TypeInv, ModuleText, IsNew, Root
<1>4. CASE Start(k) \/ Kill(k)
  BY <1>1, <1>2, <1>4 DEF Start, Kill, Leaves, Running
<1>5. CASE MakeRoot(k)
  BY <1>1, <1>2, <1>5 DEF MakeRoot, MakeDirectory, Leaves
<1>6. CASE MakeSrc(k)
  BY <1>1, <1>2, <1>6 DEF MakeSrc, MakeDirectory, Leaves
<1>7. CASE OpenManifest(k)
  BY <1>1, <1>2, <1>7 DEF OpenManifest, OpenForNew, Leaves, Opens, SameProject
<1>8. CASE WriteManifest(k)
  BY <1>1, <1>2, <1>8 DEF WriteManifest, PutNew, Leaves, Fills, SameProject
<1>9. CASE OpenModule(k)
  BY <1>1, <1>2, <1>9 DEF OpenModule, OpenForNew, Leaves, Opens, SameProject
<1>10. CASE WriteModule(k)
  BY <1>1, <1>2, <1>3, <1>10 DEF WriteModule, PutNew, Leaves, Fills, SameProject
<1>11. ASSUME ~(Start(k) \/ Kill(k) \/ MakeRoot(k) \/ MakeSrc(k) \/ OpenManifest(k)
                  \/ WriteManifest(k) \/ OpenModule(k) \/ WriteModule(k))
       PROVE FALSE
  BY <1>1, <1>11 DEF Step, CheckPlaces, AotCPlaces, Read, Analyze, Lower, OpenProgram, WriteProgram,
     AppendMain, OpenWrapper, WriteWrapper, OpenMerged, Merge, Compile, RemoveFile, Report, Finish
<1> QED
  BY <1>4, <1>5, <1>6, <1>7, <1>8, <1>9, <1>10, <1>11

LEMMA StepWhole ==
  ASSUME TypeInv, WholeInv, [Next]_vars
  PROVE  WholeInv'
<1>1. CASE Next
  <2>1. PICK k \in Jobs : Step(k) \/ Kill(k)
    BY <1>1 DEF Next
  <2>2. Frame(k)
    BY <2>1, StepIsLocal, LocalFrame
  <2>3. ASSUME NEW j \in Jobs, IsNew(j), Root(j) # NoPath
        PROVE  WholeManifest(j)' /\ WholeModule(j)'
    <3>1. PICK root : root = Root(j)
      OBVIOUS
    <3>2. PICK module : module = request[j].module
      OBVIOUS
    <3> DEFINE file == Manifest(root)
               main == MainModule(root)
               toml == TomlText(root)
               nova == Content("nova", <<Functions(module)>>)
               none(kind) == Content(kind, <<>>)
               later == {"open module", "write module", "exit 0"}
    <3>3. /\ none("toml").pieces = <<>> /\ none("nova").pieces = <<>>
          /\ toml.pieces # <<>> /\ nova.pieces # <<>>
      BY DEF TomlText, Content
    <3>4. /\ WholeFile(j, file, none("toml"), toml, "write manifest", later)
          /\ WholeFile(j, main, none("nova"), nova, "write module", {"exit 0"})
      BY <2>3, <3>1, <3>2 DEF WholeInv, WholeManifest, WholeModule, ModuleText
    <3>5. SameProject(j, k) =>
            /\ WholeFile(k, file, none("toml"), toml, "write manifest", later)
            /\ WholeFile(k, main, none("nova"), nova, "write module", {"exit 0"})
      <4> SUFFICES ASSUME SameProject(j, k)
                   PROVE  /\ WholeFile(k, file, none("toml"), toml, "write manifest", later)
                          /\ WholeFile(k, main, none("nova"), nova, "write module", {"exit 0"})
        OBVIOUS
      <4>1. IsNew(k) /\ Root(k) = root /\ root # NoPath
        BY <2>3, <3>1 DEF SameProject
      <4>2. request[k].module = module
        BY <2>3, <3>2, <4>1, <3>1, ProjectAssumption DEF TypeInv, IsNew, Root
      <4> QED
        BY <4>1, <4>2 DEF WholeInv, WholeManifest, WholeModule, ModuleText
    <3>6. /\ \/ Opens(j, k, file, none("toml"), "write manifest")
             \/ Fills(j, k, file, toml, "write manifest")
             \/ Leaves(j, k, file, "write manifest", later)
          /\ \/ Opens(j, k, main, none("nova"), "write module")
             \/ Fills(j, k, main, nova, "write module")
             \/ Leaves(j, k, main, "write module", {"exit 0"})
      <4>1. CASE SameProject(j, k)
        BY <2>1, <2>3, <3>1, <3>2, <4>1, ProjectSteps DEF ModuleText
      <4>2. CASE ~SameProject(j, k)
        BY <2>2, <2>3, <3>1, <4>2, OthersLeave DEF Leaves
      <4> QED
        BY <4>1, <4>2
    <3>7. /\ WholeFile(j, file, none("toml"), toml, "write manifest", later)'
          /\ WholeFile(j, main, none("nova"), nova, "write module", {"exit 0"})'
      <4> HIDE DEF file, main, toml, nova, none, later
      <4>1. WholeFile(j, file, none("toml"), toml, "write manifest", later)'
        BY <2>2, <2>3, <3>3, <3>4, <3>5, <3>6, WholeStep
      <4>2. WholeFile(j, main, none("nova"), nova, "write module", {"exit 0"})'
        BY <2>2, <2>3, <3>3, <3>4, <3>5, <3>6, WholeStep
      <4> QED
        BY <4>1, <4>2
    <3>8. Root(j)' = root /\ request'[j].module = module
      BY <2>2, <3>1, <3>2 DEF Frame, Root
    <3> QED
      BY <3>7, <3>8 DEF WholeManifest, WholeModule, ModuleText
  <2>4. \A j \in Jobs : IsNew(j)' /\ Root(j)' # NoPath => IsNew(j) /\ Root(j) # NoPath
    BY <2>2 DEF Frame, IsNew, Root
  <2> QED
    BY <2>3, <2>4 DEF WholeInv
<1>2. CASE UNCHANGED vars
  BY <1>2 DEF vars, WholeInv, WholeManifest, WholeModule, WholeFile, SameProject, IsNew, Root, ModuleText
<1> QED
  BY <1>1, <1>2

\* A run of nova-new that has reported success leaves its manifest and its
\* module whole, whatever runs on the same project came before or interleave,
\* unless one of them stops half-way (main and write_file of
\* tools/nova_new.cpp).
THEOREM WholeProjects == Spec => []CreatedWhole
<1>1. Init => WholeInv
  BY DEF Init, WholeInv, WholeManifest, WholeModule, WholeFile
<1>2. TypeInv /\ WholeInv => CreatedWhole
  <2> SUFFICES ASSUME TypeInv, WholeInv, NEW j \in Jobs, IsNew(j), At(j, "exit 0"),
                      \A k \in Jobs : IsNew(k) /\ Root(k) = Root(j) => pc[k] \in {"start", "exit 0"}
               PROVE  /\ files[Manifest(Root(j))] = TomlText(Root(j))
                      /\ files[MainModule(Root(j))] = ModuleText(j)
    BY DEF CreatedWhole
  <2>1. Root(j) # NoPath
    BY DEF TypeInv, ControlInv, At
  <2>2. WholeManifest(j) /\ WholeModule(j)
    BY <2>1 DEF WholeInv
  <2>3. \A k \in Jobs : SameProject(j, k) => pc[k] \notin {"write manifest", "write module", "killed"}
    BY DEF SameProject
  <2> QED
    BY <2>2, <2>3 DEF WholeManifest, WholeModule, WholeFile, At
<1>3. Spec => []WholeInv
  BY <1>1, InitTypes, StepTypes, StepWhole, PTL DEF Spec
<1> QED
  BY <1>2, <1>3, Types, PTL

-----------------------------------------------------------------------------
(* An output is made from the program its run read                         *)

Text(x) == Content("text", x)
Program(j) == <<Functions(program[j])>>
Entry(j) == <<MainCalling(request[j].entry)>>
Whole(j) == <<Functions(program[j]), MainCalling(request[j].entry)>>

\* What the sources and the output of a running job hold, place by place.  A
\* text may be missing if a run that has not begun or has ended could touch the
\* same file (see Write); a job without --emit-aot shares its files with nobody.
SourcesInv(j) ==
  IsCheck(j) =>
    /\ pc[j] = "write program" => files[ProgramPath(j)] = Text(<<>>)
    /\ pc[j] \in AotCPlaces \cup {"append main"} =>
         files[ProgramPath(j)] \in {Text(<<>>), Text(Program(j))}
    /\ pc[j] = "write wrapper" => files[WrapperPath(Output(j))] = Text(<<>>)
    /\ pc[j] \in {"open merged", "merge"} =>
         files[WrapperPath(Output(j))] \in {Text(<<>>), Text(Entry(j))}
    /\ pc[j] = "merge" => files[MergePath(Output(j))] = Text(<<>>)
    /\ pc[j] = "compile" /\ ~IsAot(j) => files[CompilerInput(j)] = Text(Program(j))
    /\ pc[j] = "compile" /\ IsAot(j) =>
         files[CompilerInput(j)] \in {Text(<<>>), Text(Program(j)), Text(Entry(j)), Text(Whole(j))}
    /\ (pc[j] = "clean" /\ built[j]) \/ pc[j] = "ok" =>
         files[Output(j)] = Content("binary", Expected(j))

\* Jobs that are kept apart and run at once write to different files.
ApartInv ==
  apart => \A j \in Jobs : \A k \in Jobs \ {j} :
    Running(j) /\ Running(k) => Touched(j) \cap Touched(k) = {}

BuiltInv == ApartInv /\ (apart => \A j \in Jobs : SourcesInv(j))

\* A text links only if it holds a program and a main.
LEMMA LinksBoth ==
  ASSUME NEW p, NEW e
  PROVE  /\ ~Compiles(<<>>, TRUE) /\ ~Compiles(<<Functions(p)>>, TRUE)
         /\ ~Compiles(<<MainCalling(e)>>, TRUE)
<1>1. Functions(p).kind = "functions" /\ MainCalling(e).kind = "main"
  BY DEF Functions, MainCalling
<1>2. DOMAIN <<Functions(p)>> = {1} /\ DOMAIN <<MainCalling(e)>> = {1} /\ DOMAIN <<>> = {}
  OBVIOUS
<1>3. <<Functions(p)>>[1] = Functions(p) /\ <<MainCalling(e)>>[1] = MainCalling(e)
  OBVIOUS
<1> QED
  BY <1>1, <1>2, <1>3 DEF Compiles

\* Writing a text over an empty file leaves that text, or nothing if another
\* run could touch the file.
LEMMA WriteText ==
  ASSUME NEW j, NEW path \in DOMAIN files, NEW text,
         files[path] = Text(<<>>), <<>> \o text = text, Write(j, path, text)
  PROVE  /\ files'[path] \in {Text(<<>>), Text(text)}
         /\ ~Contested(j, path) => files'[path] = Text(text)
         /\ \A p \in DOMAIN files \ {path} : files'[p] = files[p]
<1>1. files[path].pieces = <<>>
  BY DEF Text, Content
<1> QED
  BY <1>1, WriteOnly DEF Write, Put, Text

\* How the pieces come together.
LEMMA Pieces ==
  ASSUME NEW f, NEW m
  PROVE  /\ <<>> \o <<f>> = <<f>> /\ <<f>> \o <<>> = <<f>> /\ <<>> \o <<>> = <<>>
         /\ <<f>> \o <<m>> = <<f, m>> /\ <<>> \o <<f, m>> = <<f, m>>
         /\ Append(<<>>, m) = <<m>> /\ Append(<<f>>, m) = <<f, m>>
<1> DEFINE S == {f, m}
<1>1. <<>> \in Seq(S) /\ <<f>> \in Seq(S) /\ <<m>> \in Seq(S) /\ <<f, m>> \in Seq(S)
  OBVIOUS
<1>2. <<>> \o <<f>> = <<f>> /\ <<f>> \o <<>> = <<f>> /\ <<>> \o <<>> = <<>> /\ <<>> \o <<f, m>> = <<f, m>>
  BY <1>1, ConcatEmptySeq
<1>3. <<f>> \o <<m>> = <<f, m>>
  <2> DEFINE q == <<f>> \o <<m>>
  <2>1. q \in Seq(S) /\ Len(q) = 2 /\ q[1] = f /\ q[2] = m
    BY <1>1, ConcatProperties
  <2> HIDE DEF q, S
  <2>2. \A i \in 1..2 : q[i] = <<f, m>>[i]
    BY <2>1
  <2>3. q = <<f, m>>
    BY <1>1, <2>1, <2>2, SeqEqual
  <2> QED
    BY <2>3 DEF q
<1>4. Append(<<>>, m) = <<m>>
  OBVIOUS
<1>5. Append(<<f>>, m) = <<f, m>>
  BY <1>1, <1>3, AppendIsConcat
<1> QED
  BY <1>2, <1>3, <1>4, <1>5

LEMMA StepApart ==
  ASSUME TypeInv, ApartInv, NEW j \in Jobs, Step(j) \/ Kill(j), Frame(j)
  PROVE  ApartInv'
<1> SUFFICES ASSUME apart, NEW i \in Jobs, NEW k \in Jobs \ {i}, Running(i)', Running(k)'
             PROVE  Touched(i) \cap Touched(k) = {}
  BY DEF Frame, ApartInv, Touched
<1>1. \A x \in Jobs \ {j} : Running(x)' = Running(x)
  BY DEF Frame, Running
<1>2. Running(j)' => Running(j) \/ Start(j)
  <2> SUFFICES ASSUME ~Running(j), ~Start(j), Running(j)' PROVE FALSE
    OBVIOUS
  <2>1. pc[j] \in {"start", "exit 0", "exit 1", "exit 2", "killed"}
    BY DEF Running
  <2> QED
    BY <2>1 DEF Kill, Step, Read, Analyze, Lower, OpenProgram, WriteProgram,
       AppendMain, OpenWrapper, WriteWrapper, OpenMerged, Merge, Compile, RemoveFile, Report,
       Finish, MakeRoot, MakeSrc, OpenManifest, WriteManifest, OpenModule, WriteModule, At
<1>3. CASE Start(j)
  <2>1. \A x \in Jobs \ {j} : Running(x) => Touched(j) \cap Touched(x) = {}
    BY <1>3 DEF Start, Apartness
  <2> QED
    BY <1>1, <2>1 DEF ApartInv
<1>4. CASE ~Start(j)
  BY <1>1, <1>2, <1>4 DEF ApartInv
<1> QED
  BY <1>3, <1>4

\* What a run relies on is out of the others' reach.
LEMMA SourcesFrame ==
  ASSUME TypeInv, ApartInv, apart, NEW j \in Jobs, NEW k \in Jobs \ {j}, Frame(k), SourcesInv(j)
  PROVE  SourcesInv(j)'
<1>1. /\ pc'[j] = pc[j] /\ program'[j] = program[j] /\ built'[j] = built[j] /\ request' = request
  BY DEF Frame
<1>2. CASE IsCheck(j) /\ Running(j)
  <2>1. Touched(j) \subseteq DOMAIN files
    BY DEF TypeInv, Touched
  <2>2. \A p \in Touched(j) : files'[p] = files[p]
    BY <1>2, <2>1 DEF ApartInv, Frame
  <2>3. /\ {ProgramPath(j), Output(j), CompilerInput(j)} \subseteq Touched(j)
        /\ pc[j] \in AotCPlaces => {WrapperPath(Output(j)), MergePath(Output(j))} \subseteq Touched(j)
    <3>1. pc[j] \in AotCPlaces => IsAot(j) /\ ~UsesLLVM(j)
      BY DEF TypeInv, ControlInv
    <3> QED
      BY <1>2, <3>1, CheckPaths
  <2>4. /\ ProgramPath(j)' = ProgramPath(j) /\ Output(j)' = Output(j)
        /\ CompilerInput(j)' = CompilerInput(j) /\ IsCheck(j)' = IsCheck(j) /\ IsAot(j)' = IsAot(j)
        /\ Program(j)' = Program(j) /\ Entry(j)' = Entry(j) /\ Whole(j)' = Whole(j)
        /\ Expected(j)' = Expected(j)
    BY <1>1 DEF ProgramPath, Output, CompilerInput, Generated, IsCheck, IsAot, Program, Entry,
       Whole, Expected
  <2>5. /\ files'[ProgramPath(j)] = files[ProgramPath(j)] /\ files'[Output(j)] = files[Output(j)]
        /\ files'[CompilerInput(j)] = files[CompilerInput(j)]
        /\ pc[j] \in AotCPlaces =>
             /\ files'[WrapperPath(Output(j))] = files[WrapperPath(Output(j))]
             /\ files'[MergePath(Output(j))] = files[MergePath(Output(j))]
    BY <2>2, <2>3
  <2> QED
    BY <1>1, <2>4, <2>5 DEF SourcesInv, AotCPlaces, WrapperPath, MergePath
<1>3. CASE ~(IsCheck(j) /\ Running(j))
  BY <1>1, <1>3 DEF SourcesInv, AotCPlaces, Running, IsCheck
<1> QED
  BY <1>2, <1>3

\* The object of a run without --emit-aot, and its source, are its own.
LEMMA OwnSource ==
  ASSUME TypeInv, NEW j \in Jobs, IsCheck(j), ~IsAot(j)
  PROVE  ~Contested(j, ProgramPath(j))
<1>1. ProgramPath(j) \in Touched(j)
  BY CheckJobFacts
<1>2. \A k \in Jobs \ {j} : Touched(j) \cap Touched(k) = {}
  BY OwnAssumption DEF TypeInv, Touched, IsCheck, IsAot
<1> QED
  BY <1>1, <1>2 DEF Contested

LEMMA SourcesStep ==
  ASSUME TypeInv, NEW j \in Jobs, SourcesInv(j), Step(j) \/ Kill(j)
  PROVE  SourcesInv(j)'
<1> USE DEF At
<1> DEFINE prog == ProgramPath(j)
           out == Output(j)
           w == WrapperPath(out)
           m == MergePath(out)
           Quiet == {"write program", "append main", "compile", "clean", "ok"} \cup AotCPlaces
<1>0. /\ ControlInv(j) /\ j \in DOMAIN doomed /\ request' = request
      /\ pc \in [Jobs -> Places] /\ built \in [Jobs -> BOOLEAN]
  BY StepIsLocal DEF TypeInv, Local
<1>1. CASE ~IsCheck(j) \/ pc'[j] \notin Quiet \/ (pc'[j] = "clean" /\ ~built'[j])
  BY <1>0, <1>1 DEF SourcesInv, IsCheck, AotCPlaces
<1>2. CASE IsCheck(j) /\ pc'[j] \in Quiet /\ ~(pc'[j] = "clean" /\ ~built'[j])
  <2>1. /\ {prog, out, CompilerInput(j)} \subseteq DOMAIN files
        /\ prog # out /\ CompilerInput(j) # out /\ out \notin ToSet(Generated(j))
        /\ ~IsAot(j) \/ UsesLLVM(j) => CompilerInput(j) = prog
        /\ IsAot(j) /\ ~UsesLLVM(j) =>
             /\ CompilerInput(j) = m /\ {w, m} \subseteq DOMAIN files
             /\ prog # w /\ prog # m /\ w # m
    <3>1. Touched(j) \subseteq DOMAIN files
      BY DEF TypeInv, Touched
    <3> QED
      BY <1>2, <3>1, CheckPaths
  <2>2. program' = program
    BY <1>2, <1>0, StepIsLocal DEF Step, Start, Read, Analyze, Lower, OpenProgram, WriteProgram,
       AppendMain, OpenWrapper, WriteWrapper, OpenMerged, Merge, Compile, RemoveFile, Report,
       Finish, MakeRoot, MakeSrc, OpenManifest, WriteManifest, OpenModule, WriteModule, Kill, Goto,
       AotCPlaces
  <2>3. /\ ProgramPath(j)' = prog /\ Output(j)' = out /\ CompilerInput(j)' = CompilerInput(j)
        /\ WrapperPath(Output(j))' = w /\ MergePath(Output(j))' = m
        /\ IsCheck(j)' = IsCheck(j) /\ IsAot(j)' = IsAot(j)
        /\ Program(j)' = Program(j) /\ Entry(j)' = Entry(j) /\ Whole(j)' = Whole(j)
        /\ Expected(j)' = Expected(j)
    BY <1>0, <2>2 DEF ProgramPath, Output, CompilerInput, Generated, IsCheck, IsAot, Program, Entry,
       Whole, Expected, WrapperPath, MergePath
  <2>4. /\ <<>> \o Program(j) = Program(j) /\ <<>> \o Entry(j) = Entry(j)
        /\ Program(j) \o <<>> = Program(j) /\ <<>> \o Whole(j) = Whole(j)
        /\ Program(j) \o Entry(j) = Whole(j) /\ <<>> \o <<>> = <<>>
        /\ Append(<<>>, MainCalling(request[j].entry)) = Entry(j)
        /\ Append(Program(j), MainCalling(request[j].entry)) = Whole(j)
        /\ Expected(j) = IF IsAot(j) THEN Whole(j) ELSE Program(j)
    BY Pieces DEF Program, Entry, Whole, Expected
  <2>5. \A x : Text(x).pieces = x
    BY DEF Text, Content
  <2>6. CASE OpenProgram(j)
    BY <1>0, <1>2, <2>1, <2>3, <2>6 DEF OpenProgram, Truncate, Goto, SourcesInv, AotCPlaces, Text
  <2>7. CASE WriteProgram(j)
    <3>1. Write(j, prog, Program(j)) /\ pc'[j] \in {"compile", "append main", "open wrapper"}
          /\ (pc'[j] = "compile" <=> ~IsAot(j))
      BY <1>0, <1>2, <2>7 DEF WriteProgram, CleanUp, Goto, Program
    <3>2. files[prog] = Text(<<>>)
      BY <1>2, <2>7 DEF WriteProgram, SourcesInv
    <3>3. /\ files'[prog] \in {Text(<<>>), Text(Program(j))}
          /\ ~Contested(j, prog) => files'[prog] = Text(Program(j))
      BY <2>1, <2>4, <3>1, <3>2, WriteText
    <3> QED
      BY <1>2, <2>1, <2>3, <3>1, <3>3, OwnSource DEF SourcesInv, AotCPlaces
  <2>8. CASE AppendMain(j)
    <3>1. IsAot(j) /\ UsesLLVM(j) /\ files[prog] \in {Text(<<>>), Text(Program(j))}
      BY <1>0, <1>2, <2>8 DEF AppendMain, ControlInv, SourcesInv
    <3>2. pc'[j] = "compile"
      BY <1>0, <1>2, <2>8 DEF AppendMain, CleanUp, Goto
    <3>3. \E before \in {<<>>, Program(j)} :
            files' = [files EXCEPT ![prog] =
              Content("text", Append(before, MainCalling(request[j].entry)))]
      BY <1>0, <1>2, <2>5, <2>8, <3>1 DEF AppendMain, CleanUp, Goto
    <3>4. files'[prog] \in {Text(Entry(j)), Text(Whole(j))}
      BY <2>1, <2>4, <3>3 DEF Text
    <3> QED
      BY <2>1, <2>3, <3>1, <3>2, <3>4 DEF SourcesInv, AotCPlaces
  <2>9. CASE OpenWrapper(j)
    <3>1. IsAot(j) /\ ~UsesLLVM(j) /\ files[prog] \in {Text(<<>>), Text(Program(j))}
      BY <1>0, <1>2, <2>9 DEF OpenWrapper, ControlInv, SourcesInv, AotCPlaces
    <3>2. pc'[j] = "write wrapper" /\ files' = [files EXCEPT ![w] = Text(<<>>)]
      BY <1>0, <1>2, <2>9 DEF OpenWrapper, CleanUp, Goto, Truncate, Text
    <3> QED
      BY <2>1, <2>3, <3>1, <3>2 DEF SourcesInv, AotCPlaces
  <2>10. CASE WriteWrapper(j)
    <3>1. /\ IsAot(j) /\ ~UsesLLVM(j) /\ files[prog] \in {Text(<<>>), Text(Program(j))}
          /\ files[w] = Text(<<>>)
      BY <1>0, <1>2, <2>10 DEF WriteWrapper, ControlInv, SourcesInv, AotCPlaces
    <3>2. pc'[j] = "open merged" /\ Write(j, w, Entry(j))
      BY <1>0, <1>2, <2>10 DEF WriteWrapper, Goto, Entry
    <3>3. /\ files'[w] \in {Text(<<>>), Text(Entry(j))} /\ files'[prog] = files[prog]
      BY <2>1, <2>4, <3>1, <3>2, WriteText
    <3> QED
      BY <2>1, <2>3, <3>1, <3>2, <3>3 DEF SourcesInv, AotCPlaces
  <2>11. CASE OpenMerged(j)
    <3>1. /\ IsAot(j) /\ ~UsesLLVM(j) /\ files[prog] \in {Text(<<>>), Text(Program(j))}
          /\ files[w] \in {Text(<<>>), Text(Entry(j))}
      BY <1>0, <1>2, <2>11 DEF OpenMerged, ControlInv, SourcesInv, AotCPlaces
    <3>2. pc'[j] = "merge" /\ files' = [files EXCEPT ![m] = Text(<<>>)]
      BY <1>0, <1>2, <2>11 DEF OpenMerged, CleanUp, Goto, Truncate, Text
    <3> QED
      BY <2>1, <2>3, <3>1, <3>2 DEF SourcesInv, AotCPlaces
  <2>12. CASE Merge(j)
    <3>1. /\ IsAot(j) /\ ~UsesLLVM(j) /\ files[prog] \in {Text(<<>>), Text(Program(j))}
          /\ files[w] \in {Text(<<>>), Text(Entry(j))} /\ files[m] = Text(<<>>)
      BY <1>0, <1>2, <2>12 DEF Merge, ControlInv, SourcesInv, AotCPlaces
    <3>2. pc'[j] = "compile" /\ Write(j, m, files[prog].pieces \o files[w].pieces)
      BY <1>0, <1>2, <2>12 DEF Merge, CleanUp, Goto
    <3>3. files[prog].pieces \o files[w].pieces \in {<<>>, Program(j), Entry(j), Whole(j)}
      BY <2>4, <2>5, <3>1
    <3>4. PICK text \in {<<>>, Program(j), Entry(j), Whole(j)} : Write(j, m, text)
      BY <3>2, <3>3
    <3>5. files'[m] \in {Text(<<>>), Text(text)}
      BY <2>1, <2>4, <3>1, <3>4, WriteText
    <3> QED
      BY <2>1, <2>3, <3>1, <3>2, <3>5 DEF SourcesInv, AotCPlaces
  <2>13. CASE Compile(j)
    <3> DEFINE input == files[CompilerInput(j)]
    <3>1. /\ pc'[j] = "clean" /\ built'[j] = TRUE
          /\ files' = [files EXCEPT ![out] = Content("binary", input.pieces)]
          /\ Compiles(input.pieces, IsAot(j))
      BY <1>0, <1>2, <2>13 DEF Compile, CleanUp, Goto
    <3>2. input.pieces = Expected(j)
      <4>1. CASE ~IsAot(j)
        BY <1>2, <2>4, <2>5, <2>13, <4>1 DEF Compile, SourcesInv
      <4>2. CASE IsAot(j)
        <5>1. input.pieces \in {<<>>, Program(j), Entry(j), Whole(j)}
          BY <1>2, <2>5, <2>13, <4>2 DEF Compile, SourcesInv
        <5>2. ~Compiles(<<>>, TRUE) /\ ~Compiles(Program(j), TRUE) /\ ~Compiles(Entry(j), TRUE)
          BY LinksBoth DEF Program, Entry
        <5>3. Compiles(input.pieces, TRUE)
          BY <3>1, <4>2
        <5> QED
          BY <2>4, <4>2, <5>1, <5>2, <5>3
      <4> QED
        BY <4>1, <4>2
    <3>3. files'[out] = Content("binary", Expected(j))
      BY <2>1, <3>1, <3>2
    <3> QED
      BY <2>3, <3>1, <3>3 DEF SourcesInv, AotCPlaces
  <2>14. CASE RemoveFile(j) \/ Report(j)
    <3>1. files'[out] = files[out]
      <4>1. ~Compile(j) /\ ~Finish(j)
        BY <2>14 DEF RemoveFile, Report, Compile, Finish
      <4> QED
        BY <1>2, <2>1, <4>1, SourcesOnly
    <3>2. pc[j] = "clean" /\ built[j] /\ pc'[j] \in {"clean", "ok"} /\ built'[j] = built[j]
      BY <1>0, <1>2, <2>14 DEF RemoveFile, Report, Goto, AotCPlaces
    <3>3. files[out] = Content("binary", Expected(j))
      BY <1>2, <3>2 DEF SourcesInv
    <3> QED
      BY <2>3, <3>1, <3>2, <3>3 DEF SourcesInv, AotCPlaces
  <2>15. OpenProgram(j) \/ WriteProgram(j) \/ AppendMain(j) \/ OpenWrapper(j) \/ WriteWrapper(j)
           \/ OpenMerged(j) \/ Merge(j) \/ Compile(j) \/ RemoveFile(j) \/ Report(j)
    BY <1>2, <1>0 DEF Step, Start, Read, Analyze, Lower, Kill, Goto, Finish, MakeRoot, MakeSrc,
       OpenManifest, WriteManifest, OpenModule, WriteModule, AotCPlaces
  <2> QED
    BY <2>6, <2>7, <2>8, <2>9, <2>10, <2>11, <2>12, <2>13, <2>14, <2>15
<1> QED
  BY <1>1, <1>2

LEMMA StepBuilt ==
  ASSUME TypeInv, BuiltInv, [Next]_vars
  PROVE  BuiltInv'
<1>1. CASE Next
  <2>1. PICK j \in Jobs : Step(j) \/ Kill(j)
    BY <1>1 DEF Next
  <2>2. Frame(j)
    BY <2>1, StepIsLocal, LocalFrame
  <2>3. ApartInv'
    BY <2>1, <2>2, StepApart DEF BuiltInv
  <2>4. ASSUME apart', NEW k \in Jobs PROVE SourcesInv(k)'
    <3>1. apart /\ SourcesInv(k)
      BY <2>2, <2>4 DEF Frame, BuiltInv
    <3>2. CASE k = j
      BY <2>1, <3>1, <3>2, SourcesStep
    <3>3. CASE k # j
      <4>1. j \in Jobs \ {k} /\ ApartInv
        BY <3>3 DEF BuiltInv
      <4> QED
        BY <2>2, <3>1, <4>1, SourcesFrame
    <3> QED
      BY <3>2, <3>3
  <2> QED
    BY <2>3, <2>4 DEF BuiltInv
<1>2. CASE UNCHANGED vars
  BY <1>2 DEF vars, BuiltInv, ApartInv, SourcesInv, Running, Touched, IsCheck, IsAot, ProgramPath,
     Output, CompilerInput, Generated, Program, Entry, Whole, Expected
<1> QED
  BY <1>1, <1>2

\* Kept apart from the runs that touch its files, a run whose code generator
\* returned true has an output made of its own program and main, whole and once,
\* whatever the disk held before and whichever runs were killed or failed
\* (nova_codegen_emit_object and nova_codegen_emit_executable).
THEOREM BuiltFromOwn == Spec => []BuiltFromOwnProgram
<1>1. Init => BuiltInv
  BY DEF Init, BuiltInv, ApartInv, SourcesInv, AotCPlaces, Running
<1>2. TypeInv /\ BuiltInv => BuiltFromOwnProgram
  <2> SUFFICES ASSUME TypeInv, BuiltInv, apart, NEW j \in Jobs, At(j, "ok")
               PROVE  files[Output(j)] = Content("binary", Expected(j))
    BY DEF BuiltFromOwnProgram
  <2>1. IsCheck(j)
    BY DEF TypeInv, ControlInv, CheckPlaces, At
  <2> QED
    BY <2>1 DEF BuiltInv, SourcesInv, At
<1>3. Spec => []BuiltInv
  BY <1>1, InitTypes, StepTypes, StepBuilt, PTL DEF Spec
<1> QED
  BY <1>2, <1>3, Types, PTL
=============================================================================
