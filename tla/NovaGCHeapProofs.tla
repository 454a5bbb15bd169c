-------------------------- MODULE NovaGCHeapProofs --------------------------
(***************************************************************************)
(* Two results about whole runs of the collector.  With a quiet client it  *)
(* implements ManagedHeap: every step maps to a step of the heap without a *)
(* collector, or shows nothing.  With any client that has not reached a    *)
(* freed object, the mark stack holds objects that exist.                  *)
(***************************************************************************)
EXTENDS NovaGCProofs

\* What ManagedHeap's variables stand for.
seen == <<Live, children, slot, Registered, pc # "destroyed">>

\* nova_gc_destroy frees every object and the root table.
EmptyWhenDestroyed == pc = "destroyed" => objects = <<>> /\ roots = <<>>

-----------------------------------------------------------------------------
(* The sequences as sets                                                   *)

\* The elements of a sequence are those at its positions.
LEMMA Elements ==
  ASSUME NEW S, NEW s \in Seq(S)
  PROVE  /\ Len(s) \in Nat /\ DOMAIN s = 1..Len(s)
         /\ ToSet(s) = {s[i] : i \in 1..Len(s)} /\ ToSet(s) \subseteq S
<1>1. Len(s) \in Nat /\ DOMAIN s = 1..Len(s)
  BY LenProperties
<1>2. ToSet(s) = {s[i] : i \in 1..Len(s)}
  BY <1>1 DEF ToSet
<1>3. ToSet(s) \subseteq S
  BY <1>2, ElementOfSeq
<1> QED
  BY <1>1, <1>2, <1>3

LEMMA EmptyElements == ToSet(<<>>) = {}
  BY DEF ToSet

\* Linking an object at the head of the list adds it.
LEMMA ConsElements ==
  ASSUME NEW S, NEW s \in Seq(S), NEW e \in S
  PROVE  ToSet(Cons(e, s)) = ToSet(s) \cup {e}
<1> DEFINE t == Cons(e, s)
<1>1. /\ t \in Seq(S) /\ Len(t) = Len(s) + 1 /\ t[1] = e
      /\ \A j \in 1..Len(s) : t[j+1] = s[j]
  BY ConsFacts
<1> HIDE DEF t
<1>2. /\ Len(s) \in Nat /\ ToSet(s) = {s[i] : i \in 1..Len(s)}
      /\ ToSet(t) = {t[i] : i \in 1..Len(t)}
  BY <1>1, Elements
<1>3. ASSUME NEW x \in ToSet(t) PROVE x \in ToSet(s) \cup {e}
  <2>1. PICK i \in 1..Len(t) : x = t[i]
    BY <1>2
  <2>2. CASE i = 1
    BY <1>1, <2>1, <2>2
  <2>3. CASE i # 1
    <3>1. i-1 \in 1..Len(s) /\ (i-1)+1 = i
      BY <1>1, <1>2, <2>3
    <3>2. x = s[i-1]
      BY <1>1, <2>1, <3>1
    <3> QED
      BY <1>2, <3>1, <3>2
  <2> QED
    BY <2>2, <2>3
<1>4. ASSUME NEW x \in ToSet(s) PROVE x \in ToSet(t)
  <2>1. PICK i \in 1..Len(s) : x = s[i]
    BY <1>2
  <2>2. i+1 \in 1..Len(t) /\ t[i+1] = x
    BY <1>1, <1>2, <2>1
  <2> QED
    BY <1>2, <2>2
<1>5. e \in ToSet(t)
  <2>1. 1 \in 1..Len(t)
    BY <1>1, <1>2
  <2> QED
    BY <1>1, <1>2, <2>1
<1> QED
  BY <1>3, <1>4, <1>5 DEF t

LEMMA AppendElements ==
  ASSUME NEW S, NEW s \in Seq(S), NEW e \in S
  PROVE  ToSet(Append(s, e)) = ToSet(s) \cup {e}
<1> DEFINE t == Append(s, e)
<1>1. /\ t \in Seq(S) /\ Len(t) = Len(s) + 1 /\ t[Len(s)+1] = e
      /\ \A j \in 1..Len(s) : t[j] = s[j]
  BY AppendProperties
<1> HIDE DEF t
<1>2. /\ Len(s) \in Nat /\ ToSet(s) = {s[i] : i \in 1..Len(s)}
      /\ ToSet(t) = {t[i] : i \in 1..Len(t)}
  BY <1>1, Elements
<1>3. 1..Len(t) = (1..Len(s)) \cup {Len(s)+1}
  BY <1>1, <1>2
<1> QED
  BY <1>1, <1>2, <1>3 DEF t

\* Unlinking an object from a list that holds nothing twice removes it.
LEMMA RemoveAtElements ==
  ASSUME NEW S, NEW s \in Seq(S), NEW k \in 1..Len(s),
         \A i, j \in 1..Len(s) : s[i] = s[j] => i = j
  PROVE  /\ ToSet(RemoveAt(s, k)) = ToSet(s) \ {s[k]}
         /\ \A i, j \in 1..Len(RemoveAt(s, k)) : RemoveAt(s, k)[i] = RemoveAt(s, k)[j] => i = j
<1> DEFINE t == RemoveAt(s, k)
           at(j) == IF j < k THEN j ELSE j + 1
<1>1. /\ t \in Seq(S) /\ Len(t) = Len(s) - 1
      /\ \A j \in 1..Len(s)-1 : t[j] = IF j < k THEN s[j] ELSE s[j+1]
  BY RemoveAtFacts
<1> HIDE DEF t
<1>2. /\ Len(s) \in Nat /\ ToSet(s) = {s[i] : i \in 1..Len(s)}
      /\ ToSet(t) = {t[i] : i \in 1..Len(t)}
  BY <1>1, Elements
<1>3. \A j \in 1..Len(t) : at(j) \in 1..Len(s) /\ at(j) # k /\ t[j] = s[at(j)]
  BY <1>1, <1>2
<1>4. \A i, j \in 1..Len(t) : at(i) = at(j) => i = j
  BY <1>1, <1>2
<1>5. ASSUME NEW i \in 1..Len(s), i # k PROVE \E j \in 1..Len(t) : at(j) = i
  <2>1. CASE i < k
    <3>1. i \in 1..Len(t) /\ at(i) = i
      BY <1>1, <1>2, <2>1
    <3> QED
      BY <3>1
  <2>2. CASE i > k
    <3>1. i-1 \in 1..Len(t) /\ at(i-1) = i
      BY <1>1, <1>2, <2>2
    <3> QED
      BY <3>1
  <2> QED
    BY <1>2, <1>5, <2>1, <2>2
<1> HIDE DEF at
<1>6. ToSet(t) = ToSet(s) \ {s[k]}
  <2>1. ToSet(t) \subseteq ToSet(s) \ {s[k]}
    BY <1>2, <1>3
  <2>2. ToSet(s) \ {s[k]} \subseteq ToSet(t)
    <3> SUFFICES ASSUME NEW i \in 1..Len(s), s[i] # s[k] PROVE s[i] \in ToSet(t)
      BY <1>2
    <3>1. PICK j \in 1..Len(t) : at(j) = i
      BY <1>5
    <3> QED
      BY <1>2, <1>3, <3>1
  <2> QED
    BY <2>1, <2>2
<1>7. \A i, j \in 1..Len(t) : t[i] = t[j] => i = j
  BY <1>3, <1>4
<1> QED
  BY <1>6, <1>7 DEF t

\* nova_gc_remove_root loses no registration but one of s.
LEMMA RemoveRootElements ==
  ASSUME NEW r \in Seq(Slots), NEW i \in 1..Len(r)
  PROVE  LET t == Front([r EXCEPT ![i] = Last(r)])
         IN  ToSet(r) \ {r[i]} \subseteq ToSet(t) /\ ToSet(t) \subseteq ToSet(r)
<1> DEFINE u == [r EXCEPT ![i] = Last(r)]
           t == Front(u)
<1>1. r # <<>> /\ Last(r) \in Slots /\ Last(r) = r[Len(r)] /\ Len(r) \in Nat \ {0}
  <2>1. Len(r) # 0
    BY LenProperties
  <2> QED
    BY <2>1, EmptySeq, FrontFacts
<1>2. /\ u \in Seq(Slots) /\ Len(u) = Len(r)
      /\ \A j \in 1..Len(r) : u[j] = IF j = i THEN Last(r) ELSE r[j]
  BY <1>1, ExceptSeq
<1> HIDE DEF u
<1>3. /\ t \in Seq(Slots) /\ Len(t) = Len(r) - 1
      /\ \A j \in 1..Len(r)-1 : t[j] = u[j]
  BY <1>1, <1>2, FrontFacts, EmptySeq
<1>4. ToSet(t) \subseteq ToSet(r)
  BY RemoveRootFacts DEF u
<1> HIDE DEF t
<1>5. ToSet(t) = {t[j] : j \in 1..Len(t)} /\ ToSet(r) = {r[j] : j \in 1..Len(r)}
  BY <1>3, Elements
<1>6. ASSUME NEW j \in 1..Len(r), r[j] # r[i] PROVE r[j] \in ToSet(t)
  <2>1. CASE j < Len(r)
    <3>1. j \in 1..Len(t) /\ j \in 1..Len(r)-1 /\ t[j] = r[j]
      BY <1>1, <1>2, <1>3, <1>6, <2>1
    <3> QED
      BY <1>5, <3>1
  <2>2. CASE j = Len(r)
    <3>1. i \in 1..Len(t) /\ i \in 1..Len(r)-1
      BY <1>1, <1>3, <1>6, <2>2
    <3>2. t[i] = r[j]
      BY <1>1, <1>2, <1>3, <2>2, <3>1
    <3> QED
      BY <1>5, <3>1, <3>2
  <2> QED
    BY <1>1, <2>1, <2>2
<1> QED
  BY <1>4, <1>5, <1>6 DEF t, u

-----------------------------------------------------------------------------
(* Steps that show nothing                                                 *)

\* What the marking, the tables and the bookkeeping of a cycle leave alone.
LEMMA NothingSeen ==
  ASSUME UNCHANGED <<objects, children, slot, roots>>, pc # "destroyed", pc' # "destroyed"
  PROVE  UNCHANGED seen
  BY DEF seen, Live, Registered

\* Nothing is left of the heap between nova_gc_destroy and nova_gc_create.
LEMMA EmptyStep ==
  ASSUME EmptyWhenDestroyed, [Next]_vars
  PROVE  EmptyWhenDestroyed'
<1>1. CASE pc' # "destroyed"
  BY <1>1 DEF EmptyWhenDestroyed
<1>2. CASE pc' = "destroyed" /\ pc = "destroyed"
  <2>1. UNCHANGED <<objects, roots>>
    BY <1>2 DEF Next, Client, Collector, vars, listVars, markVars, rootVars, cycleVars,
          sizeVars, clientVars, BeginStep, ScanRoots, TraceSome, TraceCallback, SweepSome,
          FinishStep, Alloc, AllocNull, AddRoot, RemoveRoot, ClientMark, CollectStep, Collect,
          Destroy, Create, StoreChild, ClearChild, LoadChild, Forget
  <2> QED
    BY <1>2, <2>1 DEF EmptyWhenDestroyed
<1>3. CASE pc' = "destroyed" /\ pc # "destroyed"
  <2>1. Destroy
    BY <1>3 DEF Next, Client, Collector, vars, listVars, markVars, rootVars, cycleVars,
          sizeVars, clientVars, BeginStep, ScanRoots, TraceSome, TraceCallback, SweepSome,
          FinishStep, Alloc, AllocNull, AddRoot, RemoveRoot, ClientMark, CollectStep, Collect,
          Create, StoreChild, ClearChild, LoadChild, Forget
  <2> QED
    BY <2>1 DEF Destroy, EmptyWhenDestroyed
<1> QED
  BY <1>1, <1>2, <1>3

-----------------------------------------------------------------------------
(* The steps of the collector                                              *)

\* A step begins: locals that are not registered are forgotten.
LEMMA BeginShows ==
  ASSUME TypeOK, QuietInv, BeginStep
  PROVE  Heap!Next
<1>1. /\ UNCHANGED <<objects, children, roots>> /\ slot' = ForgetLocals
      /\ pc # "destroyed" /\ pc' # "destroyed"
  BY DEF BeginStep, listVars, rootVars
<1>2. Live' = Live /\ Registered' = Registered
  BY <1>1 DEF Live, Registered
<1>3. slot' = [s \in Slots |-> IF s \in Slots \ Registered THEN Null ELSE slot[s]]
  BY <1>1 DEF ForgetLocals
<1>4. Heap!Forget(Slots \ Registered)
  BY <1>1, <1>2, <1>3 DEF Heap!Forget
<1> QED
  BY <1>4 DEF Heap!Next

\* The scan of the roots, the trace and the end of a step show nothing.
LEMMA MarkingShowsNothing ==
  ASSUME TypeOK, QuietInv, ScanRoots \/ TraceSome \/ TraceCallback \/ FinishStep
  PROVE  UNCHANGED seen
<1>1. pc # "destroyed" /\ pc' # "destroyed" /\ UNCHANGED <<objects, children, roots>>
  BY DEF ScanRoots, TraceSome, TraceCallback, FinishStep, listVars, rootVars, clientVars
<1>2. call.by # "alloc"
  BY <1>1 DEF QuietInv, HeapInv, ControlInv
<1>3. UNCHANGED slot
  BY <1>2 DEF ScanRoots, TraceSome, TraceCallback, FinishStep, clientVars
<1> QED
  BY <1>1, <1>3, NothingSeen

\* sweep_some frees an object that no registered variable leads to: what is
\* marked or swept over is closed and holds every root, and it is neither.
LEMMA SweepShows ==
  ASSUME TypeOK, QuietInv, SweepSome
  PROVE  Heap!Next \/ UNCHANGED seen
<1>1. /\ pc = "sweep" /\ HeapInv /\ pc' \in {"sweep", "finish"}
      /\ UNCHANGED <<children, slot, roots>>
  BY DEF QuietInv, SweepSome, rootVars, clientVars
<1>2. CASE UNCHANGED objects
  BY <1>1, <1>2, NothingSeen
<1>3. CASE sweep_cursor < Len(objects) /\ SweepFree
  <2> DEFINE k == sweep_cursor + 1
             o == objects[k]
  <2>1. /\ k \in 1..Len(objects) /\ objects \in Seq(Objects)
        /\ \A i, j \in 1..Len(objects) : objects[i] = objects[j] => i = j
        /\ objects' = RemoveAt(objects, k) /\ ~marked[o]
    BY <1>1, <1>3, ViewFacts DEF SweepFree, TypeOK, HeapInv, ListInv
  <2>2. o \in Live
    BY <2>1, ViewFacts
  <2>3. Live' = Live \ {o}
    <3> HIDE DEF k
    <3> QED
      BY <2>1, RemoveAtElements DEF Live
  <2>4. o \notin Kept
    <3>1. o \notin Behind
      BY <2>1 DEF Behind, TypeOK
    <3> QED
      BY <2>1, <3>1 DEF Kept, Marked
  <2> HIDE DEF o
  <2>5. Scanned /\ Grey = {} /\ call.todo = {}
    BY <1>1, ViewFacts DEF HeapInv, ControlInv, Scanned
  <2>6. /\ RootValues \cap Objects \subseteq Kept
        /\ \A p \in Kept : children[p] \subseteq Kept
    BY <1>1, <2>5, ObjectsAssumption DEF HeapInv, SlotInv, ClosureInv
  <2>7. Kept \in SUBSET Objects
    BY <1>1, ViewFacts DEF HeapInv, ListInv, Kept
  <2>8. o \notin Heap!Reachable
    BY <2>4, <2>6, <2>7 DEF Heap!Reachable, Heap!ReachableFrom, RootValues
  <2>9. Heap!Reclaim(o)
    BY <1>1, <2>2, <2>3, <2>8 DEF Heap!Reclaim, Registered
  <2> QED
    BY <2>2, <2>9, ViewFacts DEF Heap!Next
<1> QED
  BY <1>2, <1>3 DEF SweepSome, SweepKeep, listVars

-----------------------------------------------------------------------------
(* The steps of the client                                                 *)

LEMMA AllocShows ==
  ASSUME TypeOK, Quiet, NEW s \in Slots, NEW o \in Objects, NEW n \in Sizes, Alloc(s, o, n)
  PROVE  Heap!Next
<1>1. bytes_allocated' <= threshold_bytes
  <2>1. ~(bytes_allocated + n > threshold_bytes)
    BY DEF Alloc, MayAlloc, Quiet
  <2> QED
    BY <2>1, SizesAssumption DEF Alloc, TypeOK
<1>2. ~(bytes_allocated' > threshold_bytes)
  BY <1>1, SizesAssumption DEF Alloc, TypeOK
<1>3. /\ pc = "client" /\ pc' = "client" /\ o \notin Live /\ UNCHANGED roots
      /\ objects' = Cons(o, objects) /\ slot' = [slot EXCEPT ![s] = o]
      /\ children' = [children EXCEPT ![o] = {}]
  BY <1>2 DEF Alloc, rootVars
<1>4. Live' = Live \cup {o}
  BY <1>3, ConsElements DEF Live, TypeOK
<1>5. Heap!Allocate(s, o)
  BY <1>3, <1>4 DEF Heap!Allocate, Registered
<1> QED
  BY <1>5 DEF Heap!Next

\* AllocNull and Forget put NULL in one variable.
LEMMA ForgetShows ==
  ASSUME TypeOK, NEW s \in Slots, AllocNull(s) \/ Forget(s)
  PROVE  Heap!Next
<1>1. /\ pc # "destroyed" /\ pc' # "destroyed" /\ UNCHANGED <<objects, children, roots>>
      /\ slot' = [slot EXCEPT ![s] = Null]
  BY DEF AllocNull, Forget, listVars, rootVars
<1>2. slot' = [t \in Slots |-> IF t \in {s} THEN Null ELSE slot[t]]
  BY <1>1 DEF TypeOK
<1>3. Heap!Forget({s})
  BY <1>1, <1>2 DEF Heap!Forget, Live, Registered
<1> QED
  BY <1>3 DEF Heap!Next

\* A second registration of a slot shows nothing; neither does the removal of
\* one of two.
LEMMA RootsShow ==
  ASSUME TypeOK, NEW s \in Slots, AddRoot(s) \/ RemoveRoot(s)
  PROVE  Heap!Next \/ UNCHANGED seen
<1>1. /\ pc = "client" /\ pc' = "client" /\ UNCHANGED <<objects, children, slot>>
      /\ Live' = Live /\ roots \in Seq(Slots)
  BY DEF AddRoot, RemoveRoot, listVars, clientVars, Live, TypeOK
<1>2. CASE AddRoot(s)
  <2>1. CASE UNCHANGED roots
    BY <1>1, <2>1, NothingSeen
  <2>2. CASE roots' = Append(roots, s)
    <3>1. Registered' = Registered \cup {s}
      BY <1>1, <2>2, AppendElements DEF Registered
    <3>2. Heap!Register(s)
      BY <1>1, <3>1 DEF Heap!Register
    <3> QED
      BY <3>2 DEF Heap!Next
  <2> QED
    BY <1>2, <2>1, <2>2 DEF AddRoot, rootVars
<1>3. CASE RemoveRoot(s)
  <2>1. PICK i \in 1..Len(roots) :
          roots[i] = s /\ roots' = Front([roots EXCEPT ![i] = Last(roots)])
    BY <1>3 DEF RemoveRoot
  <2>2. Registered \ {s} \subseteq Registered' /\ Registered' \subseteq Registered
    BY <1>1, <2>1, RemoveRootElements DEF Registered
  <2>3. CASE s \in Registered'
    <3>1. Registered' = Registered
      BY <2>2, <2>3
    <3> QED
      BY <1>1, <3>1 DEF seen
  <2>4. CASE s \notin Registered'
    <3>1. Registered' = Registered \ {s}
      BY <2>2, <2>4
    <3>2. Heap!Unregister(s)
      BY <1>1, <3>1 DEF Heap!Unregister
    <3> QED
      BY <3>2 DEF Heap!Next
  <2> QED
    BY <2>3, <2>4
<1> QED
  BY <1>2, <1>3

\* The client's own reads and writes of payloads: what it holds exists, and so
\* does what it reads.
LEMMA PayloadsShow ==
  ASSUME TypeOK, QuietInv, NEW s \in Slots,
         \/ \E t \in Slots : StoreChild(s, t) \/ LoadChild(s, t)
         \/ \E p \in Objects : ClearChild(s, p)
  PROVE  Heap!Next
<1>1. /\ pc = "client" /\ pc' = "client" /\ UNCHANGED <<objects, roots>> /\ slot[s] # Null
      /\ Live' = Live /\ Registered' = Registered
  BY DEF StoreChild, LoadChild, ClearChild, listVars, rootVars, Live, Registered
<1>2. \A t \in Slots : slot[t] \in Live \cup {Null}
  BY <1>1 DEF QuietInv, HeapInv, SlotInv
<1>3. ASSUME NEW t \in Slots, StoreChild(s, t) PROVE Heap!Next
  <2>1. /\ slot[t] # Null /\ UNCHANGED slot
        /\ children' = [children EXCEPT ![slot[s]] = @ \cup {slot[t]}]
    BY <1>3 DEF StoreChild
  <2>2. Heap!Write(s, t)
    BY <1>1, <1>2, <2>1 DEF Heap!Write
  <2> QED
    BY <2>2 DEF Heap!Next
<1>4. ASSUME NEW t \in Slots, LoadChild(s, t) PROVE Heap!Next
  <2>1. PICK p \in children[slot[s]] : slot' = [slot EXCEPT ![t] = p] /\ UNCHANGED children
    BY <1>4 DEF LoadChild
  <2>2. p \in Live
    <3>1. CASE Settled
      <4>1. Scanned /\ Grey = {} /\ call.todo = {}
        BY <1>1, <3>1, ViewFacts DEF QuietInv, HeapInv, ControlInv, Settled
      <4>2. slot[s] \in Kept
        BY <1>1, <3>1 DEF QuietInv, HeapInv, SlotInv, HeldValues
      <4>3. children[slot[s]] \subseteq Kept
        BY <1>1, <4>1, <4>2 DEF QuietInv, HeapInv, ClosureInv
      <4>4. Kept \subseteq Live
        BY <1>1, ViewFacts DEF QuietInv, HeapInv, ListInv, Kept
      <4> QED
        BY <2>1, <4>3, <4>4
    <3>2. CASE ~Settled
      BY <1>1, <1>2, <2>1, <3>2 DEF QuietInv, HeapInv, ClosureInv
    <3> QED
      BY <3>1, <3>2
  <2>3. Heap!Read(s, t)
    BY <1>1, <1>2, <2>1, <2>2 DEF Heap!Read
  <2> QED
    BY <2>3 DEF Heap!Next
<1>5. ASSUME NEW p \in Objects, ClearChild(s, p) PROVE Heap!Next
  <2>1. UNCHANGED slot /\ children' = [children EXCEPT ![slot[s]] = @ \ {p}]
    BY <1>5 DEF ClearChild
  <2>2. Heap!Erase(s, p)
    BY <1>1, <1>2, <2>1 DEF Heap!Erase
  <2> QED
    BY <2>2 DEF Heap!Next
<1> QED
  BY <1>3, <1>4, <1>5

\* The heap is closed and opened again.
LEMMA LifeShows ==
  ASSUME TypeOK, EmptyWhenDestroyed, Destroy \/ Create
  PROVE  Heap!Next
<1>1. CASE Destroy
  <2>1. Live' = {} /\ Registered' = {}
    BY <1>1, EmptyElements DEF Destroy, Live, Registered
  <2>2. Heap!Close
    BY <1>1, <2>1 DEF Destroy, Heap!Close
  <2> QED
    BY <2>2 DEF Heap!Next
<1>2. CASE Create
  <2>1. /\ pc = "destroyed" /\ pc' = "client" /\ UNCHANGED <<objects, roots, slot>>
        /\ children' = [o \in Objects |-> {}]
    BY <1>2 DEF Create, EmptyWhenDestroyed
  <2>2. Heap!Open
    BY <2>1 DEF Heap!Open, Live, Registered
  <2> QED
    BY <2>2 DEF Heap!Next
<1> QED
  BY <1>1, <1>2

-----------------------------------------------------------------------------
\* Each step of the collector and of a quiet client is a step of ManagedHeap,
\* or shows nothing.
LEMMA StepShows ==
  ASSUME TypeOK, QuietInv, EmptyWhenDestroyed, Quiet, [Next]_vars
  PROVE  Heap!Next \/ UNCHANGED seen
<1>1. CASE Collector
  BY <1>1, BeginShows, MarkingShowsNothing, SweepShows DEF Collector
<1>2. CASE Client
  <2>1. ASSUME NEW s \in Slots, ClientMark(s) PROVE UNCHANGED seen
    BY <2>1, NothingSeen DEF ClientMark, listVars, rootVars, clientVars
  <2>2. ASSUME NEW b \in Budgets, CollectStep(b) PROVE UNCHANGED seen
    BY <2>2, NothingSeen DEF CollectStep, listVars, rootVars, clientVars
  <2>3. ASSUME Collect PROVE UNCHANGED seen
    BY <2>3, NothingSeen DEF Collect, listVars, rootVars, clientVars
  <2>4. ASSUME NEW s \in Slots, AllocNull(s) \/ Forget(s) PROVE Heap!Next
    BY <2>4, ForgetShows
  <2>5. ASSUME NEW s \in Slots, AddRoot(s) \/ RemoveRoot(s) PROVE Heap!Next \/ UNCHANGED seen
    BY <2>5, RootsShow
  <2>6. ASSUME NEW s \in Slots, NEW t \in Slots, StoreChild(s, t) \/ LoadChild(s, t)
        PROVE  Heap!Next
    BY <2>6, PayloadsShow
  <2>7. ASSUME NEW s \in Slots, NEW p \in Objects, ClearChild(s, p) PROVE Heap!Next
    BY <2>7, PayloadsShow
  <2>8. ASSUME NEW s \in Slots, NEW o \in Objects, NEW n \in Sizes, Alloc(s, o, n)
        PROVE  Heap!Next
    BY <2>8, AllocShows
  <2>9. ASSUME Destroy \/ Create PROVE Heap!Next
    BY <2>9, LifeShows
  <2> QED
    BY <1>2, <2>1, <2>2, <2>3, <2>4, <2>5, <2>6, <2>7, <2>8, <2>9 DEF Client
<1>3. CASE UNCHANGED vars
  BY <1>3 DEF vars, listVars, rootVars, clientVars, seen, Live, Registered
<1> QED
  BY <1>1, <1>2, <1>3 DEF Next

\* With a quiet client the collector implements the heap without a collector:
\* objects go away one by one, and only when no registered variable leads to
\* them; marking, cycles and tables never show.
THEOREM HeapRefinement ==
  ASSUME Quiet
  PROVE  Spec => ImplementsManagedHeap
<1>1. Init => Heap!Init /\ EmptyWhenDestroyed
  BY EmptyElements DEF Init, Heap!Init, EmptyWhenDestroyed, Live, Registered
<1>2. EmptyWhenDestroyed /\ [Next]_vars => EmptyWhenDestroyed'
  BY EmptyStep
<1>3. TypeOK /\ QuietInv /\ EmptyWhenDestroyed /\ [Next]_vars => [Heap!Next]_(Heap!vars)
  BY StepShows DEF Heap!vars, seen
<1> QED
  BY <1>1, <1>2, <1>3, TypeCorrect, QuietInvariant, PTL DEF Spec, ImplementsManagedHeap, Heap!Spec

-----------------------------------------------------------------------------
(***************************************************************************)
(* The mark stack under any client.  A client with liberties may end up    *)
(* reaching an object that was freed; from then on the C++ program is      *)
(* undefined, so only runs that leave no such state are followed.  In them *)
(* the client may allocate over the threshold, write payloads and register *)
(* roots while a cycle runs, mark in the middle of a sweep, and the        *)
(* allocator may refuse the mark stack: the sweep frees nothing as long as *)
(* anything waits to be traced, so all that the stack leads to exists.     *)
(***************************************************************************)
AnyClientSpec == Init /\ [][ReachableStaysLive /\ Next]_vars

\* What waits to be traced lies in a set of objects that exist and lead only
\* to one another.
ClosedOver(P, K) == P \subseteq K /\ K \subseteq Live /\ \A p \in K : children[p] \subseteq K

StackInv ==
  /\ Grey \subseteq Marked
  /\ pc = "sweep" => mark_stack = <<>>
  /\ pc # "tracing" => call.todo = {}
  /\ pc = "destroyed" => mark_stack = <<>>
  /\ \E K \in SUBSET Objects : ClosedOver(Grey \cup call.todo, K)

\* nova_gc_mark_ptr on any pointer, whether or not the mark stack can grow.
LEMMA MarkPtrGreys ==
  ASSUME TypeOK, TypeOK', NEW p \in Pointers, MarkPtr(p)
  PROVE  /\ Marked \subseteq Marked' /\ Grey' \subseteq Grey \cup ({p} \cap Objects)
         /\ Grey \subseteq Marked => Grey' \subseteq Marked'
<1>1. CASE UNCHANGED markVars
  BY <1>1 DEF markVars, Marked, Grey
<1>2. CASE ~(p = Null \/ marked[p])
  <2>1. p \in Objects /\ marked' = [marked EXCEPT ![p] = TRUE]
    BY <1>2 DEF MarkPtr, Pointers
  <2>2. Marked' = Marked \cup {p}
    BY <2>1 DEF Marked, TypeOK
  <2>3. mark_stack' = mark_stack \/ mark_stack' = Append(mark_stack, p)
    BY <1>2 DEF MarkPtr
  <2>4. Grey' = Grey \/ Grey' = Grey \cup {p}
    <3>1. mark_stack \in Seq(Objects)
      BY DEF TypeOK
    <3>2. ToSet(Append(mark_stack, p)) = ToSet(mark_stack) \cup {p}
      BY <2>1, <3>1, AppendElements
    <3> QED
      BY <2>3, <3>2 DEF Grey
  <2> QED
    BY <2>1, <2>2, <2>4
<1> QED
  BY <1>1, <1>2 DEF MarkPtr

\* All the client can reach and all that waits to be traced lies in one
\* closed set of objects that exist.
LEMMA CommonClosure ==
  ASSUME TypeOK, StackInv, ReachableStaysLive
  PROVE  \E K \in SUBSET Objects :
            ClosedOver((HeldValues \cap Objects) \cup Grey \cup call.todo, K)
<1> DEFINE R == ReachableFrom(HeldValues)
<1>1. PICK K \in SUBSET Objects : ClosedOver(Grey \cup call.todo, K)
  BY DEF StackInv
<1>2. R \in SUBSET Objects /\ R \subseteq Live /\ HeldValues \cap Objects \subseteq R
  BY DEF ReachableFrom, ReachableStaysLive
<1>3. ASSUME NEW p \in R PROVE children[p] \subseteq R
  <2> SUFFICES ASSUME NEW q \in children[p], NEW L \in SUBSET Objects,
                      HeldValues \cap Objects \subseteq L, \A x \in L : children[x] \subseteq L
               PROVE  q \in L
    BY <1>2 DEF ReachableFrom, TypeOK
  <2>1. p \in L
    BY <1>3 DEF ReachableFrom
  <2> QED
    BY <2>1
<1> HIDE DEF R
<1>4. ClosedOver((HeldValues \cap Objects) \cup Grey \cup call.todo, K \cup R)
  BY <1>1, <1>2, <1>3 DEF ClosedOver
<1> QED
  BY <1>2, <1>4

LEMMA StackStep ==
  ASSUME TypeOK, TypeOK', StackInv, [ReachableStaysLive /\ Next]_vars
  PROVE  StackInv'
<1>1. CASE UNCHANGED vars
  BY <1>1 DEF vars, StackInv, ClosedOver, listVars, markVars, clientVars, Grey, Marked, Live
<1> SUFFICES ASSUME ReachableStaysLive, Next PROVE StackInv'
  BY <1>1
<1>2. PICK K \in SUBSET Objects :
        /\ HeldValues \cap Objects \subseteq K /\ Grey \subseteq K /\ call.todo \subseteq K
        /\ K \subseteq Live /\ \A p \in K : children[p] \subseteq K
  BY CommonClosure DEF ClosedOver
<1>3. \A s \in Slots : slot[s] \in K \cup {Null}
  BY <1>2 DEF TypeOK, Pointers, HeldValues
<1>4. Grey \subseteq Marked /\ (pc # "tracing" => call.todo = {})
  BY DEF StackInv
\* A step that frees nothing, changes no payload and adds to what waits only
\* what lies in K.
<1>5. ASSUME Grey' \subseteq Marked', Grey' \cup call'.todo \subseteq K, Live \subseteq Live',
             UNCHANGED children, pc' \in {"sweep", "destroyed"} => mark_stack' = <<>>,
             pc' # "tracing" => call'.todo = {}
      PROVE  StackInv'
  BY <1>2, <1>5 DEF StackInv, ClosedOver
\* A step after which nothing waits to be traced.
<1>6. ASSUME mark_stack' = <<>>, call'.todo = {} PROVE StackInv'
  <2>1. Grey' = {}
    BY <1>6, EmptyElements DEF Grey
  <2>2. ClosedOver(Grey \cup call.todo, {})'
    BY <1>6, <2>1 DEF ClosedOver
  <2> QED
    BY <1>6, <2>1, <2>2 DEF StackInv
\* nova_gc_mark_ptr on a pointer that lies in K.
<1>7. ASSUME NEW p \in K \cup {Null}, MarkPtr(p), call'.todo \subseteq call.todo,
             UNCHANGED <<objects, children, pc>>, pc \in {"client", "scan", "tracing"}
      PROVE  StackInv'
  <2>1. p \in Pointers
    BY <1>2 DEF Pointers
  <2>2. Grey' \subseteq Grey \cup ({p} \cap Objects) /\ Grey' \subseteq Marked'
    BY <1>4, <1>7, <2>1, MarkPtrGreys
  <2>3. {p} \cap Objects \subseteq K /\ Live' = Live
    BY <1>7, ObjectsAssumption DEF Live
  <2> QED
    BY <1>2, <1>4, <1>5, <1>7, <2>2, <2>3
<1>8. CASE BeginStep
  <2>1. UNCHANGED <<objects, marked, mark_stack, children, call>> /\ pc' \in {"scan", "trace"}
        /\ pc = "enter"
    BY <1>8 DEF BeginStep, listVars, markVars
  <2>2. Live' = Live /\ Grey' = Grey /\ Marked' = Marked
    BY <2>1 DEF Live, Grey, Marked
  <2> QED
    BY <1>2, <1>4, <1>5, <2>1, <2>2
<1>9. CASE ScanRoots
  <2>1. UNCHANGED <<objects, children>> /\ pc = "scan"
    BY <1>9 DEF ScanRoots, listVars, clientVars
  <2>2. CASE call.i <= Len(roots) /\ MarkPtr(slot[roots[call.i]])
             /\ call' = [call EXCEPT !.i = @ + 1] /\ UNCHANGED pc
    <3>1. roots[call.i] \in Slots
      <4>1. roots \in Seq(Slots) /\ Len(roots) \in Nat /\ call.i \in Nat \ {0}
        BY CallFields, LenProperties DEF TypeOK
      <4>2. call.i \in 1..Len(roots)
        BY <2>2, <4>1
      <4> QED
        BY <4>1, <4>2, ElementOfSeq
    <3>2. call'.todo = call.todo
      BY <2>2 DEF TypeOK, CallType
    <3> QED
      BY <1>3, <1>7, <2>1, <2>2, <3>1, <3>2
  <2>3. CASE pc' = "trace" /\ UNCHANGED <<markVars, call>>
    <3>1. Live' = Live /\ Grey' = Grey /\ Marked' = Marked
      BY <2>1, <2>3 DEF Live, Grey, Marked, markVars
    <3> QED
      BY <1>2, <1>4, <1>5, <2>1, <2>3, <3>1
  <2> QED
    BY <1>9, <2>2, <2>3 DEF ScanRoots
<1>10. CASE TraceSome
  <2>1. UNCHANGED <<objects, marked, children>> /\ pc = "trace" /\ call.todo = {}
        /\ Live' = Live /\ Marked' = Marked
    BY <1>4, <1>10 DEF TraceSome, listVars, clientVars, Live, Marked
  <2>2. CASE /\ mark_stack # <<>> /\ mark_stack' = Front(mark_stack) /\ pc' = "tracing"
             /\ call' = [call EXCEPT !.node = Last(mark_stack),
                                     !.todo = children[Last(mark_stack)], !.trace = @ - 1]
    <3>1. call'.todo = children[Last(mark_stack)]
      BY <2>2 DEF TypeOK, CallType
    <3>2. /\ Front(mark_stack) \in Seq(Objects) /\ Len(Front(mark_stack)) = Len(mark_stack) - 1
          /\ \A j \in 1..Len(mark_stack)-1 : Front(mark_stack)[j] = mark_stack[j]
          /\ Last(mark_stack) = mark_stack[Len(mark_stack)] /\ Len(mark_stack) \in Nat \ {0}
      BY <2>2, FrontFacts DEF TypeOK
    <3>3. /\ Grey = {mark_stack[j] : j \in 1..Len(mark_stack)}
          /\ Grey' = {mark_stack'[j] : j \in 1..Len(mark_stack')}
      BY Elements DEF Grey, TypeOK
    <3>4. Last(mark_stack) \in Grey /\ Grey' \subseteq Grey
      BY <2>2, <3>2, <3>3
    <3> QED
      BY <1>2, <1>4, <1>5, <2>1, <2>2, <3>1, <3>4
  <2>3. CASE UNCHANGED <<mark_stack, call>> /\ (pc' = "sweep" => mark_stack = <<>>)
             /\ pc' \in {"sweep", "finish"}
    <3>1. Grey' = Grey
      BY <2>3 DEF Grey
    <3> QED
      BY <1>2, <1>4, <1>5, <2>1, <2>3, <3>1
  <2> QED
    BY <1>10, <2>2, <2>3 DEF TraceSome
<1>11. CASE TraceCallback
  <2>1. UNCHANGED <<objects, children>> /\ pc = "tracing"
    BY <1>11 DEF TraceCallback, listVars, clientVars
  <2>2. ASSUME NEW p \in call.todo, MarkPtr(p), call' = [call EXCEPT !.todo = @ \ {p}],
               UNCHANGED pc
        PROVE  StackInv'
    <3>1. call'.todo = call.todo \ {p}
      BY <2>2 DEF TypeOK, CallType
    <3> QED
      BY <1>2, <1>7, <2>1, <2>2, <3>1
  <2>3. CASE call.todo = {} /\ call' = [call EXCEPT !.node = Null] /\ pc' = "trace"
             /\ UNCHANGED markVars
    <3>1. call'.todo = {}
      BY <2>3 DEF TypeOK, CallType
    <3>2. Live' = Live /\ Grey' = Grey /\ Marked' = Marked
      BY <2>1, <2>3 DEF Live, Grey, Marked, markVars
    <3> QED
      BY <1>2, <1>4, <1>5, <2>1, <2>3, <3>1, <3>2
  <2> QED
    BY <1>11, <2>2, <2>3 DEF TraceCallback
<1>12. CASE SweepSome
  <2>1. mark_stack = <<>> /\ UNCHANGED mark_stack /\ call.todo = {}
    BY <1>12 DEF SweepSome, StackInv
  <2>2. call'.todo = call.todo
    BY <1>12 DEF SweepSome, TypeOK, CallType
  <2> QED
    BY <1>6, <2>1, <2>2
<1>13. CASE FinishStep
  <2>1. UNCHANGED <<objects, marked, mark_stack, children>> /\ pc' \in {"enter", "client"}
    BY <1>13 DEF FinishStep, listVars, markVars
  <2>2. Live' = Live /\ Grey' = Grey /\ Marked' = Marked /\ call'.todo = {}
    BY <1>13, <2>1, RequestFields DEF FinishStep, Live, Grey, Marked
  <2> QED
    BY <1>2, <1>4, <1>5, <2>1, <2>2
<1>14. ASSUME NEW s \in Slots, NEW o \in Objects, NEW n \in Sizes, Alloc(s, o, n)
       PROVE  StackInv'
  <2>1. /\ o \notin Live /\ pc' \in {"client", "enter"} /\ pc = "client"
        /\ objects' = Cons(o, objects) /\ UNCHANGED mark_stack
        /\ marked' = [marked EXCEPT ![o] = FALSE]
        /\ children' = [children EXCEPT ![o] = {}]
    BY <1>14 DEF Alloc
  <2>2. call'.todo = {}
    <3>1. [Request("alloc", AllocBudget) EXCEPT !.dest = s, !.result = o].todo = {}
      <4>1. Request("alloc", AllocBudget).todo = {}
        BY RequestFields
      <4>2. Request("alloc", AllocBudget) \in CallType
        BY RequestType, BudgetsAssumption
      <4>3. \A c \in CallType : [c EXCEPT !.dest = s, !.result = o].todo = c.todo
        BY DEF CallType
      <4> DEFINE c == Request("alloc", AllocBudget)
      <4>4. c \in CallType /\ c.todo = {}
        BY <4>1, <4>2
      <4> HIDE DEF c
      <4>5. [c EXCEPT !.dest = s, !.result = o].todo = {}
        BY <4>3, <4>4
      <4> QED
        BY <4>5 DEF c
    <3> QED
      BY <1>4, <1>14, <2>1, <3>1 DEF Alloc
  <2>3. Live' = Live \cup {o} /\ Grey' = Grey /\ Marked' = Marked \ {o}
    <3>1. objects \in Seq(Objects) /\ marked \in [Objects -> BOOLEAN]
      BY DEF TypeOK
    <3>2. Live' = Live \cup {o}
      BY <2>1, <3>1, ConsElements DEF Live
    <3>3. Grey' = Grey /\ Marked' = Marked \ {o}
      BY <2>1, <3>1 DEF Grey, Marked
    <3> QED
      BY <3>2, <3>3
  <2>4. ClosedOver(Grey \cup call.todo, K)'
    BY <1>2, <2>1, <2>2, <2>3 DEF ClosedOver, TypeOK
  <2> QED
    BY <1>2, <1>4, <2>1, <2>2, <2>3, <2>4 DEF StackInv
<1>15. ASSUME NEW s \in Slots, ClientMark(s) PROVE StackInv'
  BY <1>3, <1>7, <1>15 DEF ClientMark, listVars, clientVars
\* The other calls and statements of the client leave the stack alone.
<1>16. ASSUME NEW s \in Slots,
              \/ AllocNull(s) \/ AddRoot(s) \/ RemoveRoot(s) \/ Forget(s)
              \/ \E t \in Slots : LoadChild(s, t)
       PROVE  StackInv'
  <2>1. /\ UNCHANGED <<objects, marked, mark_stack, children, call>> /\ pc = "client" /\ pc' = pc
    BY <1>16 DEF AllocNull, AddRoot, RemoveRoot, Forget, LoadChild, listVars, markVars, clientVars
  <2>2. Live' = Live /\ Grey' = Grey /\ Marked' = Marked
    BY <2>1 DEF Live, Grey, Marked
  <2> QED
    BY <1>2, <1>4, <1>5, <2>1, <2>2
<1>17. ASSUME NEW s \in Slots,
              \/ \E t \in Slots : StoreChild(s, t)
              \/ \E p \in Objects : ClearChild(s, p)
       PROVE  StackInv'
  <2>1. /\ UNCHANGED <<objects, marked, mark_stack, call>> /\ pc = "client" /\ pc' = pc
        /\ slot[s] # Null
    BY <1>17 DEF StoreChild, ClearChild, listVars, markVars
  <2>2. Live' = Live /\ Grey' = Grey /\ Marked' = Marked
    BY <2>1 DEF Live, Grey, Marked
  <2>3. \A p \in K : children'[p] \subseteq K
    <3>1. ASSUME NEW t \in Slots, StoreChild(s, t) PROVE \A p \in K : children'[p] \subseteq K
      BY <1>2, <1>3, <3>1 DEF StoreChild, TypeOK
    <3>2. ASSUME NEW q \in Objects, ClearChild(s, q) PROVE \A p \in K : children'[p] \subseteq K
      BY <1>2, <3>2 DEF ClearChild, TypeOK
    <3> QED
      BY <1>17, <3>1, <3>2
  <2>4. ClosedOver(Grey \cup call.todo, K)'
    BY <1>2, <2>1, <2>2, <2>3 DEF ClosedOver
  <2> QED
    BY <1>4, <2>1, <2>2, <2>4 DEF StackInv
<1>18. CASE Collect \/ \E b \in Budgets : CollectStep(b)
  <2>1. /\ UNCHANGED <<objects, marked, mark_stack, children>> /\ pc' = "enter"
        /\ call'.todo = {}
    BY <1>18, RequestFields DEF Collect, CollectStep, listVars, markVars, clientVars
  <2>2. Live' = Live /\ Grey' = Grey /\ Marked' = Marked
    BY <2>1 DEF Live, Grey, Marked
  <2> QED
    BY <1>2, <1>4, <1>5, <2>1, <2>2
<1>19. CASE Destroy \/ Create
  <2>1. mark_stack' = <<>> /\ call' = call /\ call.todo = {}
    BY <1>4, <1>19 DEF Destroy, Create
  <2> QED
    BY <1>6, <2>1
<1> QED
  BY <1>8, <1>9, <1>10, <1>11, <1>12, <1>13, <1>14, <1>15, <1>16, <1>17, <1>18, <1>19
     DEF Next, Collector, Client

\* Whatever the client does, as long as it reaches no freed object, trace_some
\* pops marked objects that are still on the list: in a cycle, between two
\* steps of one, and across the end of one.
THEOREM MarkStackOfAnyClient == AnyClientSpec => []MarkStackLive
<1>1. Init => TypeOK /\ StackInv
  <2>1. Init => TypeOK
    BY InitTypes
  <2>2. Init => StackInv
    <3> SUFFICES ASSUME Init PROVE StackInv
      OBVIOUS
    <3>1. mark_stack = <<>> /\ Grey = {} /\ call.todo = {}
      BY EmptyElements, RequestFields DEF Init, Grey
    <3>2. ClosedOver(Grey \cup call.todo, {})
      BY <3>1 DEF ClosedOver
    <3> QED
      BY <3>1, <3>2 DEF StackInv
  <2> QED
    BY <2>1, <2>2
<1>2. TypeOK /\ StackInv /\ [ReachableStaysLive /\ Next]_vars => (TypeOK /\ StackInv)'
  <2> SUFFICES ASSUME TypeOK, StackInv, [ReachableStaysLive /\ Next]_vars
               PROVE  (TypeOK /\ StackInv)'
    OBVIOUS
  <2>1. TypeOK'
    BY TypeStep
  <2> QED
    BY <2>1, StackStep
<1>3. StackInv => MarkStackLive
  BY DEF StackInv, ClosedOver, MarkStackLive
<1> QED
  BY <1>1, <1>2, <1>3, PTL DEF AnyClientSpec

=============================================================================
