------------------------------- MODULE NovaGC -------------------------------
(***************************************************************************)
(* The incremental mark/sweep collector of src/src/gc.cpp together with    *)
(* the one client program that owns it.                                    *)
(*                                                                         *)
(* The heap is single threaded: a collector entry point runs to its end    *)
(* before the client takes another step.  pc = "client" between calls;     *)
(* the other values of pc walk through nova_gc_collect_step one loop       *)
(* iteration at a time, so the step from one client state to the next is   *)
(* the whole handler, and nothing else is enabled inside it.               *)
(*                                                                         *)
(* An object is its address: the allocator may hand a freed address out    *)
(* again.  A payload is the set of objects its trace callback passes to    *)
(* nova_gc_mark_ptr.  Finalizers and the counters that only feed           *)
(* nova_gc_stats (collections, objects_marked, objects_swept) are left     *)
(* out: no guard reads them.                                               *)
(*                                                                         *)
(* An operator whose comment begins with "Mistake:" is a faulty variant of *)
(* the one below it.  No specification uses it; replacing the definition   *)
(* by it breaks the property it names.                                     *)
(***************************************************************************)
EXTENDS Integers, FiniteSets, SequencesExt

CONSTANTS
  Objects,         \* addresses the allocator can return for an object
  Slots,           \* client variables whose address can be registered
  Null,            \* the NULL pointer
  Sizes,           \* payload sizes the client asks for
  Budgets,         \* budgets the client passes to nova_gc_collect_step
  AllocBudget,     \* budget of the step inside nova_gc_alloc (128)
  CollectBudget,   \* budget of each step of nova_gc_collect (256)
  RootChunk,       \* first capacity of the root table (16)
  MarkChunk,       \* first capacity of the mark stack (64)
  InitialThreshold,\* NovaGCConfig.initial_threshold_bytes
  GrowthPercent,   \* NovaGCConfig.growth_percent
  MaxRoots,        \* bound: registrations alive at once
  MaxChildren,     \* bound: pointers in one payload
  MayFail,         \* tables the allocator may refuse to grow: "roots", "mark_stack"
  Liberties        \* what the client does beyond the quiet discipline below

ASSUME ObjectsAssumption  == Null \notin Objects /\ Null \notin Slots
ASSUME SizesAssumption    == Sizes \subseteq Nat \ {0}
ASSUME BudgetsAssumption  ==
  Budgets \subseteq Nat /\ AllocBudget \in Nat \ {0} /\ CollectBudget \in Nat \ {0}
ASSUME CapacityAssumption == RootChunk \in Nat \ {0} /\ MarkChunk \in Nat \ {0}
ASSUME ConfigAssumption   ==
  /\ InitialThreshold \in Nat \ {0} /\ GrowthPercent \in Nat \ {0}
  /\ MaxRoots \in Nat /\ MaxChildren \in Nat
ASSUME ClientAssumption   ==
  /\ MayFail \subseteq {"roots", "mark_stack"}
  /\ Liberties \subseteq {"over_threshold", "during_cycle", "mark_in_sweep"}

VARIABLES
  objects,         \* the linked list gc->objects, newest first
  marked,          \* NovaGCObject.marked
  payload_size,    \* NovaGCObject.payload_size
  children,        \* pointers held in the payload (written by the client)
  bytes_allocated, bytes_live, threshold_bytes,
  roots, root_capacity,
  mark_stack, mark_capacity,
  collect_in_progress, roots_scanned,
  sweep_cursor,    \* how many objects lie before *gc->sweep_cursor
  slot,            \* the client's pointer variables
  pc,
  call             \* locals of the collector call that is running

listVars   == <<objects, payload_size, bytes_allocated>>
markVars   == <<marked, mark_stack, mark_capacity>>
rootVars   == <<roots, root_capacity>>
cycleVars  == <<collect_in_progress, roots_scanned, sweep_cursor>>
sizeVars   == <<bytes_live, threshold_bytes>>
clientVars == <<slot, children>>
vars == <<listVars, markVars, rootVars, cycleVars, sizeVars, clientVars, pc, call>>

-----------------------------------------------------------------------------
Live   == ToSet(objects)
Marked == {o \in Objects : marked[o]}
Grey   == ToSet(mark_stack)
\* objects the sweep has passed
Behind == {objects[i] : i \in 1..sweep_cursor}
Registered == ToSet(roots)
Pointers   == Objects \cup {Null}

\* What a set of pointers leads to through payloads: the least closed set.
ReachableFrom(P) ==
  {o \in Objects : \A K \in SUBSET Objects :
      (P \cap Objects \subseteq K /\ \A p \in K : children[p] \subseteq K) => o \in K}

RootValues == {slot[s] : s \in Registered}
HeldValues == {slot[s] : s \in Slots}

NoCall == [by |-> "none", dest |-> Null, result |-> Null, trace |-> 0,
           sweep |-> 0, i |-> 1, node |-> Null, todo |-> {}]

\* Mistake: the table is full one entry before it grows (TypeOK).
GrownLate(capacity, needed, chunk) ==
  IF needed <= capacity + 1 THEN capacity
  ELSE IF capacity = 0 THEN chunk ELSE 2 * capacity

\* The capacity after ensure_root_capacity / ensure_mark_capacity succeed; one
\* doubling is enough because both are called with count + 1.
Grown(capacity, needed, chunk) ==
  IF needed <= capacity THEN capacity
  ELSE IF capacity = 0 THEN chunk ELSE 2 * capacity

\* trace_budget and sweep_budget of one step
TraceBudget(b) == LET half == b \div 2 IN IF half = 0 THEN 1 ELSE half

\* Mistake: the smaller half, zero for a budget of one (CycleFinishes).
SweepBudgetHalf(b) == b \div 2

SweepBudget(b) == b - b \div 2

\* the locals of a step that is about to start
Request(by, budget) ==
  LET b == IF budget = 0 THEN 1 ELSE budget
  IN  [NoCall EXCEPT !.by = by, !.trace = TraceBudget(b), !.sweep = SweepBudget(b)]

NextThreshold(live) ==
  LET grown == live + (live * GrowthPercent) \div 100
  IN  IF grown < 1024 THEN 1024 ELSE grown

-----------------------------------------------------------------------------
(***************************************************************************)
(* The quiet client discipline.  A client without liberties allocates      *)
(* only when the request stays within the threshold (so that nova_gc_alloc *)
(* does not collect) and no cycle is running, writes no payload and        *)
(* registers no root while a cycle is running, and calls nova_gc_mark_ptr  *)
(* only before the sweep has moved.  Reading, forgetting a pointer and     *)
(* unregistering a root are always allowed.                                *)
(***************************************************************************)
MayMutate     == collect_in_progress => "during_cycle" \in Liberties
MayAlloc(n)   == /\ MayMutate
                 /\ bytes_allocated + n > threshold_bytes => "over_threshold" \in Liberties
MayMarkPtr    == collect_in_progress => sweep_cursor = 0 \/ "mark_in_sweep" \in Liberties
MayLoad(t)    == collect_in_progress /\ t \in Registered => "during_cycle" \in Liberties

\* A local that was not registered when the collector ran is not used again.
ForgetLocals == [s \in Slots |-> IF s \in Registered THEN slot[s] ELSE Null]

-----------------------------------------------------------------------------
\* Mistake: a pointer is marked and never traced
\* (ReachableStaysLive, ImplementsManagedHeap).
MarkPtrUntraced(p) ==
  /\ marked' = IF p = Null THEN marked ELSE [marked EXCEPT ![p] = TRUE]
  /\ UNCHANGED <<mark_stack, mark_capacity>>

\* nova_gc_mark_ptr: shade one pointer and push it on the mark stack.
MarkPtr(p) ==
  IF p = Null \/ marked[p]
  THEN UNCHANGED markVars
  ELSE /\ marked' = [marked EXCEPT ![p] = TRUE]
       /\ \/ /\ mark_stack' = Append(mark_stack, p)
             /\ mark_capacity' = Grown(mark_capacity, Len(mark_stack) + 1, MarkChunk)
          \/ /\ "mark_stack" \in MayFail
             /\ Len(mark_stack) + 1 > mark_capacity
             /\ UNCHANGED <<mark_stack, mark_capacity>>

\* Mistake: the sweep goes on where the last cycle left it (GarbageFreed).
BeginWithoutRewind ==
  /\ collect_in_progress' = TRUE
  /\ roots_scanned' = FALSE
  /\ UNCHANGED sweep_cursor

\* begin_collection
BeginCollection ==
  /\ collect_in_progress' = TRUE
  /\ roots_scanned' = FALSE
  /\ sweep_cursor' = 0

\* Mistake: the survivors of the last cycle are counted again (SurvivorsExact).
BeginStepKeepsCount ==
  /\ pc = "enter"
  /\ \/ ~collect_in_progress /\ BeginCollection
     \/ collect_in_progress /\ UNCHANGED cycleVars
  /\ pc' = IF roots_scanned' THEN "trace" ELSE "scan"
  /\ slot' = ForgetLocals
  /\ UNCHANGED <<listVars, markVars, rootVars, sizeVars, children, call>>

\* nova_gc_collect_step up to its first loop: begin a cycle if none is running,
\* reset bytes_live before the one root scan of the cycle.
BeginStep ==
  /\ pc = "enter"
  /\ \/ ~collect_in_progress /\ BeginCollection
     \/ collect_in_progress /\ UNCHANGED cycleVars
  /\ IF roots_scanned' THEN pc' = "trace" /\ UNCHANGED bytes_live
                       ELSE pc' = "scan" /\ bytes_live' = 0
  /\ slot' = ForgetLocals
  /\ UNCHANGED <<listVars, markVars, rootVars, threshold_bytes, children, call>>

\* scan_roots, one registered slot per step
ScanRoots ==
  /\ pc = "scan"
  /\ \/ /\ call.i <= Len(roots)
        /\ MarkPtr(slot[roots[call.i]])
        /\ call' = [call EXCEPT !.i = @ + 1]
        /\ UNCHANGED <<pc, roots_scanned>>
     \/ /\ call.i > Len(roots)
        /\ roots_scanned' = TRUE
        /\ pc' = "trace"
        /\ UNCHANGED <<markVars, call>>
  /\ UNCHANGED <<listVars, rootVars, collect_in_progress, sweep_cursor, sizeVars, clientVars>>

\* Mistake: a spent trace budget does not keep the sweep from starting
\* (MarkStackLive, QuietInv).
TraceSomeThenSweep ==
  /\ pc = "trace"
  /\ \/ /\ mark_stack # <<>> /\ call.trace > 0
        /\ mark_stack' = Front(mark_stack)
        /\ call' = [call EXCEPT !.node = Last(mark_stack),
                                !.todo = children[Last(mark_stack)], !.trace = @ - 1]
        /\ pc' = "tracing"
     \/ /\ mark_stack = <<>> \/ call.trace = 0
        /\ pc' = "sweep"
        /\ UNCHANGED <<mark_stack, call>>
  /\ UNCHANGED <<listVars, marked, mark_capacity, rootVars, cycleVars, sizeVars, clientVars>>

\* trace_some: pop an object and enter its trace callback, until the budget or
\* the stack is spent; sweeping starts only with an empty stack.
TraceSome ==
  /\ pc = "trace"
  /\ \/ /\ mark_stack # <<>> /\ call.trace > 0
        /\ mark_stack' = Front(mark_stack)
        /\ call' = [call EXCEPT !.node = Last(mark_stack),
                                !.todo = children[Last(mark_stack)], !.trace = @ - 1]
        /\ pc' = "tracing"
     \/ /\ mark_stack = <<>>
        /\ pc' = "sweep"
        /\ UNCHANGED <<mark_stack, call>>
     \/ /\ mark_stack # <<>> /\ call.trace = 0
        /\ pc' = "finish"
        /\ UNCHANGED <<mark_stack, call>>
  /\ UNCHANGED <<listVars, marked, mark_capacity, rootVars, cycleVars, sizeVars, clientVars>>

\* The trace callback: nova_gc_mark_ptr on each pointer of the payload.
TraceCallback ==
  /\ pc = "tracing"
  /\ \/ \E p \in call.todo :
          /\ MarkPtr(p)
          /\ call' = [call EXCEPT !.todo = @ \ {p}]
          /\ UNCHANGED pc
     \/ /\ call.todo = {}
        /\ call' = [call EXCEPT !.node = Null]
        /\ pc' = "trace"
        /\ UNCHANGED markVars
  /\ UNCHANGED <<listVars, rootVars, cycleVars, sizeVars, clientVars>>

\* Mistake: the survivor keeps its mark (NoStaleMarks).
SweepKeepMarked ==
  /\ marked[objects[sweep_cursor + 1]]
  /\ bytes_live' = bytes_live + payload_size[objects[sweep_cursor + 1]]
  /\ sweep_cursor' = sweep_cursor + 1
  /\ UNCHANGED <<listVars, marked>>

\* sweep_some, a marked object: clear its mark, count it and step over it.
SweepKeep ==
  LET o == objects[sweep_cursor + 1]
  IN  /\ marked[o]
      /\ marked' = [marked EXCEPT ![o] = FALSE]
      /\ bytes_live' = bytes_live + payload_size[o]
      /\ sweep_cursor' = sweep_cursor + 1
      /\ UNCHANGED listVars

\* Mistake: the freed payload stays in the account (AllocatedExact).
SweepFreeUncounted ==
  /\ ~marked[objects[sweep_cursor + 1]]
  /\ objects' = RemoveAt(objects, sweep_cursor + 1)
  /\ payload_size' = [payload_size EXCEPT ![objects[sweep_cursor + 1]] = 0]
  /\ UNCHANGED <<marked, bytes_allocated, bytes_live, sweep_cursor>>

\* sweep_some, an unmarked object: unlink it and free it.
SweepFree ==
  LET o == objects[sweep_cursor + 1]
  IN  /\ ~marked[o]
      /\ objects' = RemoveAt(objects, sweep_cursor + 1)
      /\ bytes_allocated' = bytes_allocated - payload_size[o]
      /\ payload_size' = [payload_size EXCEPT ![o] = 0]
      /\ UNCHANGED <<marked, bytes_live, sweep_cursor>>

SweepSome ==
  /\ pc = "sweep"
  /\ \/ /\ sweep_cursor < Len(objects) /\ call.sweep > 0
        /\ SweepKeep \/ SweepFree
        /\ call' = [call EXCEPT !.sweep = @ - 1]
        /\ UNCHANGED pc
     \/ /\ sweep_cursor = Len(objects) \/ call.sweep = 0
        /\ pc' = "finish"
        /\ UNCHANGED <<listVars, marked, bytes_live, sweep_cursor, call>>
  /\ UNCHANGED <<mark_stack, mark_capacity, rootVars, collect_in_progress, roots_scanned,
                 threshold_bytes, clientVars>>

\* Mistake: a cycle with survivors is never done (CallReturns).
CycleDoneWhenEmpty == mark_stack = <<>> /\ objects = <<>>

CycleDone == mark_stack = <<>> /\ sweep_cursor = Len(objects)

\* The end of nova_gc_collect_step, and the return to nova_gc_alloc (which
\* returns the object), to the loop of nova_gc_collect, or to the client.
FinishStep ==
  /\ pc = "finish"
  /\ collect_in_progress' = ~CycleDone
  /\ threshold_bytes' = IF CycleDone THEN NextThreshold(bytes_live) ELSE threshold_bytes
  /\ \/ /\ call.by = "collect" /\ ~CycleDone
        /\ pc' = "enter"
        /\ call' = Request("collect", CollectBudget)
        /\ UNCHANGED slot
     \/ /\ call.by = "collect" => CycleDone
        /\ pc' = "client"
        /\ call' = NoCall
        /\ slot' = IF call.by = "alloc" THEN [slot EXCEPT ![call.dest] = call.result] ELSE slot
  /\ UNCHANGED <<listVars, markVars, rootVars, roots_scanned, sweep_cursor, bytes_live, children>>

-----------------------------------------------------------------------------
\* nova_gc_alloc: link a zeroed object at the head of the list, then run a
\* collection step if the heap is over its threshold; s receives the result.
\* A link inserted at the head shifts every position except &gc->objects.
Alloc(s, o, n) ==
  /\ pc = "client"
  /\ o \notin Live
  /\ MayAlloc(n)
  /\ objects' = Cons(o, objects)
  /\ marked' = [marked EXCEPT ![o] = FALSE]
  /\ payload_size' = [payload_size EXCEPT ![o] = n]
  /\ children' = [children EXCEPT ![o] = {}]
  /\ bytes_allocated' = bytes_allocated + n
  /\ sweep_cursor' = IF sweep_cursor = 0 THEN 0 ELSE sweep_cursor + 1
  /\ \/ /\ bytes_allocated' <= threshold_bytes
        /\ slot' = [slot EXCEPT ![s] = o]
        /\ UNCHANGED <<pc, call>>
     \/ /\ bytes_allocated' > threshold_bytes
        /\ pc' = "enter"
        /\ call' = [Request("alloc", AllocBudget) EXCEPT !.dest = s, !.result = o]
        /\ UNCHANGED slot
  /\ UNCHANGED <<mark_stack, mark_capacity, rootVars, collect_in_progress, roots_scanned, sizeVars>>

\* nova_gc_alloc returns NULL: a zero payload, or the allocator refused.
AllocNull(s) ==
  /\ pc = "client"
  /\ slot' = [slot EXCEPT ![s] = Null]
  /\ UNCHANGED <<listVars, markVars, rootVars, cycleVars, sizeVars, children, pc, call>>

\* nova_gc_add_root: the same slot may be registered twice.
AddRoot(s) ==
  /\ pc = "client"
  /\ MayMutate
  /\ Len(roots) < MaxRoots
  /\ \/ /\ roots' = Append(roots, s)
        /\ root_capacity' = Grown(root_capacity, Len(roots) + 1, RootChunk)
     \/ /\ "roots" \in MayFail
        /\ Len(roots) + 1 > root_capacity
        /\ UNCHANGED rootVars
  /\ UNCHANGED <<listVars, markVars, cycleVars, sizeVars, clientVars, pc, call>>

\* nova_gc_remove_root: the last registration takes the place of the first match.
RemoveRoot(s) ==
  /\ pc = "client"
  /\ \E i \in 1..Len(roots) :
       /\ roots[i] = s /\ \A j \in 1..i-1 : roots[j] # s
       /\ roots' = Front([roots EXCEPT ![i] = Last(roots)])
  /\ UNCHANGED <<root_capacity, listVars, markVars, cycleVars, sizeVars, clientVars, pc, call>>

\* nova_gc_mark_ptr called by the client
ClientMark(s) ==
  /\ pc = "client"
  /\ MayMarkPtr
  /\ MarkPtr(slot[s])
  /\ UNCHANGED <<listVars, rootVars, cycleVars, sizeVars, clientVars, pc, call>>

\* nova_gc_collect_step called by the client
CollectStep(budget) ==
  /\ pc = "client"
  /\ pc' = "enter"
  /\ call' = Request("step", budget)
  /\ UNCHANGED <<listVars, markVars, rootVars, cycleVars, sizeVars, clientVars>>

\* nova_gc_collect: steps until the cycle that is running, or a new one, ends
Collect ==
  /\ pc = "client"
  /\ pc' = "enter"
  /\ call' = Request("collect", CollectBudget)
  /\ UNCHANGED <<listVars, markVars, rootVars, cycleVars, sizeVars, clientVars>>

\* nova_gc_destroy: every object, the tables and the heap itself are freed.
Destroy ==
  /\ pc = "client"
  /\ pc' = "destroyed"
  /\ objects' = <<>>
  /\ roots' = <<>>
  /\ mark_stack' = <<>>
  /\ slot' = [s \in Slots |-> Null]
  /\ UNCHANGED <<payload_size, bytes_allocated, marked, mark_capacity, root_capacity,
                 cycleVars, sizeVars, children, call>>

\* nova_gc_create on zeroed memory
Create ==
  /\ pc = "destroyed"
  /\ pc' = "client"
  /\ objects' = <<>> /\ roots' = <<>> /\ mark_stack' = <<>>
  /\ marked' = [o \in Objects |-> FALSE]
  /\ payload_size' = [o \in Objects |-> 0]
  /\ children' = [o \in Objects |-> {}]
  /\ bytes_allocated' = 0 /\ bytes_live' = 0
  /\ threshold_bytes' = InitialThreshold
  /\ root_capacity' = 0 /\ mark_capacity' = 0
  /\ collect_in_progress' = FALSE /\ roots_scanned' = FALSE /\ sweep_cursor' = 0
  /\ UNCHANGED <<slot, call>>

-----------------------------------------------------------------------------
\* The client's own statements: child = slot value, child = NULL,
\* local = child of what a slot holds, slot = NULL.
StoreChild(s, t) ==
  /\ pc = "client" /\ MayMutate
  /\ slot[s] # Null /\ slot[t] # Null
  /\ Cardinality(children[slot[s]] \cup {slot[t]}) <= MaxChildren
  /\ children' = [children EXCEPT ![slot[s]] = @ \cup {slot[t]}]
  /\ UNCHANGED <<listVars, markVars, rootVars, cycleVars, sizeVars, slot, pc, call>>

ClearChild(s, p) ==
  /\ pc = "client" /\ MayMutate
  /\ slot[s] # Null /\ p \in children[slot[s]]
  /\ children' = [children EXCEPT ![slot[s]] = @ \ {p}]
  /\ UNCHANGED <<listVars, markVars, rootVars, cycleVars, sizeVars, slot, pc, call>>

LoadChild(s, t) ==
  /\ pc = "client" /\ MayLoad(t)
  /\ slot[s] # Null
  /\ \E p \in children[slot[s]] : slot' = [slot EXCEPT ![t] = p]
  /\ UNCHANGED <<listVars, markVars, rootVars, cycleVars, sizeVars, children, pc, call>>

Forget(s) ==
  /\ pc = "client"
  /\ slot' = [slot EXCEPT ![s] = Null]
  /\ UNCHANGED <<listVars, markVars, rootVars, cycleVars, sizeVars, children, pc, call>>

-----------------------------------------------------------------------------
\* No heap yet: nova_gc_create comes first.
Init ==
  /\ objects = <<>> /\ roots = <<>> /\ mark_stack = <<>>
  /\ marked = [o \in Objects |-> FALSE]
  /\ payload_size = [o \in Objects |-> 0]
  /\ children = [o \in Objects |-> {}]
  /\ bytes_allocated = 0 /\ bytes_live = 0
  /\ threshold_bytes = 0
  /\ root_capacity = 0 /\ mark_capacity = 0
  /\ collect_in_progress = FALSE /\ roots_scanned = FALSE /\ sweep_cursor = 0
  /\ slot = [s \in Slots |-> Null]
  /\ pc = "destroyed"
  /\ call = NoCall

Collector == BeginStep \/ ScanRoots \/ TraceSome \/ TraceCallback \/ SweepSome \/ FinishStep

Client ==
  \/ \E s \in Slots, o \in Objects, n \in Sizes : Alloc(s, o, n)
  \/ \E s \in Slots : AllocNull(s) \/ AddRoot(s) \/ RemoveRoot(s) \/ ClientMark(s) \/ Forget(s)
  \/ \E s, t \in Slots : StoreChild(s, t) \/ LoadChild(s, t)
  \/ \E s \in Slots, p \in Objects : ClearChild(s, p)
  \/ \E b \in Budgets : CollectStep(b)
  \/ Collect \/ Destroy \/ Create

Next == Collector \/ Client

Spec == Init /\ [][Next]_vars

\* A collector call that has started runs on; nothing is assumed of the client.
CollectorFairness == WF_vars(Collector)
FairSpec == Spec /\ CollectorFairness

\* A client that keeps stepping the collector, like the loops of the tests.
SteppingSpec == FairSpec /\ \A b \in Budgets : SF_vars(CollectStep(b))

-----------------------------------------------------------------------------
(***************************************************************************)
(* Properties                                                              *)
(***************************************************************************)
CallType == [by : {"none", "alloc", "step", "collect"}, dest : Slots \cup {Null},
             result : Pointers, trace : Nat, sweep : Nat, i : Nat \ {0},
             node : Pointers, todo : SUBSET Objects]

\* Every variable has its type, and neither growable table ever holds more
\* than the memory behind it (ensure_root_capacity, ensure_mark_capacity).
TypeOK ==
  /\ objects \in Seq(Objects)
  /\ marked \in [Objects -> BOOLEAN]
  /\ payload_size \in [Objects -> Nat]
  /\ children \in [Objects -> SUBSET Objects]
  /\ bytes_allocated \in Int /\ bytes_live \in Nat /\ threshold_bytes \in Nat
  /\ roots \in Seq(Slots) /\ root_capacity \in Nat /\ Len(roots) <= root_capacity
  /\ mark_stack \in Seq(Objects) /\ mark_capacity \in Nat /\ Len(mark_stack) <= mark_capacity
  /\ collect_in_progress \in BOOLEAN /\ roots_scanned \in BOOLEAN /\ sweep_cursor \in Nat
  /\ slot \in [Slots -> Pointers]
  /\ pc \in {"client", "enter", "scan", "trace", "tracing", "sweep", "finish", "destroyed"}
  /\ call \in CallType

\* Everything the client's pointers lead to is an object that has not been
\* freed: whatever the interleaving of steps, cycles and client calls, the
\* sweep (sweep_some) frees garbage only and nova_gc_alloc returns an
\* object that exists.
ReachableStaysLive == ReachableFrom(HeldValues) \subseteq Live

\* The mark stack never holds freed memory: between two steps of a cycle, and
\* across the end of one, what trace_some will pop is a marked object that is
\* still on the list.
MarkStackLive == pc # "destroyed" => Grey \subseteq Marked \cap Live

\* Outside a cycle a mark bit is set only on an object that is waiting on the
\* mark stack, so that the next cycle traces its children (mark_ptr returns at
\* once on a marked object).
NoStaleMarks == pc # "destroyed" /\ ~collect_in_progress => Marked \subseteq Grey

(***************************************************************************)
(* Why the quiet discipline is enough: an inductive invariant.  While a    *)
(* cycle marks, the whole heap is closed under children and everything     *)
(* marked and not grey has marked children; once the stack is empty for    *)
(* good (Settled) what is marked or already swept over is closed and holds *)
(* every pointer of the client, so the rest can go.                        *)
(***************************************************************************)
Kept    == Marked \cup Behind
Scanned == collect_in_progress /\ roots_scanned
Settled == Scanned /\ mark_stack = <<>> /\ pc # "tracing"

ListInv ==
  /\ \A i, j \in 1..Len(objects) : objects[i] = objects[j] => i = j
  /\ sweep_cursor <= Len(objects)
  /\ Grey \subseteq Marked /\ Marked \subseteq Live

ControlInv ==
  /\ pc = "scan" <=> collect_in_progress /\ ~roots_scanned
  /\ pc \in {"scan", "trace", "tracing", "sweep", "finish"} => collect_in_progress
  /\ pc = "sweep" => mark_stack = <<>>
  /\ pc = "tracing" <=> call.node # Null
  /\ pc # "tracing" => call.todo = {}
  /\ pc = "enter" => call.i = 1
  /\ pc = "client" => call = NoCall
  /\ call.by # "alloc"

MarkInv ==
  /\ ~Scanned => Marked \subseteq Grey
  /\ collect_in_progress /\ ~Settled => sweep_cursor = 0
  /\ collect_in_progress => Behind \cap Marked = {}
  /\ pc = "tracing" => call.node \in Marked /\ call.todo \subseteq children[call.node]

ClosureInv ==
  /\ ~Settled => \A o \in Live : children[o] \subseteq Live
  /\ Scanned => \A o \in Kept \ Grey :
       children[o] \subseteq Kept \cup (IF o = call.node THEN call.todo ELSE {})

SlotInv ==
  /\ \A s \in Slots : slot[s] \in Live \cup {Null}
  /\ pc = "scan" => \A j \in 1..Len(roots) : j < call.i => slot[roots[j]] \in Marked \cup {Null}
  /\ Scanned => RootValues \subseteq Kept \cup {Null}
  /\ pc \notin {"client", "enter", "destroyed"} =>
       \A s \in Slots \ Registered : slot[s] = Null
  /\ Settled => HeldValues \subseteq Kept \cup {Null}

\* Either the heap is gone or all of the above; it implies ReachableStaysLive
\* and is what every step of a quiet client and of the collector preserves.
HeapInv  == ListInv /\ ControlInv /\ MarkInv /\ ClosureInv /\ SlotInv
QuietInv == IF pc = "destroyed" THEN call = NoCall /\ slot = [s \in Slots |-> Null]
                                ELSE HeapInv

SizeOf(S) == MapThenSumSet(LAMBDA o : payload_size[o], S)

\* bytes_allocated is the total payload of the list at every step, for every
\* client: no object is counted twice, subtracted twice or lost.
AllocatedExact == pc # "destroyed" => bytes_allocated = SizeOf(Live)

\* During the sweep bytes_live is the payload of what the sweep has kept, each
\* survivor once, so that the next threshold is computed from the survivors.
SurvivorsExact == pc # "destroyed" /\ Scanned => bytes_live = SizeOf(Behind)

Heap == INSTANCE ManagedHeap
          WITH live <- Live, registered <- Registered, open <- pc # "destroyed"

\* The collector implements a heap that only ever loses unreachable objects:
\* its marking, sweeping, tables and cycles show as reclamations or not at all.
ImplementsManagedHeap == Heap!Spec

\* A call into the collector returns: the loops of scan_roots, trace_some and
\* sweep_some and the do-while of nova_gc_collect end.
CallReturns == pc \notin {"client", "destroyed"} ~> pc = "client"

\* Steps of any budget, even 0 or 1, bring a cycle to its end.
CycleFinishes == collect_in_progress ~> ~collect_in_progress \/ pc = "destroyed"

\* Garbage that no variable of the client leads to is freed in the end; an
\* object that was marked before it became garbage floats for a cycle at most.
Garbage(o) == pc # "destroyed" /\ o \in Live \ ReachableFrom(HeldValues)
GarbageFreed == \A o \in Objects : Garbage(o) /\ call.result # o ~> o \notin Live

=============================================================================
