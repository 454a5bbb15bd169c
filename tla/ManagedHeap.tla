---------------------------- MODULE ManagedHeap ----------------------------
(***************************************************************************)
(* What a program that uses include/nova/gc.h may rely on, with no         *)
(* collector in sight: it allocates objects, links them, registers the     *)
(* variables it starts from, and from time to time some object that no     *)
(* registered variable leads to goes away.  Nothing else ever changes.     *)
(***************************************************************************)
EXTENDS FiniteSets

CONSTANTS Objects, Slots, Null

VARIABLES
  live,       \* objects that exist
  children,   \* the pointers each payload holds
  slot,       \* the program's pointer variables
  registered, \* the variables registered as roots
  open        \* FALSE between nova_gc_destroy and nova_gc_create

vars == <<live, children, slot, registered, open>>

ReachableFrom(P) ==
  {o \in Objects : \A K \in SUBSET Objects :
      (P \cap Objects \subseteq K /\ \A p \in K : children[p] \subseteq K) => o \in K}

Reachable == ReachableFrom({slot[s] : s \in registered})

Init ==
  /\ live = {} /\ registered = {} /\ open = FALSE
  /\ children = [o \in Objects |-> {}]
  /\ slot = [s \in Slots |-> Null]

\* A new object is one that does not exist, and starts without pointers.
Allocate(s, o) ==
  /\ open /\ o \notin live
  /\ live' = live \cup {o}
  /\ children' = [children EXCEPT ![o] = {}]
  /\ slot' = [slot EXCEPT ![s] = o]
  /\ UNCHANGED <<registered, open>>

Register(s) ==
  /\ open
  /\ registered' = registered \cup {s}
  /\ UNCHANGED <<live, children, slot, open>>

Unregister(s) ==
  /\ open
  /\ registered' = registered \ {s}
  /\ UNCHANGED <<live, children, slot, open>>

\* The program writes a pointer it holds into an object it holds, or erases one.
Write(s, t) ==
  /\ open /\ slot[s] \in live /\ slot[t] \in live
  /\ children' = [children EXCEPT ![slot[s]] = @ \cup {slot[t]}]
  /\ UNCHANGED <<live, slot, registered, open>>

Erase(s, p) ==
  /\ open /\ slot[s] \in live
  /\ children' = [children EXCEPT ![slot[s]] = @ \ {p}]
  /\ UNCHANGED <<live, slot, registered, open>>

\* Reading a payload gives an object that exists.
Read(s, t) ==
  /\ open /\ slot[s] \in live
  /\ \E p \in children[slot[s]] \cap live : slot' = [slot EXCEPT ![t] = p]
  /\ UNCHANGED <<live, children, registered, open>>

Forget(S) ==
  /\ slot' = [s \in Slots |-> IF s \in S THEN Null ELSE slot[s]]
  /\ UNCHANGED <<live, children, registered, open>>

\* All the collector may do.
Reclaim(o) ==
  /\ open /\ o \in live \ Reachable
  /\ live' = live \ {o}
  /\ UNCHANGED <<children, slot, registered, open>>

Close ==
  /\ open /\ open' = FALSE
  /\ live' = {} /\ registered' = {}
  /\ slot' = [s \in Slots |-> Null]
  /\ UNCHANGED children

Open ==
  /\ ~open /\ open' = TRUE
  /\ children' = [o \in Objects |-> {}]
  /\ UNCHANGED <<live, slot, registered>>

Next ==
  \/ \E s \in Slots, o \in Objects : Allocate(s, o) \/ Erase(s, o)
  \/ \E s \in Slots : Register(s) \/ Unregister(s)
  \/ \E s, t \in Slots : Write(s, t) \/ Read(s, t)
  \/ \E S \in SUBSET Slots : Forget(S)
  \/ \E o \in Objects : Reclaim(o)
  \/ Close \/ Open

Spec == Init /\ [][Next]_vars

=============================================================================
