---------------------------- MODULE NovaGCProofs ----------------------------
(***************************************************************************)
(* Theorems about NovaGC for every set of addresses and slots, every size, *)
(* budget, threshold and capacity.                                         *)
(***************************************************************************)
EXTENDS NovaGC, SequenceTheorems, TLAPS

\* The quiet client, and an allocator that may refuse anything but the mark
\* stack: the hypotheses of the safety theorems.
Quiet == Liberties = {} /\ "mark_stack" \notin MayFail

-----------------------------------------------------------------------------
\* Sequence operators of the community modules, element by element.
LEMMA RemoveAtFacts ==
  ASSUME NEW S, NEW s \in Seq(S), NEW i \in 1..Len(s)
  PROVE  /\ RemoveAt(s, i) \in Seq(S)
         /\ Len(RemoveAt(s, i)) = Len(s) - 1
         /\ \A j \in 1..Len(s)-1 : RemoveAt(s, i)[j] = IF j < i THEN s[j] ELSE s[j+1]
<1> DEFINE l == SubSeq(s, 1, i-1)
           r == SubSeq(s, i+1, Len(s))
<1>0. Len(s) \in Nat /\ i \in Nat /\ i >= 1 /\ i <= Len(s)
  BY LenProperties
<1>1. l \in Seq(S) /\ Len(l) = i - 1 /\ \A j \in 1..i-1 : l[j] = s[j]
  BY <1>0, SubSeqProperties, i-1 \in 0..Len(s), 1 \in 1..Len(s)+1
<1>2. r \in Seq(S) /\ Len(r) = Len(s) - i /\ \A j \in 1..Len(s)-i : r[j] = s[i+j]
  BY <1>0, SubSeqProperties, i+1 \in 1..Len(s)+1, Len(s) \in i..Len(s)
<1>3. RemoveAt(s, i) = l \o r
  BY DEF RemoveAt
<1>4. /\ l \o r \in Seq(S) /\ Len(l \o r) = Len(l) + Len(r)
      /\ \A j \in 1..Len(l)+Len(r) : (l \o r)[j] = IF j <= Len(l) THEN l[j] ELSE r[j - Len(l)]
  BY <1>1, <1>2, ConcatProperties
<1> HIDE DEF l, r
<1>5. ASSUME NEW j \in 1..Len(s)-1
      PROVE  (l \o r)[j] = IF j < i THEN s[j] ELSE s[j+1]
  <2>1. j \in 1..Len(l)+Len(r) /\ j \in Int
    BY <1>0, <1>1, <1>2
  <2>2. CASE j < i
    BY <2>1, <2>2, <1>0, <1>1, <1>4, j \in 1..i-1, j <= Len(l)
  <2>3. CASE ~(j < i)
    <3>1. ~(j <= Len(l)) /\ j - Len(l) = j - i + 1
      BY <2>1, <2>3, <1>0, <1>1
    <3>2. j - i + 1 \in 1..Len(s)-i /\ i + (j - i + 1) = j + 1
      BY <2>1, <2>3, <1>0
    <3> QED
      BY <2>1, <2>3, <3>1, <3>2, <1>2, <1>4
  <2> QED
    BY <2>2, <2>3
<1> QED
  BY <1>0, <1>1, <1>2, <1>3, <1>4, <1>5

LEMMA FrontFacts ==
  ASSUME NEW S, NEW s \in Seq(S), s # <<>>
  PROVE  /\ Front(s) \in Seq(S) /\ Len(Front(s)) = Len(s) - 1
         /\ \A j \in 1..Len(s)-1 : Front(s)[j] = s[j]
         /\ Last(s) \in S /\ Last(s) = s[Len(s)] /\ Len(s) \in Nat \ {0}
<1>1. Len(s) \in Nat \ {0}
  BY LenProperties, EmptySeq
<1>2. Last(s) \in S /\ Last(s) = s[Len(s)]
  BY <1>1, ElementOfSeq DEF Last
<1>3. /\ SubSeq(s, 1, Len(s)-1) \in Seq(S)
      /\ Len(SubSeq(s, 1, Len(s)-1)) = Len(s) - 1
      /\ \A j \in 1..Len(s)-1 : SubSeq(s, 1, Len(s)-1)[j] = s[j]
  <2>1. \A j \in 1..Len(s)-1 : s[j] \in S
    BY <1>1, ElementOfSeq
  <2>2. 1 \in Int /\ Len(s)-1 \in Int
    BY <1>1
  <2> DEFINE f == SubSeq(s, 1, Len(s)-1)
  <2>3. /\ f \in Seq(S)
        /\ Len(f) = IF 1 <= Len(s)-1 THEN (Len(s)-1)-1+1 ELSE 0
        /\ \A j \in 1..(Len(s)-1)-1+1 : f[j] = s[1+j-1]
    BY <2>1, <2>2, SubSeqProperties
  <2> HIDE DEF f
  <2>4. \A j \in 1..Len(s)-1 : f[j] = s[j]
    <3> SUFFICES ASSUME NEW j \in 1..Len(s)-1 PROVE f[j] = s[j]
      OBVIOUS
    <3>1. j \in 1..(Len(s)-1)-1+1 /\ 1+j-1 = j
      BY <1>1
    <3> QED
      BY <2>3, <3>1
  <2>5. Len(f) = Len(s) - 1
    <3>1. CASE Len(s) = 1
      BY <2>3, <3>1
    <3>2. CASE Len(s) > 1
      BY <1>1, <2>3, <3>2
    <3> QED
      BY <1>1, <3>1, <3>2
  <2> QED
    BY <2>3, <2>4, <2>5 DEF f
<1> QED
  BY <1>1, <1>2, <1>3 DEF Front

LEMMA ConsFacts ==
  ASSUME NEW S, NEW s \in Seq(S), NEW e \in S
  PROVE  /\ Cons(e, s) \in Seq(S) /\ Len(Cons(e, s)) = Len(s) + 1
         /\ Cons(e, s)[1] = e
         /\ \A j \in 1..Len(s) : Cons(e, s)[j+1] = s[j]
  BY DEF Cons

LEMMA ConsObject ==
  ASSUME objects \in Seq(Objects), NEW o \in Objects, objects' = Cons(o, objects)
  PROVE  /\ objects' \in Seq(Objects) /\ Len(objects') = Len(objects) + 1 /\ objects'[1] = o
         /\ \A j \in 1..Len(objects) : objects'[j+1] = objects[j]
  BY DEF Cons

LEMMA ThresholdFacts ==
  ASSUME NEW live \in Nat
  PROVE  NextThreshold(live) \in Nat
  BY ConfigAssumption DEF NextThreshold

LEMMA GrownFacts ==
  ASSUME NEW capacity \in Nat, NEW count \in Nat, count <= capacity, NEW chunk \in Nat \ {0}
  PROVE  /\ Grown(capacity, count + 1, chunk) \in Nat
         /\ count + 1 <= Grown(capacity, count + 1, chunk)
  BY DEF Grown

LEMMA RequestType ==
  ASSUME NEW b \in Nat, NEW by \in {"none", "alloc", "step", "collect"}
  PROVE  Request(by, b) \in CallType
<1>1. NoCall \in CallType
  BY DEF NoCall, CallType, Pointers
<1>2. ASSUME NEW c \in Nat PROVE TraceBudget(c) \in Nat /\ SweepBudget(c) \in Nat
  BY DEF TraceBudget, SweepBudget
<1> DEFINE c == IF b = 0 THEN 1 ELSE b
<1>3. TraceBudget(c) \in Nat /\ SweepBudget(c) \in Nat
  BY <1>2
<1>4. Request(by, b) = [NoCall EXCEPT !.by = by, !.trace = TraceBudget(c), !.sweep = SweepBudget(c)]
  BY DEF Request
<1> HIDE DEF c
<1> QED
  BY <1>1, <1>3, <1>4 DEF CallType

LEMMA RequestFields ==
  /\ NoCall.todo = {} /\ NoCall.node = Null /\ NoCall.by = "none" /\ NoCall.i = 1
  /\ \A by, b : /\ Request(by, b).todo = {} /\ Request(by, b).node = Null
                /\ Request(by, b).by = by /\ Request(by, b).i = 1
<1>1. /\ NoCall.todo = {} /\ NoCall.node = Null /\ NoCall.by = "none" /\ NoCall.i = 1
  BY DEF NoCall
<1>2. ASSUME NEW by, NEW b
      PROVE  /\ Request(by, b).todo = {} /\ Request(by, b).node = Null
             /\ Request(by, b).by = by /\ Request(by, b).i = 1
  BY DEF Request, NoCall
<1> QED
  BY <1>1, <1>2

\* The fields of a call, and those that the loops update.
LEMMA CallFields ==
  ASSUME NEW c \in CallType
  PROVE  /\ c.i \in Nat \ {0} /\ c.trace \in Nat /\ c.sweep \in Nat
         /\ c.todo \in SUBSET Objects /\ c.node \in Pointers
         /\ c.dest \in Slots \cup {Null} /\ c.result \in Pointers
  BY DEF CallType

LEMMA CallUpdate ==
  ASSUME NEW c \in CallType
  PROVE  /\ \A m \in Nat \ {0} : [c EXCEPT !.i = m] \in CallType
         /\ \A n \in Nat : [c EXCEPT !.sweep = n] \in CallType
         /\ \A T \in SUBSET Objects : [c EXCEPT !.todo = T] \in CallType
         /\ \A p \in Pointers, T \in SUBSET Objects, n \in Nat :
               [c EXCEPT !.node = p, !.todo = T, !.trace = n] \in CallType
  BY DEF CallType

-----------------------------------------------------------------------------
\* nova_gc_mark_ptr keeps the types and never writes past the mark stack.
LEMMA MarkPtrType ==
  ASSUME TypeOK, NEW p \in Pointers, MarkPtr(p)
  PROVE  /\ marked' \in [Objects -> BOOLEAN]
         /\ mark_stack' \in Seq(Objects) /\ mark_capacity' \in Nat
         /\ Len(mark_stack') <= mark_capacity'
<1>1. CASE p = Null \/ marked[p]
  BY <1>1 DEF TypeOK, MarkPtr, markVars
<1>2. CASE ~(p = Null \/ marked[p])
  <2>1. p \in Objects /\ marked' = [marked EXCEPT ![p] = TRUE]
    BY <1>2 DEF Pointers, MarkPtr
  <2>2. marked' \in [Objects -> BOOLEAN]
    BY <2>1 DEF TypeOK
  <2>3. CASE mark_stack' = Append(mark_stack, p)
             /\ mark_capacity' = Grown(mark_capacity, Len(mark_stack) + 1, MarkChunk)
    <3>1. Len(mark_stack) \in Nat
      BY LenProperties DEF TypeOK
    <3>2. Len(mark_stack') = Len(mark_stack) + 1 /\ mark_stack' \in Seq(Objects)
      BY <2>1, <2>3, AppendProperties DEF TypeOK
    <3> QED
      BY <2>2, <2>3, <3>1, <3>2, GrownFacts, CapacityAssumption DEF TypeOK
  <2>4. CASE UNCHANGED <<mark_stack, mark_capacity>>
    BY <2>2, <2>4 DEF TypeOK
  <2> QED
    BY <1>2, <2>3, <2>4 DEF MarkPtr
<1> QED
  BY <1>1, <1>2

\* nova_gc_remove_root: one registration fewer, and no registration of
\* another slot gained or lost.
LEMMA RemoveRootFacts ==
  ASSUME NEW r \in Seq(Slots), NEW i \in 1..Len(r)
  PROVE  /\ Front([r EXCEPT ![i] = Last(r)]) \in Seq(Slots)
         /\ Len(Front([r EXCEPT ![i] = Last(r)])) = Len(r) - 1
         /\ ToSet(Front([r EXCEPT ![i] = Last(r)])) \subseteq ToSet(r)
<1>1. Len(r) \in Nat /\ DOMAIN r = 1..Len(r)
  BY LenProperties
<1> DEFINE t == [r EXCEPT ![i] = Last(r)]
<1>3. r # <<>> /\ Last(r) \in Slots /\ Last(r) = r[Len(r)] /\ Len(r) \in Nat \ {0}
  <2>1. Len(r) # 0
    BY <1>1
  <2>2. r # <<>>
    BY <2>1, EmptySeq
  <2> QED
    BY <2>2, FrontFacts
<1>4. /\ t \in Seq(Slots) /\ Len(t) = Len(r)
      /\ \A j \in 1..Len(r) : t[j] = IF j = i THEN Last(r) ELSE r[j]
  BY <1>3, ExceptSeq
<1> HIDE DEF t
<1>5. /\ Front(t) \in Seq(Slots) /\ Len(Front(t)) = Len(r) - 1
      /\ \A j \in 1..Len(r)-1 : Front(t)[j] = t[j]
  BY <1>3, <1>4, FrontFacts, EmptySeq
<1>6. DOMAIN Front(t) = 1..Len(r)-1
  BY <1>5, LenProperties
<1>7. ToSet(Front(t)) \subseteq ToSet(r)
  BY <1>1, <1>3, <1>4, <1>5, <1>6 DEF ToSet
<1> QED
  BY <1>5, <1>7 DEF t

LEMMA TypeStep ==
  ASSUME TypeOK, [Next]_vars
  PROVE  TypeOK'
<1> USE DEF TypeOK, listVars, markVars, rootVars, cycleVars, sizeVars, clientVars
<1>1. CASE BeginStep
  <2>1. collect_in_progress' \in BOOLEAN /\ roots_scanned' \in BOOLEAN /\ sweep_cursor' \in Nat
    <3>1. CASE BeginCollection
      BY <3>1 DEF BeginCollection
    <3>2. CASE UNCHANGED cycleVars
      BY <3>2
    <3> QED
      BY <1>1, <3>1, <3>2 DEF BeginStep
  <2>3. pc' \in {"trace", "scan"} /\ bytes_live' \in Nat
    BY <1>1 DEF BeginStep
  <2>2. slot' \in [Slots -> Pointers]
    BY <1>1 DEF BeginStep, ForgetLocals, Pointers
  <2> QED
    BY <1>1, <2>1, <2>2, <2>3 DEF BeginStep
<1>2. CASE ScanRoots
  <2>1. CASE call.i <= Len(roots) /\ MarkPtr(slot[roots[call.i]])
             /\ call' = [call EXCEPT !.i = @ + 1] /\ UNCHANGED <<pc, roots_scanned>>
    <3>1. roots[call.i] \in Slots
      BY <2>1, ElementOfSeq, LenProperties DEF CallType
    <3>2. /\ marked' \in [Objects -> BOOLEAN]
          /\ mark_stack' \in Seq(Objects) /\ mark_capacity' \in Nat
          /\ Len(mark_stack') <= mark_capacity'
      BY <2>1, <3>1, MarkPtrType DEF TypeOK
    <3>3. call' \in CallType
      <4>1. call.i + 1 \in Nat \ {0}
        BY CallFields
      <4> QED
        BY <2>1, <4>1, CallUpdate
    <3> QED
      BY <1>2, <2>1, <3>2, <3>3 DEF ScanRoots
  <2>2. CASE roots_scanned' = TRUE /\ pc' = "trace" /\ UNCHANGED <<markVars, call>>
    BY <1>2, <2>2 DEF ScanRoots
  <2> QED
    BY <1>2, <2>1, <2>2 DEF ScanRoots
<1>3. CASE TraceSome
  <2>1. CASE mark_stack # <<>> /\ call.trace > 0 /\ pc' = "tracing"
             /\ mark_stack' = Front(mark_stack)
             /\ call' = [call EXCEPT !.node = Last(mark_stack),
                                     !.todo = children[Last(mark_stack)], !.trace = @ - 1]
    <3>1. /\ Front(mark_stack) \in Seq(Objects) /\ Len(Front(mark_stack)) = Len(mark_stack) - 1
          /\ Last(mark_stack) \in Objects /\ Len(mark_stack) \in Nat
      BY <2>1, FrontFacts
    <3>2. call' \in CallType
      <4>1. call.trace - 1 \in Nat
        BY <2>1, CallFields
      <4>2. Last(mark_stack) \in Pointers /\ children[Last(mark_stack)] \in SUBSET Objects
        BY <3>1 DEF Pointers
      <4> QED
        BY <2>1, <4>1, <4>2, CallUpdate
    <3>3. Len(mark_stack') <= mark_capacity
      BY <2>1, <3>1
    <3> QED
      BY <1>3, <2>1, <3>1, <3>2, <3>3 DEF TraceSome
  <2>2. CASE pc' \in {"sweep", "finish"} /\ UNCHANGED <<mark_stack, call>>
    BY <1>3, <2>2 DEF TraceSome
  <2> QED
    BY <1>3, <2>1, <2>2 DEF TraceSome
<1>4. CASE TraceCallback
  <2>1. ASSUME NEW p \in call.todo, MarkPtr(p), call' = [call EXCEPT !.todo = @ \ {p}],
               UNCHANGED pc
        PROVE  TypeOK'
    <3>1. p \in Pointers
      BY <2>1 DEF CallType, Pointers
    <3>2. /\ marked' \in [Objects -> BOOLEAN]
          /\ mark_stack' \in Seq(Objects) /\ mark_capacity' \in Nat
          /\ Len(mark_stack') <= mark_capacity'
      BY <2>1, <3>1, MarkPtrType DEF TypeOK
    <3>3. call' \in CallType
      BY <2>1 DEF CallType
    <3> QED
      BY <1>4, <2>1, <3>2, <3>3 DEF TraceCallback
  <2>2. CASE call' = [call EXCEPT !.node = Null] /\ pc' = "trace" /\ UNCHANGED markVars
    <3>1. call' \in CallType
      BY <2>2 DEF CallType, Pointers
    <3> QED
      BY <1>4, <2>2, <3>1 DEF TraceCallback
  <2> QED
    BY <1>4, <2>1, <2>2 DEF TraceCallback
<1>5. CASE SweepSome
  <2>1. CASE sweep_cursor < Len(objects) /\ call.sweep > 0 /\ (SweepKeep \/ SweepFree)
             /\ call' = [call EXCEPT !.sweep = @ - 1] /\ UNCHANGED pc
    <3>1. Len(objects) \in Nat /\ sweep_cursor + 1 \in 1..Len(objects)
      BY <2>1, LenProperties
    <3>2. objects[sweep_cursor + 1] \in Objects
      BY <3>1, ElementOfSeq
    <3>3. call' \in CallType
      <4>1. call.sweep - 1 \in Nat
        BY <2>1, CallFields
      <4> QED
        BY <2>1, <4>1, CallUpdate
    <3>4. RemoveAt(objects, sweep_cursor + 1) \in Seq(Objects)
      BY <3>1, RemoveAtFacts
    <3>7. UNCHANGED <<children, threshold_bytes, roots, root_capacity, mark_stack, mark_capacity,
                      collect_in_progress, roots_scanned, slot, pc>>
      BY <1>5, <2>1 DEF SweepSome
    <3>5. CASE SweepKeep
      <4>1. payload_size[objects[sweep_cursor + 1]] \in Nat
        BY <3>2
      <4>2. /\ marked' = [marked EXCEPT ![objects[sweep_cursor + 1]] = FALSE]
            /\ bytes_live' = bytes_live + payload_size[objects[sweep_cursor + 1]]
            /\ sweep_cursor' = sweep_cursor + 1 /\ UNCHANGED listVars
        BY <3>5 DEF SweepKeep
      <4>3. marked' \in [Objects -> BOOLEAN]
        BY <4>2
      <4>4. bytes_live' \in Nat /\ sweep_cursor' \in Nat
        BY <4>1, <4>2
      <4> QED
        BY <3>3, <3>7, <4>2, <4>3, <4>4
    <3>6. CASE SweepFree
      <4>1. payload_size[objects[sweep_cursor + 1]] \in Nat
        BY <3>2
      <4>2. /\ objects' = RemoveAt(objects, sweep_cursor + 1)
            /\ payload_size' = [payload_size EXCEPT ![objects[sweep_cursor + 1]] = 0]
            /\ bytes_allocated' = bytes_allocated - payload_size[objects[sweep_cursor + 1]]
            /\ UNCHANGED <<marked, bytes_live, sweep_cursor>>
        BY <3>6 DEF SweepFree
      <4>3. payload_size' \in [Objects -> Nat]
        BY <4>2
      <4>4. bytes_allocated' \in Int
        BY <4>1, <4>2
      <4> QED
        BY <3>3, <3>4, <3>7, <4>2, <4>3, <4>4
    <3> QED
      BY <2>1, <3>5, <3>6
  <2>2. CASE pc' = "finish" /\ UNCHANGED <<listVars, marked, bytes_live, sweep_cursor, call>>
    BY <1>5, <2>2 DEF SweepSome
  <2> QED
    BY <1>5, <2>1, <2>2 DEF SweepSome
<1>6. CASE FinishStep
  <2>1. NextThreshold(bytes_live) \in Nat
    BY ThresholdFacts
  <2>2. Request("collect", CollectBudget) \in CallType /\ NoCall \in CallType
    <3>1. NoCall \in CallType
      BY DEF NoCall, CallType, Pointers
    <3>2. CollectBudget \in Nat /\ "collect" \in {"none", "alloc", "step", "collect"}
      BY BudgetsAssumption
    <3> QED
      BY <3>1, <3>2, RequestType
  <2>3. slot' \in [Slots -> Pointers]
    BY <1>6 DEF FinishStep, CallType
  <2>4. threshold_bytes' \in Nat /\ collect_in_progress' \in BOOLEAN
    BY <1>6, <2>1 DEF FinishStep
  <2> QED
    BY <1>6, <2>2, <2>3, <2>4 DEF FinishStep
<1>7. ASSUME NEW s \in Slots, NEW o \in Objects, NEW n \in Sizes, Alloc(s, o, n)
      PROVE  TypeOK'
  <2>1. objects' \in Seq(Objects)
    BY <1>7, ConsFacts DEF Alloc
  <2>2. n \in Nat /\ payload_size' \in [Objects -> Nat] /\ bytes_allocated' \in Int
    BY <1>7, SizesAssumption DEF Alloc
  <2>3. marked' \in [Objects -> BOOLEAN] /\ children' \in [Objects -> SUBSET Objects]
    BY <1>7 DEF Alloc
  <2>4. sweep_cursor' \in Nat
    BY <1>7 DEF Alloc
  <2>5. slot' \in [Slots -> Pointers]
    BY <1>7 DEF Alloc, Pointers
  <2>6. pc' \in {"client", "enter"} /\ call' \in CallType
    <3>1. AllocBudget \in Nat /\ "alloc" \in {"none", "alloc", "step", "collect"}
      BY BudgetsAssumption
    <3>2. Request("alloc", AllocBudget) \in CallType
      BY <3>1, RequestType
    <3>3. [Request("alloc", AllocBudget) EXCEPT !.dest = s, !.result = o] \in CallType
      BY <3>2 DEF CallType, Pointers
    <3> QED
      BY <1>7, <3>3 DEF Alloc
  <2> QED
    BY <1>7, <2>1, <2>2, <2>3, <2>4, <2>5, <2>6 DEF Alloc
<1>8. ASSUME NEW s \in Slots, AllocNull(s) \/ Forget(s)
      PROVE  TypeOK'
  BY <1>8 DEF AllocNull, Forget, Pointers
<1>9. ASSUME NEW s \in Slots, AddRoot(s)
      PROVE  TypeOK'
  <2>1. CASE roots' = Append(roots, s) /\ root_capacity' = Grown(root_capacity, Len(roots) + 1, RootChunk)
    <3>1. Len(roots) \in Nat /\ Len(roots') = Len(roots) + 1 /\ roots' \in Seq(Slots)
      BY <2>1, LenProperties, AppendProperties
    <3>2. root_capacity' \in Nat /\ Len(roots') <= root_capacity'
      BY <2>1, <3>1, GrownFacts, CapacityAssumption
    <3> QED
      BY <1>9, <3>1, <3>2 DEF AddRoot
  <2>2. CASE UNCHANGED rootVars
    BY <1>9, <2>2 DEF AddRoot
  <2> QED
    BY <1>9, <2>1, <2>2 DEF AddRoot
<1>10. ASSUME NEW s \in Slots, RemoveRoot(s)
       PROVE  TypeOK'
  <2>1. PICK i \in 1..Len(roots) : roots' = Front([roots EXCEPT ![i] = Last(roots)])
    BY <1>10 DEF RemoveRoot
  <2>2. roots' \in Seq(Slots) /\ Len(roots') = Len(roots) - 1
    <3> HIDE DEF TypeOK
    <3>1. roots \in Seq(Slots)
      BY DEF TypeOK
    <3> QED
      BY <2>1, <3>1, RemoveRootFacts
  <2>3. Len(roots') <= root_capacity
    BY <2>2, LenProperties
  <2> QED
    BY <1>10, <2>2, <2>3 DEF RemoveRoot
<1>11. ASSUME NEW s \in Slots, ClientMark(s)
       PROVE  TypeOK'
  <2>1. /\ marked' \in [Objects -> BOOLEAN]
        /\ mark_stack' \in Seq(Objects) /\ mark_capacity' \in Nat
        /\ Len(mark_stack') <= mark_capacity'
    BY <1>11, MarkPtrType DEF ClientMark
  <2> QED
    BY <1>11, <2>1 DEF ClientMark
<1>12. ASSUME NEW s \in Slots, NEW t \in Slots, StoreChild(s, t) \/ LoadChild(s, t)
       PROVE  TypeOK'
  <2>1. CASE StoreChild(s, t)
    <3>1. children' \in [Objects -> SUBSET Objects]
      BY <2>1 DEF StoreChild, Pointers
    <3> QED
      BY <2>1, <3>1 DEF StoreChild
  <2>2. CASE LoadChild(s, t)
    <3>1. slot' \in [Slots -> Pointers]
      BY <2>2 DEF LoadChild, Pointers
    <3> QED
      BY <2>2, <3>1 DEF LoadChild
  <2> QED
    BY <1>12, <2>1, <2>2
<1>13. ASSUME NEW s \in Slots, NEW p \in Objects, ClearChild(s, p)
       PROVE  TypeOK'
  <2>1. children' \in [Objects -> SUBSET Objects]
    BY <1>13 DEF ClearChild, Pointers
  <2> QED
    BY <1>13, <2>1 DEF ClearChild
<1>14. CASE Collect \/ \E b \in Budgets : CollectStep(b)
  <2>1. call' \in CallType /\ pc' = "enter"
    BY <1>14, RequestType, BudgetsAssumption DEF Collect, CollectStep
  <2> QED
    BY <1>14, <2>1 DEF Collect, CollectStep
<1>15. CASE Destroy
  <2>1. <<>> \in Seq(Objects) /\ <<>> \in Seq(Slots) /\ Len(<<>>) = 0
    BY EmptySeq
  <2>2. slot' \in [Slots -> Pointers] /\ objects' \in Seq(Objects) /\ mark_stack' \in Seq(Objects)
        /\ roots' \in Seq(Slots) /\ Len(roots') <= root_capacity /\ Len(mark_stack') <= mark_capacity
    BY <1>15, <2>1 DEF Destroy, Pointers
  <2> QED
    BY <1>15, <2>2 DEF Destroy
<1>16. CASE Create
  <2>1. <<>> \in Seq(Objects) /\ <<>> \in Seq(Slots) /\ Len(<<>>) = 0
    BY EmptySeq
  <2>2. /\ objects' \in Seq(Objects) /\ roots' \in Seq(Slots) /\ mark_stack' \in Seq(Objects)
        /\ root_capacity' \in Nat /\ mark_capacity' \in Nat
        /\ Len(roots') <= root_capacity' /\ Len(mark_stack') <= mark_capacity'
    BY <1>16, <2>1 DEF Create
  <2>3. /\ marked' \in [Objects -> BOOLEAN] /\ payload_size' \in [Objects -> Nat]
        /\ children' \in [Objects -> SUBSET Objects]
    BY <1>16 DEF Create
  <2>4. /\ bytes_allocated' \in Int /\ bytes_live' \in Nat /\ threshold_bytes' \in Nat
        /\ sweep_cursor' \in Nat
    BY <1>16, ConfigAssumption DEF Create
  <2>6. collect_in_progress' \in BOOLEAN /\ roots_scanned' \in BOOLEAN
    BY <1>16 DEF Create
  <2>5. slot' \in [Slots -> Pointers] /\ pc' = "client" /\ call' \in CallType
    BY <1>16 DEF Create
  <2> QED
    BY <2>2, <2>3, <2>4, <2>5, <2>6
<1>17. CASE UNCHANGED vars
  BY <1>17 DEF vars
<1> QED
  BY <1>1, <1>2, <1>3, <1>4, <1>5, <1>6, <1>7, <1>8, <1>9, <1>10, <1>11, <1>12, <1>13,
     <1>14, <1>15, <1>16, <1>17 DEF Next, Collector, Client

\* A program that has not created a heap yet.
LEMMA InitTypes == Init => TypeOK
<1> SUFFICES ASSUME Init PROVE TypeOK
  OBVIOUS
<1>1. NoCall \in CallType
  BY DEF NoCall, CallType, Pointers
<1>0. <<>> \in Seq(Objects) /\ <<>> \in Seq(Slots) /\ Len(<<>>) = 0
  BY EmptySeq
<1>2. /\ objects \in Seq(Objects) /\ roots \in Seq(Slots) /\ mark_stack \in Seq(Objects)
      /\ root_capacity \in Nat /\ mark_capacity \in Nat
      /\ Len(roots) <= root_capacity /\ Len(mark_stack) <= mark_capacity
  BY <1>0 DEF Init
<1>3. /\ marked \in [Objects -> BOOLEAN] /\ payload_size \in [Objects -> Nat]
      /\ children \in [Objects -> SUBSET Objects]
  BY DEF Init
<1>4. /\ bytes_allocated \in Int /\ bytes_live \in Nat /\ threshold_bytes \in Nat
      /\ sweep_cursor \in Nat
  BY ConfigAssumption DEF Init
<1>6. collect_in_progress \in BOOLEAN /\ roots_scanned \in BOOLEAN
  BY DEF Init
<1>5. slot \in [Slots -> Pointers] /\ pc = "destroyed" /\ call \in CallType
  BY <1>1 DEF Init, Pointers
<1> QED
  BY <1>2, <1>3, <1>4, <1>5, <1>6 DEF TypeOK

\* Type correctness, for any client: every variable keeps its type, and the
\* root table and the mark stack never outgrow the memory behind them.
THEOREM TypeCorrect == Spec => []TypeOK
<1>1. Init => TypeOK
  BY InitTypes
<1>2. TypeOK /\ [Next]_vars => TypeOK'
  BY TypeStep
<1> QED
  BY <1>1, <1>2, PTL DEF Spec

-----------------------------------------------------------------------------
\* What the collector's set-valued views say about the variables.
LEMMA ViewFacts ==
  ASSUME TypeOK
  PROVE  /\ Len(objects) \in Nat /\ Len(mark_stack) \in Nat /\ Len(roots) \in Nat
         /\ Live = {objects[i] : i \in 1..Len(objects)} /\ Live \subseteq Objects
         /\ Grey = {mark_stack[i] : i \in 1..Len(mark_stack)} /\ Grey \subseteq Objects
         /\ Registered = {roots[i] : i \in 1..Len(roots)} /\ Registered \subseteq Slots
         /\ mark_stack = <<>> => Grey = {}
         /\ sweep_cursor = 0 => Behind = {}
         /\ sweep_cursor <= Len(objects) => Behind \subseteq Live
<1>1. /\ objects \in Seq(Objects) /\ mark_stack \in Seq(Objects) /\ roots \in Seq(Slots)
      /\ sweep_cursor \in Nat
  BY DEF TypeOK
<1>2. /\ Len(objects) \in Nat /\ DOMAIN objects = 1..Len(objects)
      /\ Len(mark_stack) \in Nat /\ DOMAIN mark_stack = 1..Len(mark_stack)
      /\ Len(roots) \in Nat /\ DOMAIN roots = 1..Len(roots)
  BY <1>1, LenProperties
<1>3. /\ Live = {objects[i] : i \in 1..Len(objects)}
      /\ Grey = {mark_stack[i] : i \in 1..Len(mark_stack)}
      /\ Registered = {roots[i] : i \in 1..Len(roots)}
  BY <1>2 DEF Live, Grey, Registered, ToSet
<1>4. Live \subseteq Objects /\ Grey \subseteq Objects /\ Registered \subseteq Slots
  BY <1>1, <1>3, ElementOfSeq
<1>5. mark_stack = <<>> => Grey = {}
  BY <1>3, EmptySeq
<1>6. sweep_cursor = 0 => Behind = {}
  BY DEF Behind
<1>7. sweep_cursor <= Len(objects) => Behind \subseteq Live
  BY <1>1, <1>2, <1>3 DEF Behind
<1> QED
  BY <1>2, <1>3, <1>4, <1>5, <1>6, <1>7

\* nova_gc_mark_ptr under the quiet hypotheses: the pointer becomes marked, and
\* if it was not it is also grey.
LEMMA MarkPtrEffect ==
  ASSUME TypeOK, TypeOK', Quiet, NEW p \in Pointers, MarkPtr(p)
  PROVE  /\ p \in Marked \cup {Null} => UNCHANGED markVars
         /\ p \notin Marked \cup {Null} =>
              /\ Marked' = Marked \cup {p} /\ Grey' = Grey \cup {p} /\ mark_stack' # <<>>
         /\ Marked' \cup {Null} = Marked \cup {p, Null}
<1>1. CASE p = Null \/ marked[p]
  BY <1>1 DEF MarkPtr, markVars, Marked, Pointers
<1>2. CASE ~(p = Null \/ marked[p])
  <2>1. p \in Objects /\ p \notin Marked /\ p # Null
    BY <1>2 DEF Pointers, Marked
  <2>2. marked' = [marked EXCEPT ![p] = TRUE] /\ mark_stack' = Append(mark_stack, p)
    BY <1>2 DEF MarkPtr, Quiet
  <2>3. Marked' = Marked \cup {p}
    BY <2>1, <2>2 DEF Marked, TypeOK
  <2>4. /\ Len(mark_stack) \in Nat /\ Len(mark_stack') = Len(mark_stack) + 1
        /\ mark_stack'[Len(mark_stack) + 1] = p
        /\ \A i \in 1..Len(mark_stack) : mark_stack'[i] = mark_stack[i]
    <3>1. mark_stack \in Seq(Objects)
      BY DEF TypeOK
    <3> QED
      BY <2>1, <2>2, <3>1
  <2>5. mark_stack' # <<>>
    BY <2>4, EmptySeq
  <2>6. /\ Grey = {mark_stack[i] : i \in 1..Len(mark_stack)}
        /\ Grey' = {mark_stack'[i] : i \in 1..Len(mark_stack')}
    <3>1. DOMAIN mark_stack = 1..Len(mark_stack) /\ DOMAIN mark_stack' = 1..Len(mark_stack')
      BY LenProperties DEF TypeOK
    <3> QED
      BY <3>1 DEF Grey, ToSet
  <2>7. Grey' = Grey \cup {p}
    <3>1. Grey' \subseteq Grey \cup {p}
      BY <2>4, <2>6
    <3>2. ASSUME NEW x \in Grey \cup {p} PROVE x \in Grey'
      <4>1. CASE x = p
        BY <2>4, <2>6, <4>1
      <4>2. CASE x \in Grey
        <5>1. PICK i \in 1..Len(mark_stack) : x = mark_stack[i]
          BY <2>6, <4>2
        <5>2. i \in 1..Len(mark_stack') /\ x = mark_stack'[i]
          BY <2>4, <5>1
        <5> QED
          BY <2>6, <5>2
      <4> QED
        BY <4>1, <4>2
    <3> QED
      BY <3>1, <3>2
  <2> QED
    BY <2>1, <2>3, <2>5, <2>7
<1> QED
  BY <1>1, <1>2

-----------------------------------------------------------------------------
\* The collector's actions preserve HeapInv.
LEMMA BeginStepKeeps ==
  ASSUME TypeOK, HeapInv, BeginStep
  PROVE  HeapInv'
<1> USE DEF HeapInv, BeginStep, listVars, markVars, rootVars, cycleVars, clientVars
<1>1. /\ Live' = Live /\ Marked' = Marked /\ Grey' = Grey /\ Registered' = Registered
      /\ children' = children /\ call' = call /\ pc = "enter" /\ objects' = objects
  BY DEF Live, Marked, Grey, Registered
<1>2. \A s \in Slots : slot'[s] = IF s \in Registered THEN slot[s] ELSE Null
  BY DEF ForgetLocals
<1>3. ListInv'
  BY <1>1, ViewFacts DEF ListInv, BeginCollection
<1>4. CASE ~collect_in_progress
  <2>1. /\ pc' = "scan" /\ collect_in_progress' /\ ~roots_scanned' /\ sweep_cursor' = 0
    BY <1>4 DEF BeginCollection
  <2>2. Behind' = {} /\ ~Scanned' /\ ~Settled' /\ ~Scanned /\ ~Settled
    BY <1>4, <2>1 DEF Behind, Scanned, Settled
  <2>3. ControlInv'
    BY <1>1, <2>1 DEF ControlInv
  <2>4. MarkInv'
    BY <1>1, <2>1, <2>2 DEF MarkInv
  <2>5. ClosureInv'
    BY <1>1, <2>2 DEF ClosureInv
  <2>6. SlotInv'
    <3>1. \A s \in Slots : slot'[s] \in Live' \cup {Null}
      BY <1>1, <1>2 DEF SlotInv
    <3>2. \A j \in 1..Len(roots') : ~(j < call'.i)
      BY <1>1, ViewFacts DEF ControlInv
    <3>3. \A s \in Slots \ Registered' : slot'[s] = Null
      BY <1>1, <1>2
    <3> QED
      BY <2>2, <3>1, <3>2, <3>3 DEF SlotInv
  <2> QED
    BY <1>3, <2>3, <2>4, <2>5, <2>6
<1>5. CASE collect_in_progress
  <2>1. /\ UNCHANGED cycleVars /\ roots_scanned /\ Scanned
    BY <1>5 DEF ControlInv, Scanned
  <2>2. pc' = "trace" /\ Scanned' /\ (Settled' <=> Settled) /\ Behind' = Behind /\ Kept' = Kept
    BY <1>1, <2>1, <1>5 DEF Scanned, Settled, Behind, Kept
  <2>3. ControlInv'
    BY <1>1, <1>5, <2>1, <2>2 DEF ControlInv
  <2>4. MarkInv'
    BY <1>1, <2>1, <2>2 DEF MarkInv
  <2>5. ClosureInv'
    BY <1>1, <2>1, <2>2 DEF ClosureInv
  <2>6. SlotInv'
    <3>1. \A s \in Slots : slot'[s] \in Live' \cup {Null}
      BY <1>1, <1>2 DEF SlotInv
    <3>2. RootValues' \subseteq Kept' \cup {Null}
      BY <1>1, <1>2, <2>1, <2>2, ViewFacts DEF SlotInv, RootValues
    <3>3. \A s \in Slots \ Registered' : slot'[s] = Null
      BY <1>1, <1>2
    <3>4. HeldValues' \subseteq RootValues' \cup {Null}
      BY <1>1, <3>3 DEF HeldValues, RootValues
    <3> QED
      BY <2>2, <3>1, <3>2, <3>3, <3>4 DEF SlotInv
  <2> QED
    BY <1>3, <2>3, <2>4, <2>5, <2>6
<1> QED
  BY <1>4, <1>5

LEMMA ScanRootsKeeps ==
  ASSUME TypeOK, TypeOK', Quiet, HeapInv, ScanRoots
  PROVE  HeapInv'
<1> USE DEF HeapInv
<1>1. /\ pc = "scan" /\ collect_in_progress /\ ~roots_scanned /\ sweep_cursor = 0
      /\ ~Scanned /\ ~Settled
  BY DEF ScanRoots, ControlInv, MarkInv, Scanned, Settled
<1>2. /\ UNCHANGED <<objects, roots, slot, children, sweep_cursor, collect_in_progress>>
      /\ Live' = Live /\ Registered' = Registered /\ Behind = {} /\ Behind' = {}
  BY <1>1 DEF ScanRoots, listVars, rootVars, clientVars, Live, Registered, Behind
<1>5. call.i \in Nat \ {0} /\ Len(roots) \in Nat /\ roots \in Seq(Slots)
  <2>1. call \in CallType
    BY DEF TypeOK
  <2> QED
    BY <2>1, CallFields, ViewFacts DEF TypeOK
<1>3. CASE call.i <= Len(roots) /\ MarkPtr(slot[roots[call.i]])
           /\ call' = [call EXCEPT !.i = @ + 1] /\ UNCHANGED <<pc, roots_scanned>>
  <2> DEFINE p == slot[roots[call.i]]
  <2>1. roots[call.i] \in Slots /\ p \in Live \cup {Null} /\ p \in Pointers
    <3>1. call.i \in 1..Len(roots) /\ roots \in Seq(Slots)
      BY <1>3, <1>5
    <3>2. roots[call.i] \in Slots
      BY <3>1, ElementOfSeq
    <3> QED
      BY <3>2 DEF SlotInv, TypeOK
  <2>2. /\ p \in Marked \cup {Null} => UNCHANGED markVars
        /\ p \notin Marked \cup {Null} => Marked' = Marked \cup {p} /\ Grey' = Grey \cup {p}
        /\ Marked' \cup {Null} = Marked \cup {p, Null}
    BY <1>3, <2>1, MarkPtrEffect
  <2> HIDE DEF p
  <2>3. /\ Marked' \subseteq Live /\ Marked' \subseteq Grey' /\ Grey' \subseteq Marked'
    <3>1. CASE p \in Marked \cup {Null}
      <4>1. Marked' = Marked /\ Grey' = Grey
        BY <2>2, <3>1 DEF markVars, Marked, Grey
      <4> QED
        BY <4>1, <1>1 DEF ListInv, MarkInv
    <3>2. CASE p \notin Marked \cup {Null}
      BY <1>1, <2>1, <2>2, <3>2 DEF ListInv, MarkInv
    <3> QED
      BY <3>1, <3>2
  <2>4. call'.i = call.i + 1 /\ call'.node = call.node /\ call'.todo = call.todo /\ call'.by = call.by
    BY <1>3 DEF TypeOK, CallType
  <2>5. pc' = "scan" /\ ~Scanned' /\ ~Settled'
    BY <1>1, <1>3 DEF Scanned, Settled
  <2>6. ListInv'
    BY <1>2, <2>3 DEF ListInv
  <2>7. ControlInv'
    BY <1>1, <1>2, <1>3, <2>4, <2>5 DEF ControlInv
  <2>8. MarkInv'
    BY <1>1, <1>2, <2>3, <2>5 DEF MarkInv
  <2>9. ClosureInv'
    BY <1>1, <1>2, <2>5 DEF ClosureInv
  <2>10. SlotInv'
    <3>1. ASSUME NEW j \in 1..Len(roots), j < call.i + 1
          PROVE  slot[roots[j]] \in Marked' \cup {Null}
      <4>1. call.i \in Nat /\ j \in Nat
        BY <1>5
      <4>2. CASE j < call.i
        BY <1>1, <2>2, <4>2 DEF SlotInv
      <4>3. CASE j = call.i
        BY <2>2, <4>3 DEF p
      <4> QED
        BY <3>1, <4>1, <4>2, <4>3
    <3> QED
      BY <1>1, <1>2, <2>4, <2>5, <3>1 DEF SlotInv
  <2> QED
    BY <2>6, <2>7, <2>8, <2>9, <2>10
<1>4. CASE call.i > Len(roots) /\ roots_scanned' = TRUE /\ pc' = "trace" /\ UNCHANGED <<markVars, call>>
  <2>1. Marked' = Marked /\ Grey' = Grey /\ Kept' = Marked /\ call' = call /\ mark_stack' = mark_stack
    BY <1>2, <1>4 DEF markVars, Marked, Grey, Kept
  <2>2. Scanned' /\ (mark_stack # <<>> => ~Settled')
    BY <1>1, <1>2, <1>4, <2>1 DEF Scanned, Settled
  <2>3. RootValues' \subseteq Marked \cup {Null}
    <3> SUFFICES ASSUME NEW s \in Registered PROVE slot[s] \in Marked \cup {Null}
      BY <1>2 DEF RootValues
    <3>1. PICK j \in 1..Len(roots) : s = roots[j]
      BY ViewFacts
    <3>2. j < call.i
      BY <1>4, <1>5
    <3> QED
      BY <1>1, <3>1, <3>2 DEF SlotInv
  <2>4. HeldValues' \subseteq Marked \cup {Null}
    BY <1>1, <1>2, <2>3 DEF HeldValues, RootValues, SlotInv
  <2>5. ListInv'
    BY <1>2, <2>1 DEF ListInv
  <2>6. ControlInv'
    BY <1>1, <1>2, <1>4, <2>1 DEF ControlInv
  <2>7. MarkInv'
    BY <1>1, <1>2, <1>4, <2>1, <2>2 DEF MarkInv
  <2>8. ClosureInv'
    <3>1. \A o \in Live : children[o] \subseteq Live
      BY <1>1 DEF ClosureInv
    <3>2. Kept' \ Grey' = {}
      BY <1>1, <2>1 DEF MarkInv
    <3> QED
      BY <1>2, <3>1, <3>2 DEF ClosureInv
  <2>9. SlotInv'
    BY <1>1, <1>2, <1>4, <2>1, <2>3, <2>4 DEF SlotInv
  <2> QED
    BY <2>5, <2>6, <2>7, <2>8, <2>9
<1> QED
  BY <1>3, <1>4 DEF ScanRoots

LEMMA TraceSomeKeeps ==
  ASSUME TypeOK, TypeOK', HeapInv, TraceSome
  PROVE  HeapInv'
<1> USE DEF HeapInv
<1>1. /\ pc = "trace" /\ collect_in_progress /\ roots_scanned /\ Scanned /\ call.todo = {}
  BY DEF TraceSome, ControlInv, Scanned
<1>2. /\ UNCHANGED <<objects, marked, roots, slot, children, sweep_cursor>>
      /\ collect_in_progress' /\ roots_scanned' /\ Scanned'
      /\ Live' = Live /\ Marked' = Marked /\ Registered' = Registered
      /\ Behind' = Behind /\ Kept' = Kept
  BY <1>1 DEF TraceSome, listVars, rootVars, clientVars, cycleVars, Live, Marked, Registered,
              Behind, Kept, Scanned
<1>3. /\ \A s \in Slots : slot'[s] \in Live' \cup {Null}
      /\ RootValues' \subseteq Kept' \cup {Null}
      /\ \A s \in Slots \ Registered' : slot'[s] = Null
      /\ HeldValues' \subseteq Kept' \cup {Null}
  BY <1>1, <1>2 DEF SlotInv, RootValues, HeldValues
<1>4. CASE mark_stack # <<>> /\ call.trace > 0 /\ pc' = "tracing"
           /\ mark_stack' = Front(mark_stack)
           /\ call' = [call EXCEPT !.node = Last(mark_stack),
                                   !.todo = children[Last(mark_stack)], !.trace = @ - 1]
  <2> DEFINE top == Last(mark_stack)
  <2>1. /\ top \in Grey /\ top \in Objects /\ top # Null
        /\ Grey' \subseteq Grey /\ Grey \subseteq Grey' \cup {top}
    <3>1. mark_stack \in Seq(Objects)
      BY DEF TypeOK
    <3>2. /\ Front(mark_stack) \in Seq(Objects) /\ Len(Front(mark_stack)) = Len(mark_stack) - 1
          /\ \A j \in 1..Len(mark_stack)-1 : Front(mark_stack)[j] = mark_stack[j]
          /\ top \in Objects /\ top = mark_stack[Len(mark_stack)]
          /\ Len(mark_stack) \in Nat \ {0}
      BY <1>4, <3>1, FrontFacts
    <3>3. Grey = {mark_stack[j] : j \in 1..Len(mark_stack)}
      BY ViewFacts
    <3>4. Grey' = {mark_stack'[j] : j \in 1..Len(mark_stack')}
      <4>1. mark_stack' \in Seq(Objects)
        BY <1>4, <3>2
      <4> QED
        BY <4>1, LenProperties DEF Grey, ToSet
    <3> HIDE DEF top
    <3> QED
      BY <1>4, <3>2, <3>3, <3>4, ObjectsAssumption
  <2>2. call'.node = top /\ call'.todo = children[top] /\ call'.by = call.by
    BY <1>4 DEF TypeOK, CallType
  <2> HIDE DEF top
  <2>3. ~Settled /\ ~Settled'
    BY <1>4 DEF Settled
  <2>4. ListInv'
    BY <1>2, <2>1 DEF ListInv
  <2>5. ControlInv'
    BY <1>1, <1>2, <1>4, <2>1, <2>2 DEF ControlInv
  <2>6. MarkInv'
    BY <1>1, <1>2, <2>1, <2>2, <2>3 DEF MarkInv, ListInv
  <2>7. ClosureInv'
    BY <1>1, <1>2, <2>1, <2>2, <2>3 DEF ClosureInv
  <2>8. SlotInv'
    BY <1>2, <1>3, <1>4 DEF SlotInv
  <2> QED
    BY <2>4, <2>5, <2>6, <2>7, <2>8
<1>5. CASE ((mark_stack = <<>> /\ pc' = "sweep") \/ pc' = "finish") /\ UNCHANGED <<mark_stack, call>>
  <2>1. Grey' = Grey /\ (Settled' <=> Settled) /\ call' = call
    BY <1>1, <1>2, <1>5 DEF Grey, Settled
  <2>2. ListInv'
    BY <1>2, <2>1 DEF ListInv
  <2>3. ControlInv'
    BY <1>1, <1>2, <1>5, <2>1 DEF ControlInv
  <2>4. MarkInv'
    BY <1>1, <1>2, <1>5, <2>1 DEF MarkInv
  <2>5. ClosureInv'
    BY <1>1, <1>2, <2>1 DEF ClosureInv
  <2>6. SlotInv'
    BY <1>2, <1>3, <1>5 DEF SlotInv
  <2> QED
    BY <2>2, <2>3, <2>4, <2>5, <2>6
<1> QED
  BY <1>4, <1>5 DEF TraceSome

LEMMA TraceCallbackKeeps ==
  ASSUME TypeOK, TypeOK', Quiet, HeapInv, TraceCallback
  PROVE  HeapInv'
<1> USE DEF HeapInv
<1>1. /\ pc = "tracing" /\ collect_in_progress /\ roots_scanned /\ Scanned /\ ~Settled
      /\ sweep_cursor = 0 /\ Behind = {} /\ Kept = Marked
      /\ call.node \in Marked /\ call.node # Null /\ call.todo \subseteq children[call.node]
      /\ call.todo \subseteq Live
  BY DEF TraceCallback, ControlInv, MarkInv, ListInv, ClosureInv, Scanned, Settled, Behind, Kept
<1>2. /\ UNCHANGED <<objects, roots, slot, children, sweep_cursor>>
      /\ collect_in_progress' /\ roots_scanned' /\ Scanned'
      /\ Live' = Live /\ Registered' = Registered /\ Behind' = {} /\ Kept' = Marked'
  BY <1>1 DEF TraceCallback, listVars, rootVars, clientVars, cycleVars, Live, Registered,
              Behind, Kept, Scanned
<1>3. /\ RootValues' = RootValues /\ HeldValues' = HeldValues
      /\ \A s \in Slots \ Registered : slot[s] = Null
      /\ HeldValues \subseteq Marked \cup {Null} /\ RootValues \subseteq Marked \cup {Null}
      /\ \A s \in Slots : slot[s] \in Live \cup {Null}
  BY <1>1, <1>2 DEF SlotInv, RootValues, HeldValues
<1>4. ASSUME NEW p \in call.todo, MarkPtr(p), call' = [call EXCEPT !.todo = @ \ {p}], UNCHANGED pc
      PROVE  HeapInv'
  <2>1. p \in Live /\ p \in Pointers /\ p # Null
    BY <1>1, ViewFacts, ObjectsAssumption DEF Pointers
  <2>2. /\ p \in Marked => UNCHANGED markVars
        /\ p \notin Marked => Marked' = Marked \cup {p} /\ Grey' = Grey \cup {p}
    BY <1>4, <2>1, MarkPtrEffect
  <2>3. /\ Marked' = Marked \cup {p} /\ Marked' \ Grey' = Marked \ Grey
        /\ Grey' \subseteq Marked' /\ Marked' \subseteq Live
    <3>1. CASE p \in Marked
      <4>1. Marked' = Marked /\ Grey' = Grey
        BY <2>2, <3>1 DEF markVars, Marked, Grey
      <4> QED
        BY <3>1, <4>1 DEF ListInv
    <3>2. CASE p \notin Marked
      BY <2>1, <2>2, <3>2 DEF ListInv
    <3> QED
      BY <3>1, <3>2
  <2>4. call'.node = call.node /\ call'.todo = call.todo \ {p} /\ call'.by = call.by
    BY <1>4 DEF TypeOK, CallType
  <2>5. pc' = "tracing" /\ ~Settled'
    BY <1>1, <1>4 DEF Settled
  <2>6. ListInv'
    BY <1>2, <2>3 DEF ListInv
  <2>7. ControlInv'
    BY <1>1, <1>2, <2>4, <2>5 DEF ControlInv
  <2>8. MarkInv'
    BY <1>1, <1>2, <2>3, <2>4, <2>5 DEF MarkInv
  <2>9. ClosureInv'
    <3>1. ASSUME NEW o \in Marked' \ Grey'
          PROVE  children[o] \subseteq Marked' \cup (IF o = call'.node THEN call'.todo ELSE {})
      <4>1. children[o] \subseteq Marked \cup (IF o = call.node THEN call.todo ELSE {})
        BY <1>1, <2>3 DEF ClosureInv
      <4> QED
        BY <2>3, <2>4, <4>1
    <3> QED
      BY <1>1, <1>2, <3>1 DEF ClosureInv
  <2>10. SlotInv'
    BY <1>2, <1>3, <2>3, <2>5 DEF SlotInv
  <2> QED
    BY <2>6, <2>7, <2>8, <2>9, <2>10
<1>5. CASE call.todo = {} /\ call' = [call EXCEPT !.node = Null] /\ pc' = "trace" /\ UNCHANGED markVars
  <2>1. Marked' = Marked /\ Grey' = Grey /\ mark_stack' = mark_stack
    BY <1>5 DEF markVars, Marked, Grey
  <2>2. call'.node = Null /\ call'.todo = {} /\ call'.by = call.by
    BY <1>5 DEF TypeOK, CallType
  <2>3. ListInv'
    BY <1>2, <2>1 DEF ListInv
  <2>4. ControlInv'
    BY <1>1, <1>2, <1>5, <2>2 DEF ControlInv
  <2>5. MarkInv'
    BY <1>1, <1>2, <1>5, <2>1, <2>2 DEF MarkInv
  <2>6. ClosureInv'
    <3>1. \A o \in Marked \ Grey : children[o] \subseteq Marked
      BY <1>1, <1>5 DEF ClosureInv
    <3> QED
      BY <1>1, <1>2, <2>1, <2>2, <3>1 DEF ClosureInv
  <2>7. SlotInv'
    BY <1>2, <1>3, <1>5, <2>1 DEF SlotInv
  <2> QED
    BY <2>3, <2>4, <2>5, <2>6, <2>7
<1> QED
  BY <1>4, <1>5 DEF TraceCallback

LEMMA SweepSomeKeeps ==
  ASSUME TypeOK, TypeOK', HeapInv, SweepSome
  PROVE  HeapInv'
<1> USE DEF HeapInv
<1>1. /\ pc = "sweep" /\ collect_in_progress /\ roots_scanned /\ Scanned /\ Settled
      /\ mark_stack = <<>> /\ Grey = {} /\ call.todo = {}
  <2>1. pc = "sweep" /\ collect_in_progress /\ roots_scanned /\ mark_stack = <<>> /\ call.todo = {}
    BY DEF SweepSome, ControlInv
  <2> QED
    BY <2>1, ViewFacts DEF Scanned, Settled
<1>2. /\ UNCHANGED <<mark_stack, roots, slot, children, collect_in_progress, roots_scanned>>
      /\ Scanned' /\ Settled' /\ Registered' = Registered /\ Grey' = {}
      /\ RootValues' = RootValues /\ HeldValues' = HeldValues
  <2>1. /\ UNCHANGED <<mark_stack, roots, slot, children, collect_in_progress, roots_scanned>>
        /\ pc' \in {"sweep", "finish"}
    BY <1>1 DEF SweepSome, rootVars, clientVars
  <2> QED
    BY <1>1, <2>1 DEF Scanned, Settled, Registered, Grey, RootValues, HeldValues
<1>3. /\ RootValues \subseteq Kept \cup {Null} /\ HeldValues \subseteq Kept \cup {Null}
      /\ \A s \in Slots \ Registered : slot[s] = Null
      /\ \A o \in Kept : children[o] \subseteq Kept
      /\ \A s \in Slots : slot[s] \in Kept \cup {Null}
  BY <1>1 DEF SlotInv, ClosureInv, HeldValues
\* It is enough that the sweep keeps Kept, and frees nothing in it.
<1>4. ASSUME ListInv', Kept' = Kept, Kept \subseteq Live', Behind' \cap Marked' = {},
             call'.node = call.node, call'.todo = call.todo, call'.by = call.by,
             pc' \in {"sweep", "finish"}
      PROVE  HeapInv'
  <2>1. ControlInv'
    BY <1>1, <1>2, <1>4 DEF ControlInv
  <2>2. MarkInv'
    BY <1>1, <1>2, <1>4 DEF MarkInv
  <2>3. ClosureInv'
    BY <1>1, <1>2, <1>3, <1>4 DEF ClosureInv
  <2>4. SlotInv'
    BY <1>2, <1>3, <1>4 DEF SlotInv
  <2> QED
    BY <1>4, <2>1, <2>2, <2>3, <2>4
<1>5. CASE pc' = "finish" /\ UNCHANGED <<listVars, marked, bytes_live, sweep_cursor, call>>
  <2>1. Live' = Live /\ Marked' = Marked /\ Behind' = Behind /\ Kept' = Kept
    BY <1>5 DEF listVars, Live, Marked, Behind, Kept
  <2>2. ListInv' /\ Kept \subseteq Live
    BY <1>2, <1>1, <1>5, <2>1, ViewFacts DEF ListInv, listVars, Kept
  <2> QED
    BY <1>1, <1>4, <1>5, <2>1, <2>2 DEF MarkInv
<1>6. CASE sweep_cursor < Len(objects) /\ call.sweep > 0 /\ (SweepKeep \/ SweepFree)
           /\ call' = [call EXCEPT !.sweep = @ - 1] /\ UNCHANGED pc
  <2> DEFINE k == sweep_cursor + 1
             o == objects[k]
  <2>1. /\ sweep_cursor \in Nat /\ Len(objects) \in Nat /\ k \in 1..Len(objects)
        /\ objects \in Seq(Objects) /\ o \in Objects /\ o \in Live
    <3>1. sweep_cursor \in Nat /\ Len(objects) \in Nat /\ objects \in Seq(Objects)
      BY ViewFacts DEF TypeOK
    <3>2. k \in 1..Len(objects)
      BY <1>6, <3>1
    <3> QED
      BY <3>1, <3>2, ElementOfSeq, ViewFacts
  <2>2. o \notin Behind /\ Behind \subseteq Live
    BY <2>1, ViewFacts DEF ListInv, Behind
  <2>3. call'.node = call.node /\ call'.todo = call.todo /\ call'.by = call.by /\ pc' = "sweep"
    BY <1>1, <1>6 DEF TypeOK, CallType
  <2>4. CASE SweepKeep
    <3>1. o \in Marked /\ Marked' = Marked \ {o} /\ objects' = objects /\ Live' = Live
      BY <2>1, <2>4 DEF SweepKeep, Marked, TypeOK, listVars, Live
    <3>2. sweep_cursor' = k /\ k <= Len(objects)
      BY <2>1, <2>4 DEF SweepKeep
    <3>3. Behind' = Behind \cup {o}
      <4>1. Behind' = {objects[i] : i \in 1..k}
        BY <3>1, <3>2 DEF Behind
      <4>2. 1..k = (1..sweep_cursor) \cup {k}
        BY <2>1
      <4> QED
        BY <4>1, <4>2 DEF Behind
    <3> HIDE DEF o, k
    <3>4. ListInv'
      BY <1>2, <3>1, <3>2 DEF ListInv
    <3>5. Kept' = Kept /\ Kept \subseteq Live /\ Behind' \cap Marked' = {}
      BY <1>1, <2>2, <3>1, <3>3 DEF Kept, ListInv, MarkInv
    <3> QED
      BY <1>4, <2>3, <3>1, <3>4, <3>5
  <2>5. CASE SweepFree
    <3>1. /\ o \notin Marked /\ Marked' = Marked /\ objects' = RemoveAt(objects, k)
          /\ sweep_cursor' = sweep_cursor
      BY <2>1, <2>5 DEF SweepFree, Marked
    <3>2. /\ objects' \in Seq(Objects) /\ Len(objects') = Len(objects) - 1
          /\ \A j \in 1..Len(objects)-1 : objects'[j] = IF j < k THEN objects[j] ELSE objects[j+1]
      <4> HIDE DEF k
      <4> QED
        BY <2>1, <3>1, RemoveAtFacts
    <3>3. Live' = {objects'[j] : j \in 1..Len(objects)-1} /\ Live = {objects[j] : j \in 1..Len(objects)}
      BY <3>2, LenProperties, ViewFacts DEF Live, ToSet
    <3>4. Live \ {o} \subseteq Live'
      <4> SUFFICES ASSUME NEW x \in Live, x # o PROVE x \in Live'
        OBVIOUS
      <4>1. PICK j \in 1..Len(objects) : x = objects[j]
        BY <3>3
      <4>2. j # k
        BY <4>1
      <4>3. CASE j < k
        <5>1. j \in 1..Len(objects)-1 /\ objects'[j] = x
          BY <2>1, <3>2, <4>1, <4>3
        <5> QED
          BY <3>3, <5>1
      <4>4. CASE j > k
        <5>1. j-1 \in 1..Len(objects)-1 /\ ~(j-1 < k) /\ (j-1)+1 = j
          BY <2>1, <4>1, <4>4
        <5>2. objects'[j-1] = x
          BY <3>2, <4>1, <5>1
        <5> QED
          BY <3>3, <5>1, <5>2
      <4> QED
        BY <2>1, <4>1, <4>2, <4>3, <4>4
    <3>5. Behind' = Behind
      <4>1. \A j \in 1..sweep_cursor : objects'[j] = objects[j]
        BY <2>1, <3>2
      <4> QED
        BY <3>1, <4>1 DEF Behind
    <3>6. \A i, j \in 1..Len(objects') : objects'[i] = objects'[j] => i = j
      <4> DEFINE at(j) == IF j < k THEN j ELSE j + 1
      <4>1. \A j \in 1..Len(objects)-1 : at(j) \in 1..Len(objects) /\ objects'[j] = objects[at(j)]
        BY <2>1, <3>2
      <4>2. \A i, j \in 1..Len(objects)-1 : at(i) = at(j) => i = j
        BY <2>1
      <4> HIDE DEF at, k
      <4>3. \A i, j \in 1..Len(objects) : objects[i] = objects[j] => i = j
        BY DEF ListInv
      <4> QED
        BY <3>2, <4>1, <4>2, <4>3
    <3>7. sweep_cursor' <= Len(objects')
      BY <2>1, <3>1, <3>2
    <3> HIDE DEF o, k
    <3>8. Kept' = Kept /\ Kept \subseteq Live'
      BY <2>2, <3>1, <3>4, <3>5 DEF Kept, ListInv
    <3>9. ListInv'
      BY <1>2, <3>1, <3>6, <3>7, <3>8 DEF ListInv, Kept
    <3> QED
      BY <1>1, <1>4, <2>3, <3>1, <3>5, <3>8, <3>9 DEF MarkInv
  <2> QED
    BY <1>6, <2>4, <2>5
<1> QED
  BY <1>5, <1>6 DEF SweepSome

LEMMA FinishStepKeeps ==
  ASSUME TypeOK, TypeOK', HeapInv, FinishStep
  PROVE  HeapInv'
<1> USE DEF HeapInv
<1>1. /\ pc = "finish" /\ collect_in_progress /\ roots_scanned /\ Scanned
      /\ call.todo = {} /\ (Settled <=> mark_stack = <<>>)
  BY DEF FinishStep, ControlInv, Scanned, Settled
<1>2. /\ UNCHANGED <<objects, marked, mark_stack, roots, slot, children, roots_scanned, sweep_cursor>>
      /\ collect_in_progress' = ~CycleDone /\ pc' \in {"client", "enter"}
  BY DEF FinishStep, ControlInv, listVars, markVars, rootVars
<1>3. /\ Live' = Live /\ Marked' = Marked /\ Grey' = Grey /\ Registered' = Registered
      /\ Behind' = Behind /\ Kept' = Kept
      /\ RootValues' = RootValues /\ HeldValues' = HeldValues
  BY <1>2 DEF Live, Marked, Grey, Registered, Behind, Kept, RootValues, HeldValues
<1>4. /\ call'.todo = {} /\ call'.node = Null /\ call'.by # "alloc" /\ call'.i = 1
      /\ pc' = "client" => call' = NoCall
  BY RequestFields DEF FinishStep
<1>5. ListInv'
  BY <1>2, <1>3 DEF ListInv
<1>6. ControlInv'
  BY <1>1, <1>2, <1>4 DEF ControlInv
<1>7. CASE CycleDone
  <2>1. /\ mark_stack = <<>> /\ sweep_cursor = Len(objects) /\ Grey = {}
        /\ ~Scanned' /\ ~Settled' /\ ~collect_in_progress'
    BY <1>2, <1>7, ViewFacts DEF CycleDone, Scanned, Settled
  <2>2. Behind = Live /\ Marked = {} /\ Kept = Live
    <3>1. Behind = Live
      BY <2>1, ViewFacts DEF Behind
    <3> QED
      BY <1>1, <3>1 DEF MarkInv, ListInv, Kept
  <2>3. MarkInv'
    BY <1>2, <1>3, <2>1, <2>2 DEF MarkInv
  <2>4. ClosureInv'
    BY <1>1, <1>2, <1>3, <2>1, <2>2 DEF ClosureInv
  <2>5. SlotInv'
    BY <1>2, <1>3, <2>1 DEF SlotInv
  <2> QED
    BY <1>5, <1>6, <2>3, <2>4, <2>5
<1>8. CASE ~CycleDone
  <2>1. Scanned' /\ (Settled' <=> Settled)
    BY <1>1, <1>2, <1>8 DEF Scanned, Settled
  <2>2. MarkInv'
    BY <1>1, <1>2, <1>3, <2>1 DEF MarkInv
  <2>3. ClosureInv'
    BY <1>1, <1>2, <1>3, <1>4, <2>1 DEF ClosureInv
  <2>4. SlotInv'
    BY <1>1, <1>2, <1>3, <2>1 DEF SlotInv
  <2> QED
    BY <1>5, <1>6, <2>2, <2>3, <2>4
<1> QED
  BY <1>7, <1>8

-----------------------------------------------------------------------------
\* A quiet client's actions preserve HeapInv.
LEMMA AllocKeeps ==
  ASSUME TypeOK, TypeOK', Quiet, HeapInv,
         NEW s \in Slots, NEW o \in Objects, NEW n \in Sizes, Alloc(s, o, n)
  PROVE  HeapInv'
<1> USE DEF HeapInv
<1>1. /\ pc = "client" /\ ~collect_in_progress /\ bytes_allocated + n <= threshold_bytes
      /\ ~Scanned /\ ~Settled /\ o \notin Live /\ o # Null
  BY ObjectsAssumption DEF Alloc, MayAlloc, MayMutate, Quiet, Scanned, Settled
<1>2. /\ pc' = "client" /\ call' = call /\ ~collect_in_progress' /\ slot' = [slot EXCEPT ![s] = o]
      /\ UNCHANGED <<mark_stack, roots, roots_scanned>> /\ ~Scanned' /\ ~Settled'
  <2>1. ~(bytes_allocated + n > threshold_bytes)
    BY <1>1, SizesAssumption DEF TypeOK
  <2>2. pc' = pc /\ call' = call /\ slot' = [slot EXCEPT ![s] = o]
    BY <2>1 DEF Alloc
  <2> QED
    BY <1>1, <2>2 DEF Alloc, rootVars, Scanned, Settled
<1>3. /\ objects' \in Seq(Objects) /\ Len(objects') = Len(objects) + 1 /\ objects'[1] = o
      /\ \A j \in 1..Len(objects) : objects'[j+1] = objects[j]
  <2>1. objects \in Seq(Objects) /\ objects' = Cons(o, objects)
    BY DEF Alloc, TypeOK
  <2> QED
    BY <2>1, ConsObject
<1>4. Len(objects) \in Nat /\ Live = {objects[j] : j \in 1..Len(objects)}
      /\ Live' = {objects'[j] : j \in 1..Len(objects)+1}
  BY <1>3, LenProperties, ViewFacts DEF Live, ToSet
<1>5. \A j \in 1..Len(objects)+1 : objects'[j] = IF j = 1 THEN o ELSE objects[j-1]
  <2> SUFFICES ASSUME NEW j \in 1..Len(objects)+1, j # 1 PROVE objects'[j] = objects[j-1]
    BY <1>3
  <2>1. j-1 \in 1..Len(objects) /\ (j-1)+1 = j
    BY <1>4
  <2> QED
    BY <1>3, <2>1
<1>6. Live' = Live \cup {o}
  <2>1. Live' \subseteq Live \cup {o}
    <3> SUFFICES ASSUME NEW j \in 1..Len(objects)+1, j # 1 PROVE objects[j-1] \in Live
      BY <1>4, <1>5
    <3>1. j-1 \in 1..Len(objects)
      BY <1>4
    <3> QED
      BY <1>4, <3>1
  <2>2. o \in Live'
    BY <1>3, <1>4
  <2>3. Live \subseteq Live'
    <3> SUFFICES ASSUME NEW j \in 1..Len(objects) PROVE objects[j] \in Live'
      BY <1>4
    <3>1. j+1 \in 1..Len(objects)+1 /\ objects'[j+1] = objects[j]
      BY <1>3, <1>4
    <3> QED
      BY <1>4, <3>1
  <2> QED
    BY <2>1, <2>2, <2>3
<1>7. /\ Marked' = Marked /\ Grey' = Grey
  BY <1>1, <1>2 DEF Alloc, Marked, Grey, TypeOK, ListInv
<1>8. \A i, j \in 1..Len(objects') : objects'[i] = objects'[j] => i = j
  <2> SUFFICES ASSUME NEW i \in 1..Len(objects)+1, NEW j \in 1..Len(objects)+1,
                      objects'[i] = objects'[j], i # j
               PROVE  FALSE
    BY <1>3
  <2>1. ASSUME NEW m \in 1..Len(objects)+1, m # 1
        PROVE  m-1 \in 1..Len(objects) /\ objects'[m] = objects[m-1] /\ objects'[m] \in Live
    <3>1. m-1 \in 1..Len(objects)
      BY <1>4, <2>1
    <3> QED
      BY <1>4, <1>5, <2>1, <3>1
  <2>2. CASE i = 1
    BY <1>1, <1>5, <2>1, <2>2
  <2>3. CASE j = 1
    BY <1>1, <1>5, <2>1, <2>3
  <2>4. CASE i # 1 /\ j # 1
    <3>1. i-1 = j-1
      BY <2>1, <2>4 DEF ListInv
    <3> QED
      BY <1>4, <3>1
  <2> QED
    BY <2>2, <2>3, <2>4
<1>9. ListInv'
  <2>1. sweep_cursor' <= Len(objects')
    <3>1. sweep_cursor \in Nat /\ sweep_cursor <= Len(objects)
      BY DEF TypeOK, ListInv
    <3>2. sweep_cursor' = IF sweep_cursor = 0 THEN 0 ELSE sweep_cursor + 1
      BY DEF Alloc
    <3> QED
      BY <1>3, <1>4, <3>1, <3>2
  <2> QED
    BY <1>6, <1>7, <1>8, <2>1 DEF ListInv
<1>10. ControlInv'
  BY <1>1, <1>2 DEF ControlInv
<1>11. MarkInv'
  BY <1>1, <1>2, <1>7 DEF MarkInv
<1>12. ClosureInv'
  <2>1. children' = [children EXCEPT ![o] = {}]
    BY DEF Alloc
  <2>2. \A x \in Live' : children'[x] \subseteq Live'
    <3>1. \A x \in Live : children[x] \subseteq Live
      BY <1>1 DEF ClosureInv
    <3>2. children \in [Objects -> SUBSET Objects] /\ Live \subseteq Objects
      BY ViewFacts DEF TypeOK
    <3>3. \A x \in Live \cup {o} : children'[x] = IF x = o THEN {} ELSE children[x]
      BY <2>1, <3>2
    <3> QED
      BY <1>6, <3>1, <3>3
  <2> QED
    BY <1>2, <2>2 DEF ClosureInv
<1>13. SlotInv'
  <2>1. \A t \in Slots : slot'[t] \in Live' \cup {Null}
    BY <1>2, <1>6 DEF SlotInv, TypeOK
  <2> QED
    BY <1>2, <2>1 DEF SlotInv
<1> QED
  BY <1>9, <1>10, <1>11, <1>12, <1>13

\* Client actions that leave the list and the collector alone: it is enough
\* that the marks, the payloads and the slots still satisfy their conjuncts.
LEMMA ClientFrame ==
  ASSUME TypeOK, HeapInv, pc = "client", pc' = "client",
         UNCHANGED <<listVars, cycleVars, call>>
  PROVE  /\ Live' = Live /\ Behind' = Behind /\ call.todo = {} /\ call' = call
         /\ Scanned' = Scanned /\ objects' = objects
         /\ collect_in_progress' = collect_in_progress /\ roots_scanned' = roots_scanned
         /\ sweep_cursor' = sweep_cursor
         /\ ControlInv'
         /\ collect_in_progress => Scanned
         /\ Settled <=> Scanned /\ mark_stack = <<>>
         /\ Settled' <=> Scanned /\ mark_stack' = <<>>
  BY DEF HeapInv, ControlInv, listVars, cycleVars, Live, Behind, Scanned, Settled

\* The client moves pointers it holds between its variables, forgets them or
\* unregisters a variable.
LEMMA SlotActionsKeep ==
  ASSUME TypeOK, TypeOK', Quiet, HeapInv, NEW s \in Slots,
         AllocNull(s) \/ Forget(s) \/ AddRoot(s) \/ RemoveRoot(s) \/ \E t \in Slots : LoadChild(s, t)
  PROVE  HeapInv'
<1> USE DEF HeapInv
<1>1. /\ pc = "client" /\ pc' = "client" /\ UNCHANGED <<listVars, cycleVars, call, markVars, children>>
  BY DEF AllocNull, Forget, AddRoot, RemoveRoot, LoadChild, clientVars
<1>2. /\ Live' = Live /\ Behind' = Behind /\ call.todo = {} /\ call' = call
      /\ Scanned' = Scanned /\ objects' = objects /\ collect_in_progress' = collect_in_progress
      /\ sweep_cursor' = sweep_cursor /\ ControlInv' /\ (collect_in_progress => Scanned)
      /\ (Settled <=> Scanned /\ mark_stack = <<>>) /\ (Settled' <=> Scanned /\ mark_stack' = <<>>)
  BY <1>1, ClientFrame
<1>3. /\ Marked' = Marked /\ Grey' = Grey /\ mark_stack' = mark_stack /\ Kept' = Kept
      /\ (Settled' <=> Settled)
  BY <1>1, <1>2 DEF markVars, Marked, Grey, Kept
<1>4. ListInv'
  BY <1>2, <1>3 DEF ListInv
<1>5. MarkInv'
  BY <1>1, <1>2, <1>3 DEF MarkInv
<1>6. ClosureInv'
  BY <1>1, <1>2, <1>3 DEF ClosureInv
<1>7. /\ \A t \in Slots : slot'[t] \in Live \cup {Null}
      /\ Settled => HeldValues' \subseteq Kept \cup {Null}
      /\ Scanned => RootValues' \subseteq Kept \cup {Null}
  <2>1. CASE AllocNull(s) \/ Forget(s)
    <3>1. slot' = [slot EXCEPT ![s] = Null] /\ Registered' = Registered
      BY <2>1 DEF AllocNull, Forget, rootVars, Registered
    <3>2. \A t \in Slots : slot'[t] = IF t = s THEN Null ELSE slot[t]
      BY <3>1 DEF TypeOK
    <3> QED
      BY <3>1, <3>2, ViewFacts DEF SlotInv, HeldValues, RootValues
  <2>2. CASE AddRoot(s)
    <3>1. ~collect_in_progress /\ slot' = slot
      BY <2>2 DEF AddRoot, MayMutate, Quiet, clientVars
    <3> QED
      BY <3>1 DEF SlotInv, Settled, Scanned
  <2>3. CASE RemoveRoot(s)
    <3>1. slot' = slot
      BY <2>3 DEF RemoveRoot, clientVars
    <3>2. Registered' \subseteq Registered
      <4>1. PICK i \in 1..Len(roots) : roots' = Front([roots EXCEPT ![i] = Last(roots)])
        BY <2>3 DEF RemoveRoot
      <4>2. roots \in Seq(Slots)
        BY DEF TypeOK
      <4> QED
        BY <4>1, <4>2, RemoveRootFacts DEF Registered
    <3> QED
      BY <3>1, <3>2 DEF SlotInv, HeldValues, RootValues
  <2>4. ASSUME NEW t \in Slots, LoadChild(s, t)
        PROVE  /\ \A u \in Slots : slot'[u] \in Live \cup {Null}
               /\ Settled => HeldValues' \subseteq Kept \cup {Null}
               /\ Scanned => RootValues' \subseteq Kept \cup {Null}
    <3>1. PICK p \in children[slot[s]] : slot' = [slot EXCEPT ![t] = p]
      BY <2>4 DEF LoadChild
    <3>2. \A u \in Slots : slot'[u] = IF u = t THEN p ELSE slot[u]
      BY <3>1 DEF TypeOK
    <3>3. slot[s] \in Live /\ Registered' = Registered
      BY <2>4 DEF LoadChild, SlotInv, rootVars, Registered
    <3>4. Settled => p \in Kept
      <4> SUFFICES ASSUME Settled PROVE p \in Kept
        OBVIOUS
      <4>1. slot[s] \in Kept /\ Grey = {} /\ Scanned
        BY <2>4, <1>2, ViewFacts DEF SlotInv, HeldValues, LoadChild
      <4> QED
        BY <1>2, <3>1, <4>1 DEF ClosureInv
    <3>5. Kept \subseteq Live
      BY ViewFacts DEF Kept, ListInv
    <3>6. p \in Live
      BY <3>1, <3>3, <3>4, <3>5 DEF ClosureInv
    <3>7. Scanned => t \notin Registered
      BY <2>4 DEF LoadChild, MayLoad, Quiet, Scanned
    <3> QED
      BY <3>2, <3>3, <3>4, <3>6, <3>7, ViewFacts DEF SlotInv, HeldValues, RootValues
  <2> QED
    BY <2>1, <2>2, <2>3, <2>4
<1>8. SlotInv'
  BY <1>1, <1>2, <1>3, <1>7 DEF SlotInv
<1> QED
  BY <1>2, <1>4, <1>5, <1>6, <1>8

\* nova_gc_mark_ptr called by the client: outside a cycle or before the sweep
\* has moved it greys an object that is live; once marking is over it finds
\* every pointer of the client marked and does nothing.
LEMMA ClientMarkKeeps ==
  ASSUME TypeOK, TypeOK', Quiet, HeapInv, NEW s \in Slots, ClientMark(s)
  PROVE  HeapInv'
<1> USE DEF HeapInv
<1>1. /\ pc = "client" /\ pc' = "client" /\ UNCHANGED <<listVars, cycleVars, call>>
      /\ UNCHANGED <<roots, slot, children>>
  BY DEF ClientMark, rootVars, clientVars
<1>2. /\ Live' = Live /\ Behind' = Behind /\ call.todo = {} /\ call' = call
      /\ Scanned' = Scanned /\ objects' = objects /\ collect_in_progress' = collect_in_progress
      /\ sweep_cursor' = sweep_cursor /\ ControlInv' /\ (collect_in_progress => Scanned)
      /\ (Settled <=> Scanned /\ mark_stack = <<>>) /\ (Settled' <=> Scanned /\ mark_stack' = <<>>)
  BY <1>1, ClientFrame
<1>3. /\ Registered' = Registered /\ RootValues' = RootValues /\ HeldValues' = HeldValues
  BY <1>1 DEF Registered, RootValues, HeldValues
<1>4. slot[s] \in Live \cup {Null} /\ slot[s] \in Pointers
  BY DEF SlotInv, TypeOK
<1>5. collect_in_progress => Behind = {} /\ sweep_cursor = 0
  BY ViewFacts DEF ClientMark, MayMarkPtr, Quiet
<1>6. CASE slot[s] \in Marked \cup {Null}
  <2>1. Marked' = Marked /\ Grey' = Grey /\ mark_stack' = mark_stack
    BY <1>4, <1>6, MarkPtrEffect DEF ClientMark, markVars, Marked, Grey
  <2>2. Kept' = Kept /\ (Settled' <=> Settled)
    BY <1>2, <2>1 DEF Kept
  <2>3. ListInv'
    BY <1>2, <2>1 DEF ListInv
  <2>4. MarkInv'
    BY <1>1, <1>2, <2>1, <2>2 DEF MarkInv
  <2>5. ClosureInv'
    BY <1>1, <1>2, <2>1, <2>2 DEF ClosureInv
  <2>6. SlotInv'
    BY <1>1, <1>2, <1>3, <2>1, <2>2 DEF SlotInv
  <2> QED
    BY <1>2, <2>3, <2>4, <2>5, <2>6
<1>7. CASE slot[s] \notin Marked \cup {Null}
  <2>1. Marked' = Marked \cup {slot[s]} /\ Grey' = Grey \cup {slot[s]} /\ mark_stack' # <<>>
    BY <1>4, <1>7, MarkPtrEffect DEF ClientMark
  <2>2. ~Settled /\ ~Settled'
    <3>1. ~Settled
      BY <1>5, <1>7 DEF SlotInv, HeldValues, Settled, Scanned, Kept
    <3> QED
      BY <1>2, <2>1, <3>1
  <2>3. ListInv'
    BY <1>2, <1>4, <1>7, <2>1 DEF ListInv
  <2>4. MarkInv'
    BY <1>1, <1>2, <1>5, <2>1, <2>2 DEF MarkInv
  <2>5. ClosureInv'
    BY <1>1, <1>2, <2>1, <2>2 DEF ClosureInv, Kept
  <2>6. SlotInv'
    BY <1>1, <1>2, <1>3, <2>1, <2>2 DEF SlotInv, Kept
  <2> QED
    BY <1>2, <2>3, <2>4, <2>5, <2>6
<1> QED
  BY <1>6, <1>7

\* Writes to payloads, which a quiet client makes between cycles.
LEMMA PayloadActionsKeep ==
  ASSUME TypeOK, TypeOK', Quiet, HeapInv, NEW s \in Slots,
         (\E t \in Slots : StoreChild(s, t)) \/ (\E p \in Objects : ClearChild(s, p))
  PROVE  HeapInv'
<1> USE DEF HeapInv
<1>1. /\ pc = "client" /\ pc' = "client" /\ UNCHANGED <<listVars, cycleVars, call>>
      /\ UNCHANGED <<markVars, roots, slot>> /\ ~collect_in_progress /\ slot[s] # Null
  BY DEF StoreChild, ClearChild, rootVars, MayMutate, Quiet
<1>2. /\ Live' = Live /\ Behind' = Behind /\ call' = call /\ objects' = objects
      /\ Scanned' = Scanned /\ collect_in_progress' = collect_in_progress
      /\ sweep_cursor' = sweep_cursor /\ ControlInv'
  BY <1>1, ClientFrame
<1>3. ~Scanned /\ ~Settled /\ ~Settled'
  BY <1>1, <1>2 DEF Scanned, Settled
<1>4. Marked' = Marked /\ Grey' = Grey
  BY <1>1 DEF markVars, Marked, Grey
<1>5. ListInv'
  BY <1>2, <1>4 DEF ListInv
<1>6. MarkInv'
  BY <1>1, <1>2, <1>3, <1>4 DEF MarkInv
<1>7. slot[s] \in Live /\ Live \subseteq Objects /\ \A o \in Live : children[o] \subseteq Live
  BY <1>1, <1>3, ViewFacts DEF SlotInv, ClosureInv
<1>8. \A o \in Live : children'[o] \subseteq Live
  <2>1. ASSUME NEW t \in Slots, StoreChild(s, t) PROVE \A o \in Live : children'[o] \subseteq Live
    <3>1. slot[t] \in Live /\ children' = [children EXCEPT ![slot[s]] = @ \cup {slot[t]}]
      BY <2>1 DEF StoreChild, SlotInv
    <3> QED
      BY <1>7, <3>1 DEF TypeOK
  <2>2. ASSUME NEW p \in Objects, ClearChild(s, p) PROVE \A o \in Live : children'[o] \subseteq Live
    <3>1. children' = [children EXCEPT ![slot[s]] = @ \ {p}]
      BY <2>2 DEF ClearChild
    <3> QED
      BY <1>7, <3>1 DEF TypeOK
  <2> QED
    BY <2>1, <2>2
<1>9. ClosureInv'
  BY <1>2, <1>3, <1>8 DEF ClosureInv
<1>10. SlotInv'
  BY <1>1, <1>2, <1>3 DEF SlotInv
<1> QED
  BY <1>2, <1>5, <1>6, <1>9, <1>10

\* A call of nova_gc_collect_step or nova_gc_collect starts.
LEMMA CallKeeps ==
  ASSUME TypeOK, TypeOK', HeapInv, Collect \/ \E b \in Budgets : CollectStep(b)
  PROVE  HeapInv'
<1> USE DEF HeapInv
<1>1. /\ pc = "client" /\ pc' = "enter"
      /\ UNCHANGED <<objects, marked, mark_stack, roots, slot, children,
                     collect_in_progress, roots_scanned, sweep_cursor>>
  BY DEF Collect, CollectStep, listVars, markVars, rootVars, cycleVars, clientVars
<1>2. call'.todo = {} /\ call'.node = Null /\ call'.by # "alloc" /\ call'.i = 1
  BY RequestFields DEF Collect, CollectStep
<1>3. /\ Live' = Live /\ Marked' = Marked /\ Grey' = Grey /\ Registered' = Registered
      /\ Behind' = Behind /\ Kept' = Kept
      /\ RootValues' = RootValues /\ HeldValues' = HeldValues
      /\ Scanned' = Scanned /\ (Settled' <=> Settled)
  BY <1>1 DEF Live, Marked, Grey, Registered, Behind, Kept, RootValues, HeldValues, Scanned, Settled
<1>4. ListInv'
  BY <1>1, <1>3 DEF ListInv
<1>5. ControlInv'
  BY <1>1, <1>2 DEF ControlInv
<1>6. MarkInv'
  BY <1>1, <1>3 DEF MarkInv
<1>7. ClosureInv'
  <2>1. call.todo = {}
    BY <1>1 DEF ControlInv
  <2> QED
    BY <1>1, <1>2, <1>3, <2>1 DEF ClosureInv
<1>8. SlotInv'
  BY <1>1, <1>3 DEF SlotInv
<1> QED
  BY <1>4, <1>5, <1>6, <1>7, <1>8

\* A heap that nova_gc_create has just returned.
LEMMA CreateKeeps ==
  ASSUME TypeOK, pc = "destroyed" /\ call = NoCall, slot = [s \in Slots |-> Null], Create
  PROVE  HeapInv'
<1>1. /\ objects' = <<>> /\ mark_stack' = <<>> /\ roots' = <<>> /\ sweep_cursor' = 0
      /\ marked' = [o \in Objects |-> FALSE] /\ ~collect_in_progress' /\ pc' = "client"
      /\ slot' = [s \in Slots |-> Null] /\ call' = NoCall
  BY DEF Create
<1>2. Live' = {} /\ Grey' = {} /\ Marked' = {} /\ Behind' = {} /\ Len(objects') = 0
  BY <1>1 DEF Live, Grey, Marked, Behind, ToSet
<1>3. ~Scanned' /\ ~Settled'
  BY <1>1 DEF Scanned, Settled
<1>4. ListInv' /\ MarkInv'
  BY <1>1, <1>2, <1>3 DEF ListInv, MarkInv
<1>5. ControlInv'
  BY <1>1, RequestFields DEF ControlInv
<1>6. ClosureInv' /\ SlotInv'
  BY <1>1, <1>2, <1>3 DEF ClosureInv, SlotInv
<1> QED
  BY <1>4, <1>5, <1>6 DEF HeapInv

\* Every step of a quiet client and of the collector preserves the invariant.
LEMMA QuietInvStep ==
  ASSUME TypeOK, TypeOK', Quiet, QuietInv, [Next]_vars
  PROVE  QuietInv'
<1>1. CASE UNCHANGED vars
  <2>1. UNCHANGED <<objects, marked, mark_stack, roots, slot, children, collect_in_progress,
                    roots_scanned, sweep_cursor, pc, call>>
    BY <1>1 DEF vars, listVars, markVars, rootVars, cycleVars, clientVars
  <2>2. /\ Live' = Live /\ Marked' = Marked /\ Grey' = Grey /\ Registered' = Registered
        /\ Behind' = Behind /\ Kept' = Kept
        /\ RootValues' = RootValues /\ HeldValues' = HeldValues
        /\ Scanned' = Scanned /\ (Settled' <=> Settled)
    BY <2>1 DEF Live, Marked, Grey, Registered, Behind, Kept, RootValues, HeldValues, Scanned, Settled
  <2>3. ListInv => ListInv'
    BY <2>1, <2>2 DEF ListInv
  <2>4. ControlInv => ControlInv'
    BY <2>1 DEF ControlInv
  <2>5. MarkInv => MarkInv'
    BY <2>1, <2>2 DEF MarkInv
  <2>6. ClosureInv => ClosureInv'
    BY <2>1, <2>2 DEF ClosureInv
  <2>7. SlotInv => SlotInv'
    BY <2>1, <2>2 DEF SlotInv
  <2> QED
    BY <2>1, <2>3, <2>4, <2>5, <2>6, <2>7 DEF QuietInv, HeapInv
<1>2. CASE Next /\ pc = "destroyed"
  <2>1. Create
    BY <1>2 DEF Next, Collector, Client, BeginStep, ScanRoots, TraceSome, TraceCallback,
       SweepSome, FinishStep, Alloc, AllocNull, AddRoot, RemoveRoot, ClientMark, Forget,
       StoreChild, LoadChild, ClearChild, CollectStep, Collect, Destroy
  <2>2. HeapInv'
    BY <1>2, <2>1, CreateKeeps DEF QuietInv
  <2> QED
    BY <2>1, <2>2 DEF Create, QuietInv
<1>3. CASE Collector /\ pc # "destroyed"
  <2>1. HeapInv'
    BY <1>3, BeginStepKeeps, ScanRootsKeeps, TraceSomeKeeps, TraceCallbackKeeps,
       SweepSomeKeeps, FinishStepKeeps DEF Collector, QuietInv
  <2>2. pc' # "destroyed"
    BY <1>3 DEF Collector, BeginStep, ScanRoots, TraceSome, TraceCallback, SweepSome, FinishStep
  <2> QED
    BY <2>1, <2>2 DEF QuietInv
<1>4. CASE Client /\ pc # "destroyed"
  <2> USE <1>4 DEF QuietInv
  <2>1. ASSUME NEW s \in Slots, NEW o \in Objects, NEW n \in Sizes, Alloc(s, o, n)
        PROVE  QuietInv'
    <3>1. HeapInv'
      BY <2>1, AllocKeeps
    <3> QED
      BY <2>1, <3>1 DEF Alloc
  <2>2. ASSUME NEW s \in Slots, AllocNull(s) \/ Forget(s) \/ AddRoot(s) \/ RemoveRoot(s)
        PROVE  QuietInv'
    <3>1. HeapInv'
      BY <2>2, SlotActionsKeep
    <3> QED
      BY <2>2, <3>1 DEF AllocNull, Forget, AddRoot, RemoveRoot
  <2>3. ASSUME NEW s \in Slots, NEW t \in Slots, LoadChild(s, t)
        PROVE  QuietInv'
    <3>1. HeapInv'
      BY <2>3, SlotActionsKeep
    <3> QED
      BY <2>3, <3>1 DEF LoadChild
  <2>4. ASSUME NEW s \in Slots, ClientMark(s)
        PROVE  QuietInv'
    <3>1. HeapInv'
      BY <2>4, ClientMarkKeeps
    <3> QED
      BY <2>4, <3>1 DEF ClientMark
  <2>5. ASSUME NEW s \in Slots,
               (\E t \in Slots : StoreChild(s, t)) \/ (\E p \in Objects : ClearChild(s, p))
        PROVE  QuietInv'
    <3>1. HeapInv'
      BY <2>5, PayloadActionsKeep
    <3> QED
      BY <2>5, <3>1 DEF StoreChild, ClearChild
  <2>6. CASE Collect \/ \E b \in Budgets : CollectStep(b)
    <3>1. HeapInv'
      BY <2>6, CallKeeps
    <3> QED
      BY <2>6, <3>1 DEF Collect, CollectStep
  <2>7. CASE Destroy
    <3>1. HeapInv
      OBVIOUS
    <3> QED
      BY <2>7, <3>1 DEF Destroy, HeapInv, ControlInv
  <2>8. ~Create
    BY DEF Create
  <2> QED
    BY <2>1, <2>2, <2>3, <2>4, <2>5, <2>6, <2>7, <2>8 DEF Client
<1> QED
  BY <1>1, <1>2, <1>3, <1>4 DEF Next

-----------------------------------------------------------------------------
\* What the invariant says of an existing heap: the objects that a collection
\* will keep, or the whole list before the marking is over, hold the client's
\* pointers and are closed under children.
LEMMA InvImpliesReachable ==
  ASSUME TypeOK, QuietInv
  PROVE  ReachableStaysLive
<1>1. CASE pc = "destroyed"
  <2>1. HeldValues \cap Objects \subseteq {}
    BY <1>1, ObjectsAssumption DEF QuietInv, HeldValues
  <2>2. ReachableFrom(HeldValues) \subseteq {}
    BY <2>1 DEF ReachableFrom
  <2> QED
    BY <2>2 DEF ReachableStaysLive
<1>2. CASE pc # "destroyed"
  <2> DEFINE K == IF Settled THEN Kept ELSE Live
  <2>1. Kept \subseteq Live /\ Live \in SUBSET Objects
    BY <1>2, ViewFacts DEF QuietInv, HeapInv, ListInv, Kept
  <2>2. HeldValues \cap Objects \subseteq K
    <3>1. HeldValues \subseteq Live \cup {Null}
      BY <1>2 DEF QuietInv, HeapInv, SlotInv, HeldValues
    <3>2. Settled => HeldValues \subseteq Kept \cup {Null}
      BY <1>2 DEF QuietInv, HeapInv, SlotInv
    <3> QED
      BY <3>1, <3>2, ObjectsAssumption
  <2>3. \A p \in K : children[p] \subseteq K
    <3>1. CASE Settled
      <4>1. Scanned /\ Grey = {} /\ call.todo = {}
        BY <1>2, <3>1, ViewFacts DEF QuietInv, HeapInv, ControlInv, Settled
      <4> QED
        BY <1>2, <3>1, <4>1 DEF QuietInv, HeapInv, ClosureInv
    <3>2. CASE ~Settled
      BY <1>2, <3>2 DEF QuietInv, HeapInv, ClosureInv
    <3> QED
      BY <3>1, <3>2
  <2>4. K \in SUBSET Objects /\ K \subseteq Live
    BY <2>1
  <2> HIDE DEF K
  <2>5. ReachableFrom(HeldValues) \subseteq K
    BY <2>2, <2>3, <2>4 DEF ReachableFrom
  <2> QED
    BY <2>4, <2>5 DEF ReachableStaysLive
<1> QED
  BY <1>1, <1>2

\* The invariant holds of a program that has not created a heap yet.
LEMMA InitQuiet ==
  Init => QuietInv
  BY DEF Init, QuietInv

\* The inductive invariant of a quiet client and an allocator that always
\* grants the mark stack.
THEOREM QuietInvariant ==
  ASSUME Quiet
  PROVE  Spec => []QuietInv
<1>1. QuietInv /\ TypeOK /\ TypeOK' /\ [Next]_vars => QuietInv'
  BY QuietInvStep
<1> QED
  BY InitQuiet, TypeCorrect, <1>1, PTL DEF Spec

\* A quiet client never holds, and never reaches, an object that the sweep has
\* freed: for any number of objects, slots and roots, any budgets, any growth
\* of the tables and any refusal of memory but that of the mark stack.
THEOREM Safety ==
  ASSUME Quiet
  PROVE  Spec => []ReachableStaysLive
<1>1. TypeOK /\ QuietInv => ReachableStaysLive
  BY InvImpliesReachable
<1> QED
  BY QuietInvariant, TypeCorrect, <1>1, PTL

\* Between cycles the only marked objects wait on the mark stack, so the next
\* cycle starts from a clean heap whatever it was interrupted by.
THEOREM CleanMarks ==
  ASSUME Quiet
  PROVE  Spec => []NoStaleMarks
<1>1. QuietInv => NoStaleMarks
  BY DEF QuietInv, HeapInv, MarkInv, NoStaleMarks, Scanned
<1> QED
  BY QuietInvariant, <1>1, PTL

=============================================================================
