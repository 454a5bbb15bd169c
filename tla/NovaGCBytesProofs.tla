------------------------- MODULE NovaGCBytesProofs -------------------------
(***************************************************************************)
(* The collector's accounts: bytes_allocated for every client, bytes_live  *)
(* for a quiet one.  SizeOf adds up payloads with a fold of the community  *)
(* modules, a recursive function; the first part proves of it what a sum   *)
(* is, by well-founded induction on finite sets: the set of the            *)
(* counterexamples, were it not empty, would have a smallest member.       *)
(***************************************************************************)
EXTENDS NovaGCHeapProofs, FiniteSetTheorems, WellFoundedInduction

\* The fold of SizeOf, written out for any weights w.
Pick(S) == CHOOSE x \in S : TRUE
Unfolded(w, T, f) ==
  [S \in SUBSET T |-> IF S = {} THEN 0 ELSE w[Pick(S)] + f[S \ {Pick(S)}]]
Sums(w, T)  == CHOOSE f : f = Unfolded(w, T, f)
Total(w, T) == Sums(w, T)[T]

LEMMA SizeIsTotal == \A S : SizeOf(S) = Total(payload_size, S)
  BY DEF SizeOf, MapThenSumSet, MapThenFoldSet, Total, Unfolded, Pick, Sums

\* Any set of subsets of a finite set has a smallest member.
LEMMA SmallestSubset ==
  ASSUME NEW T, IsFiniteSet(T), NEW F \in SUBSET (SUBSET T), F # {}
  PROVE  \E U \in F : \A V \in F : V \subseteq U => V = U
<1>1. IsWellFoundedOn(StrictSubsetOrdering(T), SUBSET T)
  BY FS_StrictSubsetOrderingWellFounded, FS_FiniteSubsetsOfFinite
<1>2. PICK U \in F : \A V \in F : ~(<<V, U>> \in StrictSubsetOrdering(T))
  BY <1>1, WFMin
<1> QED
  BY <1>2 DEF StrictSubsetOrdering

LEMMA PickIn == \A S : S # {} => Pick(S) \in S
  BY DEF Pick

\* The sums over the subsets of T and those over a part of T are the same.
LEMMA SumsAgree ==
  ASSUME NEW w, NEW T, IsFiniteSet(T), NEW A \in SUBSET T,
         NEW f, f = Unfolded(w, T, f), NEW g, g = Unfolded(w, A, g)
  PROVE  \A U \in SUBSET A : f[U] = g[U]
<1> DEFINE F == {U \in SUBSET A : f[U] # g[U]}
<1> SUFFICES ASSUME F # {} PROVE FALSE
  OBVIOUS
<1>0. F \in SUBSET (SUBSET A) /\ IsFiniteSet(A)
  BY FS_Subset
<1>E. \E U \in F : \A V \in F : V \subseteq U => V = U
  <2> HIDE DEF F
  <2> QED
    BY <1>0, SmallestSubset
<1>1. PICK U \in F : \A V \in F : V \subseteq U => V = U
  BY <1>E
<1>2. /\ f[U] = IF U = {} THEN 0 ELSE w[Pick(U)] + f[U \ {Pick(U)}]
      /\ g[U] = IF U = {} THEN 0 ELSE w[Pick(U)] + g[U \ {Pick(U)}]
  <2>1. U \in SUBSET T /\ U \in SUBSET A
    OBVIOUS
  <2> QED
    BY <2>1 DEF Unfolded
<1>3. U # {} /\ Pick(U) \in U
  BY <1>1, <1>2, PickIn
<1>4. U \ {Pick(U)} \notin F
  BY <1>1, <1>3
<1>5. f[U \ {Pick(U)}] = g[U \ {Pick(U)}]
  BY <1>4
<1> QED
  BY <1>1, <1>2, <1>5

\* The recursion has a solution, which is what CHOOSE chooses.
LEMMA SumsExist ==
  ASSUME NEW w, NEW T, IsFiniteSet(T)
  PROVE  Sums(w, T) = Unfolded(w, T, Sums(w, T))
<1> DEFINE Good(U) == Sums(w, U) = Unfolded(w, U, Sums(w, U))
           F == {U \in SUBSET T : ~Good(U)}
<1> SUFFICES ASSUME F # {} PROVE FALSE
  OBVIOUS
<1>0. F \in SUBSET (SUBSET T)
  OBVIOUS
<1>E. \E U \in F : \A V \in F : V \subseteq U => V = U
  <2> HIDE DEF F
  <2> QED
    BY <1>0, SmallestSubset
<1>1. PICK U \in F : \A V \in F : V \subseteq U => V = U
  BY <1>E
<1>2. ASSUME NEW V \in SUBSET U, V # U PROVE Good(V) /\ IsFiniteSet(V)
  BY <1>1, <1>2, FS_Subset
<1> HIDE DEF Good
<1> DEFINE f == [V \in SUBSET U |-> IF V = {} THEN 0
                                   ELSE w[Pick(V)] + Total(w, V \ {Pick(V)})]
<1>3. ASSUME NEW W \in SUBSET U, W # U PROVE f[W] = Total(w, W)
  <2>1. Sums(w, W) = Unfolded(w, W, Sums(w, W)) /\ IsFiniteSet(W)
    BY <1>2, <1>3 DEF Good
  <2>2. Total(w, W) = IF W = {} THEN 0 ELSE w[Pick(W)] + Sums(w, W)[W \ {Pick(W)}]
    <3> DEFINE s == Sums(w, W)
    <3>1. s[W] = Unfolded(w, W, s)[W]
      BY <2>1
    <3> QED
      BY <3>1 DEF Unfolded, Total
  <2>3. CASE W = {}
    BY <2>2, <2>3
  <2>4. CASE W # {}
    <3> DEFINE X == W \ {Pick(W)}
    <3>1. X \in SUBSET W /\ X \in SUBSET U /\ X # U
      BY <1>3, <2>4, PickIn
    <3>2. Sums(w, X) = Unfolded(w, X, Sums(w, X))
      BY <1>2, <3>1 DEF Good
    <3> HIDE DEF X
    <3>3. Sums(w, W)[X] = Sums(w, X)[X]
      BY <2>1, <3>1, <3>2, SumsAgree
    <3> QED
      BY <2>2, <2>4, <3>3 DEF Total, X
  <2> QED
    BY <2>3, <2>4
<1>4. f = Unfolded(w, U, f)
  <2>1. ASSUME NEW V \in SUBSET U, V # {}
        PROVE  f[V \ {Pick(V)}] = Total(w, V \ {Pick(V)})
    BY <1>3, <2>1, PickIn
  <2> QED
    BY <2>1 DEF Unfolded
<1> HIDE DEF f
<1>5. Good(U)
  BY <1>4 DEF Good, Sums
<1> QED
  BY <1>1, <1>5

\* The total without the member that the fold picks first.
LEMMA TotalUnfolds ==
  ASSUME NEW w, NEW T, IsFiniteSet(T)
  PROVE  Total(w, T) = IF T = {} THEN 0 ELSE w[Pick(T)] + Total(w, T \ {Pick(T)})
<1> DEFINE s == Sums(w, T)
           X == T \ {Pick(T)}
<1>1. s = Unfolded(w, T, s)
  BY SumsExist
<1>2. X \in SUBSET T /\ IsFiniteSet(X)
  BY FS_Subset
<1>3. Sums(w, X) = Unfolded(w, X, Sums(w, X))
  BY <1>2, SumsExist
<1> HIDE DEF s, X
<1>4. s[T] = IF T = {} THEN 0 ELSE w[Pick(T)] + s[T \ {Pick(T)}]
  <2>1. s[T] = Unfolded(w, T, s)[T]
    BY <1>1
  <2> QED
    BY <2>1 DEF Unfolded
<1>5. s[X] = Sums(w, X)[X]
  BY <1>1, <1>2, <1>3, SumsAgree
<1> QED
  BY <1>4, <1>5 DEF Total, s, X

LEMMA TotalType ==
  ASSUME NEW O, NEW w \in [O -> Nat], NEW T \in SUBSET O, IsFiniteSet(T)
  PROVE  Total(w, T) \in Nat
<1> DEFINE F == {U \in SUBSET T : Total(w, U) \notin Nat}
<1> SUFFICES ASSUME F # {} PROVE FALSE
  OBVIOUS
<1>0. F \in SUBSET (SUBSET T)
  OBVIOUS
<1>E. \E U \in F : \A V \in F : V \subseteq U => V = U
  <2> HIDE DEF F
  <2> QED
    BY <1>0, SmallestSubset
<1>1. PICK U \in F : \A V \in F : V \subseteq U => V = U
  BY <1>E
<1>2. IsFiniteSet(U)
  BY FS_Subset
<1>3. Total(w, U) = IF U = {} THEN 0 ELSE w[Pick(U)] + Total(w, U \ {Pick(U)})
  BY <1>2, TotalUnfolds
<1>4. U # {} /\ Pick(U) \in U
  BY <1>3, PickIn
<1>5. Total(w, U \ {Pick(U)}) \in Nat /\ w[Pick(U)] \in Nat
  BY <1>1, <1>4
<1> QED
  BY <1>3, <1>4, <1>5

\* A total is the same whichever member is counted first.
LEMMA TotalWithout ==
  ASSUME NEW O, NEW w \in [O -> Nat], NEW T \in SUBSET O, IsFiniteSet(T), NEW x \in T
  PROVE  Total(w, T) = w[x] + Total(w, T \ {x})
<1> DEFINE F == {U \in SUBSET T : \E y \in U : Total(w, U) # w[y] + Total(w, U \ {y})}
<1> SUFFICES ASSUME F # {} PROVE FALSE
  OBVIOUS
<1>0. F \in SUBSET (SUBSET T)
  OBVIOUS
<1>E. \E U \in F : \A V \in F : V \subseteq U => V = U
  <2> HIDE DEF F
  <2> QED
    BY <1>0, SmallestSubset
<1>1. PICK U \in F : \A V \in F : V \subseteq U => V = U
  BY <1>E
<1>2. PICK y \in U : Total(w, U) # w[y] + Total(w, U \ {y})
  OBVIOUS
<1>3. \A V \in SUBSET U : IsFiniteSet(V)
  BY FS_Subset
<1> DEFINE p == Pick(U)
<1>4. p \in U
  BY <1>2, PickIn
<1>5. Total(w, U) = w[p] + Total(w, U \ {p})
  BY <1>3, <1>4, TotalUnfolds
<1> HIDE DEF p
<1>6. y # p
  BY <1>2, <1>5
<1>7. ASSUME NEW V \in SUBSET U, V # U, NEW z \in V
      PROVE  Total(w, V) = w[z] + Total(w, V \ {z})
  <2>1. V \notin F
    BY <1>1, <1>7
  <2> QED
    BY <2>1
<1>8. /\ Total(w, U \ {p}) = w[y] + Total(w, (U \ {p}) \ {y})
      /\ Total(w, U \ {y}) = w[p] + Total(w, (U \ {y}) \ {p})
  BY <1>2, <1>4, <1>6, <1>7
<1>9. (U \ {p}) \ {y} = (U \ {y}) \ {p}
  OBVIOUS
<1> DEFINE rest == Total(w, (U \ {y}) \ {p})
<1>10. rest \in Nat /\ w[y] \in Nat /\ w[p] \in Nat
  BY <1>3, <1>4, TotalType
<1> HIDE DEF rest
<1>11. /\ Total(w, U) = w[p] + (w[y] + rest)
       /\ w[y] + Total(w, U \ {y}) = w[y] + (w[p] + rest)
  BY <1>5, <1>8, <1>9 DEF rest
<1> QED
  BY <1>2, <1>10, <1>11

\* Weights that agree on a set have the same total over it.
LEMMA TotalAgrees ==
  ASSUME NEW w, NEW v, NEW T, IsFiniteSet(T), \A x \in T : w[x] = v[x]
  PROVE  Total(w, T) = Total(v, T)
<1> DEFINE F == {U \in SUBSET T : Total(w, U) # Total(v, U)}
<1> SUFFICES ASSUME F # {} PROVE FALSE
  OBVIOUS
<1>0. F \in SUBSET (SUBSET T)
  OBVIOUS
<1>E. \E U \in F : \A V \in F : V \subseteq U => V = U
  <2> HIDE DEF F
  <2> QED
    BY <1>0, SmallestSubset
<1>1. PICK U \in F : \A V \in F : V \subseteq U => V = U
  BY <1>E
<1>2. IsFiniteSet(U)
  BY FS_Subset
<1>3. /\ Total(w, U) = IF U = {} THEN 0 ELSE w[Pick(U)] + Total(w, U \ {Pick(U)})
      /\ Total(v, U) = IF U = {} THEN 0 ELSE v[Pick(U)] + Total(v, U \ {Pick(U)})
  BY <1>2, TotalUnfolds
<1>4. U # {} /\ Pick(U) \in U
  BY <1>3, PickIn
<1>5. Total(w, U \ {Pick(U)}) = Total(v, U \ {Pick(U)}) /\ w[Pick(U)] = v[Pick(U)]
  BY <1>1, <1>4
<1> QED
  BY <1>3, <1>5

-----------------------------------------------------------------------------
(* bytes_allocated                                                         *)

\* Nothing is on the list twice, and the account is that of the list.
AccountInv ==
  pc # "destroyed" =>
    /\ \A i, j \in 1..Len(objects) : objects[i] = objects[j] => i = j
    /\ sweep_cursor <= Len(objects)
    /\ bytes_allocated = Total(payload_size, Live)

LEMMA LiveIsFinite == TypeOK => IsFiniteSet(Live) /\ Live \subseteq Objects
<1> SUFFICES ASSUME TypeOK PROVE IsFiniteSet(Live) /\ Live \subseteq Objects
  OBVIOUS
<1>1. Live = {objects[i] : i \in 1..Len(objects)} /\ Len(objects) \in Nat /\ Live \subseteq Objects
  BY ViewFacts
<1>2. objects \in Seq(Live)
  <2>1. objects \in [1..Len(objects) -> Live]
    BY <1>1, LenProperties DEF TypeOK
  <2> QED
    BY <1>1, <2>1, SeqDef
<1>3. \A o \in Live : \E i \in 1..Len(objects) : objects[i] = o
  BY <1>1
<1> QED
  BY <1>1, <1>2, <1>3 DEF IsFiniteSet

\* Steps that leave the list and the payloads alone.
LEMMA AccountUntouched ==
  ASSUME AccountInv, UNCHANGED listVars, pc # "destroyed",
         sweep_cursor' \in {0, sweep_cursor}, TypeOK
  PROVE  AccountInv'
<1>1. UNCHANGED <<objects, payload_size, bytes_allocated>> /\ Live' = Live
  BY DEF listVars, Live
<1>2. sweep_cursor' <= Len(objects)
  BY ViewFacts DEF AccountInv
<1> QED
  BY <1>1, <1>2 DEF AccountInv

\* nova_gc_alloc adds the new payload to the account.
LEMMA AllocAccounts ==
  ASSUME TypeOK, AccountInv, NEW s \in Slots, NEW o \in Objects, NEW n \in Sizes, Alloc(s, o, n)
  PROVE  AccountInv'
<1>1. /\ pc = "client" /\ o \notin Live /\ objects' = Cons(o, objects)
      /\ payload_size' = [payload_size EXCEPT ![o] = n]
      /\ bytes_allocated' = bytes_allocated + n
      /\ sweep_cursor' = IF sweep_cursor = 0 THEN 0 ELSE sweep_cursor + 1
  BY DEF Alloc
<1>2. /\ objects \in Seq(Objects) /\ payload_size \in [Objects -> Nat] /\ sweep_cursor \in Nat
      /\ n \in Nat
  BY SizesAssumption DEF TypeOK
<1>3. /\ objects' \in Seq(Objects) /\ Len(objects') = Len(objects) + 1 /\ objects'[1] = o
      /\ \A j \in 1..Len(objects) : objects'[j+1] = objects[j]
      /\ Len(objects) \in Nat
  <2>1. Len(objects) \in Nat
    BY ViewFacts
  <2> QED
    BY <1>1, <1>2, <2>1, ConsObject
<1>4. Live' = Live \cup {o} /\ Live = {objects[i] : i \in 1..Len(objects)}
  BY <1>1, <1>2, ConsElements, ViewFacts DEF Live
<1>5. \A i, j \in 1..Len(objects') : objects'[i] = objects'[j] => i = j
  <2>1. ASSUME NEW i \in 1..Len(objects'), i # 1
        PROVE  i-1 \in 1..Len(objects) /\ objects'[i] = objects[i-1] /\ objects'[i] # o
    <3>1. i-1 \in 1..Len(objects) /\ (i-1)+1 = i
      BY <1>3, <2>1
    <3>2. objects'[i] = objects[i-1]
      BY <1>3, <3>1
    <3> QED
      BY <1>1, <1>4, <3>1, <3>2
  <2>2. \A i, j \in 1..Len(objects) : objects[i] = objects[j] => i = j
    BY <1>1 DEF AccountInv
  <2>3. ASSUME NEW i \in 1..Len(objects'), NEW j \in 1..Len(objects'),
               objects'[i] = objects'[j], i # j
        PROVE  FALSE
    <3>1. i # 1 /\ j # 1
      BY <1>3, <2>1, <2>3
    <3>2. i-1 = j-1
      BY <2>1, <2>2, <2>3, <3>1
    <3> QED
      BY <2>3, <3>2
  <2> QED
    BY <2>3
<1>6. sweep_cursor' <= Len(objects')
  BY <1>1, <1>2, <1>3 DEF AccountInv
<1>7. bytes_allocated' = Total(payload_size', Live')
  <2>1. IsFiniteSet(Live') /\ Live' \in SUBSET Objects /\ o \in Live' /\ Live' \ {o} = Live
        /\ IsFiniteSet(Live)
    BY <1>1, <1>4, LiveIsFinite, FS_AddElement
  <2>2. payload_size' \in [Objects -> Nat] /\ payload_size'[o] = n
    BY <1>1, <1>2
  <2>3. Total(payload_size', Live') = payload_size'[o] + Total(payload_size', Live)
    BY <2>1, <2>2, TotalWithout
  <2>4. Total(payload_size', Live) = Total(payload_size, Live)
    BY <1>1, <1>2, <2>1, LiveIsFinite, TotalAgrees
  <2>5. Total(payload_size, Live) \in Nat
    BY <1>2, LiveIsFinite, TotalType
  <2> QED
    BY <1>1, <1>2, <2>2, <2>3, <2>4, <2>5 DEF AccountInv
<1> QED
  BY <1>5, <1>6, <1>7 DEF AccountInv

\* What freeing the object after the cursor does to the list.
LEMMA FreedFacts ==
  ASSUME TypeOK, AccountInv, pc = "sweep", sweep_cursor < Len(objects), SweepFree
  PROVE  LET o == objects[sweep_cursor + 1]
         IN  /\ o \in Live /\ o \notin Behind /\ Live' = Live \ {o} /\ Behind' = Behind
             /\ objects' \in Seq(Objects)
             /\ \A i, j \in 1..Len(objects') : objects'[i] = objects'[j] => i = j
             /\ sweep_cursor' <= Len(objects')
<1> DEFINE k == sweep_cursor + 1
           o == objects[k]
<1>1. /\ objects' = RemoveAt(objects, k) /\ UNCHANGED sweep_cursor
      /\ objects \in Seq(Objects) /\ sweep_cursor \in Nat /\ Len(objects) \in Nat
      /\ k \in 1..Len(objects)
      /\ \A i, j \in 1..Len(objects) : objects[i] = objects[j] => i = j
  BY ViewFacts DEF SweepFree, TypeOK, AccountInv
<1>2. o \in Live
  BY <1>1, ViewFacts
<1>3. o \notin Behind
  BY <1>1 DEF Behind
<1>4. /\ objects' \in Seq(Objects) /\ Len(objects') = Len(objects) - 1
      /\ \A j \in 1..Len(objects)-1 : objects'[j] = IF j < k THEN objects[j] ELSE objects[j+1]
      /\ ToSet(objects') = ToSet(objects) \ {objects[k]}
      /\ \A i, j \in 1..Len(objects') : objects'[i] = objects'[j] => i = j
  <2> HIDE DEF k
  <2>1. /\ RemoveAt(objects, k) \in Seq(Objects) /\ Len(RemoveAt(objects, k)) = Len(objects) - 1
        /\ \A j \in 1..Len(objects)-1 :
             RemoveAt(objects, k)[j] = IF j < k THEN objects[j] ELSE objects[j+1]
    BY <1>1, RemoveAtFacts
  <2>2. /\ ToSet(RemoveAt(objects, k)) = ToSet(objects) \ {objects[k]}
        /\ \A i, j \in 1..Len(RemoveAt(objects, k)) :
             RemoveAt(objects, k)[i] = RemoveAt(objects, k)[j] => i = j
    BY <1>1, RemoveAtElements
  <2> QED
    BY <1>1, <2>1, <2>2
<1>5. Behind' = Behind
  <2>1. \A j \in 1..sweep_cursor : objects'[j] = objects[j]
    BY <1>1, <1>4
  <2> QED
    BY <1>1, <2>1 DEF Behind
<1>6. sweep_cursor' <= Len(objects')
  BY <1>1, <1>4
<1> QED
  BY <1>2, <1>3, <1>4, <1>5, <1>6 DEF Live

\* sweep_some takes what it frees off the account.
LEMMA SweepAccounts ==
  ASSUME TypeOK, TypeOK', AccountInv, SweepSome
  PROVE  AccountInv'
<1>1. pc = "sweep" /\ sweep_cursor \in Nat /\ Len(objects) \in Nat
  BY ViewFacts DEF SweepSome, TypeOK
<1>2. CASE UNCHANGED listVars /\ UNCHANGED sweep_cursor
  BY <1>1, <1>2, AccountUntouched
<1>3. CASE sweep_cursor < Len(objects) /\ SweepKeep
  <2>1. UNCHANGED <<objects, payload_size, bytes_allocated>> /\ Live' = Live
        /\ sweep_cursor' = sweep_cursor + 1
    BY <1>3 DEF SweepKeep, listVars, Live
  <2>2. sweep_cursor' <= Len(objects')
    BY <1>1, <1>3, <2>1
  <2> QED
    BY <1>1, <2>1, <2>2 DEF AccountInv
<1>4. CASE sweep_cursor < Len(objects) /\ SweepFree
  <2> DEFINE o == objects[sweep_cursor + 1]
  <2>1. /\ o \in Live /\ Live' = Live \ {o} /\ sweep_cursor' <= Len(objects')
        /\ \A i, j \in 1..Len(objects') : objects'[i] = objects'[j] => i = j
    BY <1>1, <1>4, FreedFacts
  <2>2. /\ bytes_allocated' = bytes_allocated - payload_size[o]
        /\ payload_size' = [payload_size EXCEPT ![o] = 0]
    BY <1>4 DEF SweepFree
  <2>3. payload_size \in [Objects -> Nat]
    BY DEF TypeOK
  <2> HIDE DEF o
  <2>4. IsFiniteSet(Live) /\ Live \in SUBSET Objects /\ IsFiniteSet(Live')
    BY <2>1, LiveIsFinite, FS_Subset
  <2>5. Total(payload_size, Live) = payload_size[o] + Total(payload_size, Live')
    BY <2>1, <2>3, <2>4, TotalWithout
  <2>6. Total(payload_size', Live') = Total(payload_size, Live')
    BY <2>1, <2>2, <2>3, <2>4, TotalAgrees
  <2>7. Total(payload_size, Live') \in Nat /\ payload_size[o] \in Nat
    BY <2>1, <2>3, <2>4, TotalType
  <2>8. bytes_allocated' = Total(payload_size', Live')
    BY <1>1, <2>2, <2>5, <2>6, <2>7 DEF AccountInv
  <2> QED
    BY <2>1, <2>8 DEF AccountInv
<1> QED
  BY <1>2, <1>3, <1>4 DEF SweepSome

LEMMA EmptyTotal == \A w : Total(w, {}) = 0
  BY TotalUnfolds, FS_EmptySet

LEMMA AccountStep ==
  ASSUME TypeOK, TypeOK', AccountInv, [Next]_vars
  PROVE  AccountInv'
<1>1. CASE BeginStep \/ ScanRoots \/ TraceSome \/ TraceCallback \/ FinishStep
  BY <1>1, AccountUntouched
     DEF BeginStep, BeginCollection, ScanRoots, TraceSome, TraceCallback, FinishStep, cycleVars
<1>2. CASE SweepSome
  BY <1>2, SweepAccounts
<1>3. ASSUME NEW s \in Slots, NEW o \in Objects, NEW n \in Sizes, Alloc(s, o, n)
      PROVE  AccountInv'
  BY <1>3, AllocAccounts
<1>4. ASSUME NEW s \in Slots,
             \/ AllocNull(s) \/ AddRoot(s) \/ RemoveRoot(s) \/ ClientMark(s) \/ Forget(s)
             \/ \E t \in Slots : StoreChild(s, t) \/ LoadChild(s, t)
             \/ \E p \in Objects : ClearChild(s, p)
      PROVE  AccountInv'
  BY <1>4, AccountUntouched
     DEF AllocNull, AddRoot, RemoveRoot, ClientMark, Forget, StoreChild, LoadChild, ClearChild,
         cycleVars
<1>5. CASE Collect \/ \E b \in Budgets : CollectStep(b)
  BY <1>5, AccountUntouched DEF Collect, CollectStep, cycleVars
<1>6. CASE Destroy
  BY <1>6 DEF Destroy, AccountInv
<1>7. CASE Create
  <2>1. objects' = <<>> /\ sweep_cursor' = 0 /\ bytes_allocated' = 0
    BY <1>7 DEF Create
  <2>2. Live' = {} /\ Len(objects') = 0
    BY <2>1, EmptyElements DEF Live
  <2> QED
    BY <2>1, <2>2, EmptyTotal DEF AccountInv
<1>8. CASE UNCHANGED vars
  BY <1>8 DEF vars, listVars, cycleVars, AccountInv, Live
<1> QED
  BY <1>1, <1>2, <1>3, <1>4, <1>5, <1>6, <1>7, <1>8 DEF Next, Collector, Client

\* For any client, whatever it allocates and however cycles are cut into
\* steps, bytes_allocated is the total payload of the list: no object is
\* counted twice, taken off twice or lost.
THEOREM AllocatedBytes == Spec => []AllocatedExact
<1>1. Init => AccountInv
  BY DEF Init, AccountInv
<1>2. TypeOK /\ TypeOK' /\ AccountInv /\ [Next]_vars => AccountInv'
  BY AccountStep
<1>3. AccountInv => AllocatedExact
  BY SizeIsTotal DEF AccountInv, AllocatedExact
<1> QED
  BY <1>1, <1>2, <1>3, TypeCorrect, PTL DEF Spec

-----------------------------------------------------------------------------
(* bytes_live                                                              *)

\* bytes_live starts from zero when the roots are scanned, and then follows
\* the sweep.
SurvivorInv ==
  pc # "destroyed" =>
    /\ pc = "scan" => bytes_live = 0
    /\ Scanned => bytes_live = Total(payload_size, Behind)

LEMMA SurvivorsUntouched ==
  ASSUME SurvivorInv, UNCHANGED <<objects, payload_size, sweep_cursor, bytes_live>>,
         Scanned' => Scanned, pc # "destroyed", pc' = "scan" => pc = "scan"
  PROVE  SurvivorInv'
<1>1. Behind' = Behind
  BY DEF Behind
<1> QED
  BY <1>1 DEF SurvivorInv

\* The roots are scanned before the sweep moves.
LEMMA ScanSurvivors ==
  ASSUME TypeOK, QuietInv, SurvivorInv, ScanRoots
  PROVE  SurvivorInv'
<1>1. /\ pc = "scan" /\ UNCHANGED <<objects, payload_size, sweep_cursor, bytes_live>>
      /\ collect_in_progress' = collect_in_progress
  BY DEF ScanRoots, listVars, sizeVars
<1>2. bytes_live = 0 /\ collect_in_progress /\ ~Scanned /\ sweep_cursor = 0
  BY <1>1 DEF SurvivorInv, QuietInv, HeapInv, ControlInv, MarkInv, Scanned, Settled
<1>3. Behind' = {}
  BY <1>1, <1>2 DEF Behind
<1> QED
  BY <1>1, <1>2, <1>3, EmptyTotal DEF SurvivorInv

\* sweep_some counts each object it keeps, and what it frees was not counted.
LEMMA SweepSurvivors ==
  ASSUME TypeOK, AccountInv, QuietInv, SurvivorInv, SweepSome
  PROVE  SurvivorInv'
<1>1. /\ pc = "sweep" /\ Scanned /\ pc' # "scan" /\ bytes_live = Total(payload_size, Behind)
      /\ sweep_cursor \in Nat /\ Len(objects) \in Nat /\ payload_size \in [Objects -> Nat]
  BY ViewFacts DEF SweepSome, TypeOK, SurvivorInv, QuietInv, HeapInv, ControlInv, Scanned
<1>2. IsFiniteSet(Live) /\ Live \in SUBSET Objects /\ Behind \subseteq Live /\ IsFiniteSet(Behind)
  BY <1>1, LiveIsFinite, FS_Subset, ViewFacts DEF AccountInv
<1>3. CASE UNCHANGED <<objects, payload_size, sweep_cursor, bytes_live>>
  BY <1>1, <1>3, SurvivorsUntouched
<1>4. CASE sweep_cursor < Len(objects) /\ SweepKeep
  <2> DEFINE o == objects[sweep_cursor + 1]
  <2>1. /\ objects' = objects /\ payload_size' = payload_size
        /\ sweep_cursor' = sweep_cursor + 1 /\ bytes_live' = bytes_live + payload_size[o]
    BY <1>4 DEF SweepKeep, listVars
  <2>2. sweep_cursor + 1 \in 1..Len(objects)
    BY <1>1, <1>4
  <2>3. o \in Live
    BY <2>2, ViewFacts
  <2>4. o \notin Behind
    BY <1>1, <2>2 DEF Behind, AccountInv
  <2>5. Behind' = Behind \cup {o}
    <3>1. Behind' = {objects[i] : i \in 1..(sweep_cursor + 1)}
      BY <2>1 DEF Behind
    <3>2. 1..(sweep_cursor + 1) = (1..sweep_cursor) \cup {sweep_cursor + 1}
      BY <1>1
    <3> QED
      BY <3>1, <3>2 DEF Behind
  <2> HIDE DEF o
  <2>6. /\ IsFiniteSet(Behind') /\ Behind' \in SUBSET Objects /\ o \in Behind'
        /\ Behind' \ {o} = Behind
    BY <1>2, <2>3, <2>4, <2>5, FS_AddElement
  <2>7. Total(payload_size, Behind') = payload_size[o] + Total(payload_size, Behind)
    BY <1>1, <2>6, TotalWithout
  <2>8. Total(payload_size, Behind) \in Nat /\ payload_size[o] \in Nat
    BY <1>1, <1>2, <2>3, TotalType
  <2> QED
    BY <1>1, <2>1, <2>7, <2>8 DEF SurvivorInv
<1>5. CASE sweep_cursor < Len(objects) /\ SweepFree
  <2> DEFINE o == objects[sweep_cursor + 1]
  <2>1. o \notin Behind /\ Behind' = Behind
    BY <1>1, <1>5, FreedFacts
  <2>2. payload_size' = [payload_size EXCEPT ![o] = 0] /\ bytes_live' = bytes_live
    BY <1>5 DEF SweepFree
  <2> HIDE DEF o
  <2>3. \A x \in Behind : payload_size[x] = payload_size'[x]
    BY <1>1, <1>2, <2>1, <2>2
  <2>4. Total(payload_size, Behind) = Total(payload_size', Behind)
    BY <1>2, <2>3, TotalAgrees
  <2> QED
    BY <1>1, <2>1, <2>2, <2>4 DEF SurvivorInv
<1> QED
  BY <1>3, <1>4, <1>5 DEF SweepSome, listVars

LEMMA SurvivorStep ==
  ASSUME Quiet, TypeOK, AccountInv, QuietInv, SurvivorInv, [Next]_vars
  PROVE  SurvivorInv'
<1>1. CASE BeginStep
  <2>1. pc = "enter" /\ UNCHANGED <<objects, payload_size>>
    BY <1>1 DEF BeginStep, listVars
  <2>2. CASE ~roots_scanned'
    BY <1>1, <2>2 DEF BeginStep, SurvivorInv, Scanned
  <2>3. CASE roots_scanned'
    <3>1. UNCHANGED <<cycleVars, bytes_live>> /\ pc' = "trace"
      BY <1>1, <2>3 DEF BeginStep, BeginCollection
    <3> QED
      BY <2>1, <3>1, SurvivorsUntouched DEF cycleVars, Scanned
  <2> QED
    BY <2>2, <2>3
<1>2. CASE ScanRoots
  BY <1>2, ScanSurvivors
<1>3. CASE TraceSome \/ TraceCallback \/ FinishStep
  <2>1. /\ UNCHANGED <<objects, payload_size, sweep_cursor, bytes_live, roots_scanned>>
        /\ pc # "destroyed" /\ pc # "scan" /\ pc' # "scan"
    BY <1>3 DEF TraceSome, TraceCallback, FinishStep, listVars, cycleVars, sizeVars
  <2>2. collect_in_progress
    BY <1>3 DEF TraceSome, TraceCallback, FinishStep, QuietInv, HeapInv, ControlInv
  <2> QED
    BY <2>1, <2>2, SurvivorsUntouched DEF Scanned
<1>4. CASE SweepSome
  BY <1>4, SweepSurvivors
<1>5. ASSUME NEW s \in Slots, NEW o \in Objects, NEW n \in Sizes, Alloc(s, o, n)
      PROVE  SurvivorInv'
  <2>1. ~collect_in_progress' /\ pc' # "scan"
    BY <1>5 DEF Alloc, MayAlloc, MayMutate, Quiet
  <2> QED
    BY <2>1 DEF SurvivorInv, Scanned
<1>6. ASSUME NEW s \in Slots,
             \/ AllocNull(s) \/ AddRoot(s) \/ RemoveRoot(s) \/ ClientMark(s) \/ Forget(s)
             \/ \E t \in Slots : StoreChild(s, t) \/ LoadChild(s, t)
             \/ \E p \in Objects : ClearChild(s, p)
      PROVE  SurvivorInv'
  <2>1. UNCHANGED <<listVars, cycleVars, sizeVars, pc>> /\ pc = "client"
    BY <1>6 DEF AllocNull, AddRoot, RemoveRoot, ClientMark, Forget, StoreChild, LoadChild, ClearChild
  <2> QED
    BY <2>1, SurvivorsUntouched DEF listVars, cycleVars, sizeVars, Scanned
<1>7. CASE Collect \/ \E b \in Budgets : CollectStep(b)
  <2>1. UNCHANGED <<listVars, cycleVars, sizeVars>> /\ pc = "client" /\ pc' = "enter"
    BY <1>7 DEF Collect, CollectStep
  <2> QED
    BY <2>1, SurvivorsUntouched DEF listVars, cycleVars, sizeVars, Scanned
<1>8. CASE Destroy \/ Create
  BY <1>8 DEF Destroy, Create, SurvivorInv, Scanned
<1>9. CASE UNCHANGED vars
  BY <1>9 DEF vars, listVars, cycleVars, sizeVars, SurvivorInv, Scanned, Behind
<1> QED
  BY <1>1, <1>2, <1>3, <1>4, <1>5, <1>6, <1>7, <1>8, <1>9 DEF Next, Collector, Client

\* With a quiet client bytes_live is, all through the sweep, the payload of
\* what the sweep has kept: the next threshold is computed from the survivors,
\* each counted once, and from nothing else.
THEOREM SurvivingBytes ==
  ASSUME Quiet
  PROVE  Spec => []SurvivorsExact
<1>1. Init => AccountInv /\ SurvivorInv
  BY DEF Init, AccountInv, SurvivorInv
<1>2. TypeOK /\ TypeOK' /\ AccountInv /\ [Next]_vars => AccountInv'
  BY AccountStep
<1>3. TypeOK /\ AccountInv /\ QuietInv /\ SurvivorInv /\ [Next]_vars => SurvivorInv'
  BY SurvivorStep
<1>4. SurvivorInv => SurvivorsExact
  BY SizeIsTotal DEF SurvivorInv, SurvivorsExact
<1> QED
  BY <1>1, <1>2, <1>3, <1>4, TypeCorrect, QuietInvariant, PTL DEF Spec

=============================================================================
