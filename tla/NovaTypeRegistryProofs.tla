----------------------- MODULE NovaTypeRegistryProofs -----------------------
(***************************************************************************)
(* The tables of the analyzer for every program: TypeTables keeps them in  *)
(* their types, their pointers lead to their own records, a constructor    *)
(* keeps its first meaning and a type name stands for the first type so    *)
(* named, with exactly the other names reported.                           *)
(*                                                                         *)
(* The first part proves of the recursive functions of the model (the      *)
(* variants of a type in turn, FlattenSeq) what an induction on their      *)
(* lengths says.                                                           *)
(***************************************************************************)
EXTENDS TypeTables, FiniteSetTheorems, WellFoundedInduction, TLAPS

-----------------------------------------------------------------------------
(* Induction on the natural numbers, over sets.                            *)

\* Any set of subsets of a finite set has a smallest member.
LEMMA SmallestMember ==
  ASSUME NEW T, IsFiniteSet(T), NEW F \in SUBSET (SUBSET T), F # {}
  PROVE  \E U \in F : \A V \in F : V \subseteq U => V = U
<1>1. IsWellFoundedOn(StrictSubsetOrdering(T), SUBSET T)
  BY FS_StrictSubsetOrderingWellFounded, FS_FiniteSubsetsOfFinite
<1>2. PICK U \in F : \A V \in F : ~(<<V, U>> \in StrictSubsetOrdering(T))
  BY <1>1, WFMin
<1> QED
  BY <1>2 DEF StrictSubsetOrdering

\* A set that has 0 and the successors of its members has every number.
LEMMA Induction ==
  ASSUME NEW T, 0 \in T, \A k \in Nat : k \in T => k + 1 \in T
  PROVE  \A n \in Nat : n \in T
<1> SUFFICES ASSUME NEW n \in Nat, n \notin T PROVE FALSE
  OBVIOUS
<1> DEFINE I == 0..n
           F == {U \in SUBSET I : \E k \in I : U = 0..k /\ k \notin T}
<1>0. I \in F
  OBVIOUS
<1>1. F \in SUBSET (SUBSET I) /\ F # {}
  BY <1>0
<1>2. \E U \in F : \A V \in F : V \subseteq U => V = U
  <2>1. IsFiniteSet(I)
    BY FS_Interval, 0 \in Int, n \in Int
  <2> HIDE DEF F, I
  <2> QED
    BY <1>1, <2>1, SmallestMember
<1>3. PICK U \in F : \A V \in F : V \subseteq U => V = U
  BY <1>2
<1>4. PICK k \in 0..n : U = 0..k /\ k \notin T
  OBVIOUS
<1>5. k # 0 /\ k - 1 \in 0..n /\ k - 1 \in Nat
  BY <1>4
<1>6. k - 1 \notin T
  BY <1>4, <1>5
<1>7. 0..(k - 1) \in F
  BY <1>5, <1>6
<1>8. 0..(k - 1) \subseteq U /\ 0..(k - 1) # U
  BY <1>4, <1>5
<1> QED
  BY <1>3, <1>7, <1>8

\* A set of numbers that is not empty has a least one, which Min chooses.
LEMMA Least ==
  ASSUME NEW T \in SUBSET Nat, T # {}
  PROVE  Min(T) \in T /\ \A k \in T : Min(T) <= k
<1>1. \E m \in T : \A k \in T : m <= k
  <2> SUFFICES ASSUME \A m \in T : \E k \in T : ~(m <= k) PROVE FALSE
    OBVIOUS
  <2> DEFINE B == {n \in Nat : \A j \in 0..n : j \notin T}
  <2>1. 0 \in B
    OBVIOUS
  <2>2. ASSUME NEW k \in Nat, k \in B PROVE k + 1 \in B
    BY <2>2
  <2>3. \A n \in Nat : n \in B
    <3> HIDE DEF B
    <3> QED
      BY <2>1, <2>2, Induction
  <2>4. PICK m \in T : TRUE
    OBVIOUS
  <2>5. m \in Nat /\ m \in 0..m
    OBVIOUS
  <2> QED
    BY <2>3, <2>4, <2>5
<1> QED
  BY <1>1 DEF Min

-----------------------------------------------------------------------------
(* Sequences *)

LEMMA InItsSet ==
  ASSUME NEW S, NEW s \in Seq(S)
  PROVE  s \in Seq(ToSet(s)) /\ ToSet(s) \subseteq S
  BY DEF ToSet

LEMMA Concatenated ==
  ASSUME NEW S, NEW s \in Seq(S), NEW t \in Seq(S)
  PROVE  /\ s \o t \in Seq(S) /\ Len(s \o t) = Len(s) + Len(t)
         /\ \A i \in DOMAIN s : i \in DOMAIN (s \o t) /\ (s \o t)[i] = s[i]
         /\ \A i \in DOMAIN t : /\ Len(s) + i \in DOMAIN (s \o t)
                                /\ (s \o t)[Len(s) + i] = t[i]
         /\ \A i \in DOMAIN (s \o t) : i \notin DOMAIN s =>
              i - Len(s) \in DOMAIN t /\ (s \o t)[i] = t[i - Len(s)]
  OBVIOUS

LEMMA ConcatenatedSet ==
  ASSUME NEW S, NEW s \in Seq(S), NEW t \in Seq(S)
  PROVE  ToSet(s \o t) = ToSet(s) \cup ToSet(t)
<1>1. ToSet(s \o t) \subseteq ToSet(s) \cup ToSet(t)
  BY Concatenated DEF ToSet
<1>2. ASSUME NEW i \in DOMAIN s PROVE s[i] \in ToSet(s \o t)
  <2>1. i \in DOMAIN (s \o t) /\ (s \o t)[i] = s[i]
    BY Concatenated
  <2> QED
    BY <2>1 DEF ToSet
<1>3. ASSUME NEW i \in DOMAIN t PROVE t[i] \in ToSet(s \o t)
  <2>1. Len(s) + i \in DOMAIN (s \o t) /\ (s \o t)[Len(s) + i] = t[i]
    BY Concatenated
  <2> QED
    BY <2>1 DEF ToSet
<1> QED
  BY <1>1, <1>2, <1>3 DEF ToSet

\* The recursion of FlattenSeq, written out for the first k sequences.
Joining(ss, k, f) == [i \in 1..k |-> IF i = 1 THEN ss[i] ELSE f[i - 1] \o ss[i]]

LEMMA JoiningExists == \A ss : \A k \in Nat : \E f : f = Joining(ss, k, f)
<1> TAKE ss
<1> DEFINE T == {k \in Nat : \E f : f = Joining(ss, k, f)}
<1>1. 0 \in T
  <2> DEFINE f == [i \in 1..0 |-> ss[i]]
  <2>1. f = Joining(ss, 0, f)
    BY DEF Joining
  <2> QED
    BY <2>1
<1>2. ASSUME NEW k \in Nat, k \in T PROVE k + 1 \in T
  <2>1. PICK f : f = Joining(ss, k, f)
    BY <1>2
  <2> DEFINE g == [i \in 1..(k + 1) |-> IF i = 1 THEN ss[i] ELSE f[i - 1] \o ss[i]]
  <2>2. ASSUME NEW i \in 1..(k + 1), i # 1 PROVE g[i - 1] = f[i - 1]
    <3>1. i - 1 \in 1..k /\ i - 1 \in 1..(k + 1)
      BY <2>2
    <3>2. f[i - 1] = Joining(ss, k, f)[i - 1]
      BY <2>1
    <3> QED
      BY <3>1, <3>2 DEF Joining
  <2>3. g = Joining(ss, k + 1, g)
    <3> HIDE <2>1
    <3> QED
      BY <2>2 DEF Joining
  <2> HIDE DEF g
  <2> QED
    BY <2>3
<1> HIDE DEF T
<1>3. \A k \in Nat : k \in T
  BY <1>1, <1>2, Induction
<1> QED
  BY <1>3 DEF T

\* A sequence of sequences, one after the other: its members are theirs.
LEMMA Flattened ==
  ASSUME NEW S, NEW ss \in Seq(Seq(S))
  PROVE  /\ FlattenSeq(ss) \in Seq(S)
         /\ \A x : x \in ToSet(FlattenSeq(ss)) <=> \E i \in DOMAIN ss : x \in ToSet(ss[i])
<1> DEFINE n == Len(ss)
<1>1. CASE n = 0
  <2>1. FlattenSeq(ss) = ss /\ DOMAIN ss = {} /\ ss = <<>>
    BY <1>1 DEF FlattenSeq
  <2> QED
    BY <2>1 DEF ToSet
<1>2. CASE n # 0
  <2> DEFINE f == CHOOSE f : f = Joining(ss, n, f)
             Good(k) == /\ f[k] \in Seq(S)
                        /\ \A x : x \in ToSet(f[k]) <=> \E i \in 1..k : x \in ToSet(ss[i])
             T == {k \in Nat : k + 1 <= n => Good(k + 1)}
  <2>1. f = Joining(ss, n, f)
    BY JoiningExists
  <2>2. FlattenSeq(ss) = f[n]
    BY <1>2 DEF FlattenSeq, Joining
  <2> HIDE DEF f
  <2>3. \A i \in 1..n : f[i] = IF i = 1 THEN ss[i] ELSE f[i - 1] \o ss[i]
    <3>1. \A i \in 1..n : f[i] = Joining(ss, n, f)[i]
      BY <2>1
    <3> QED
      BY <3>1 DEF Joining
  <2>4. 0 \in T
    <3>1. f[1] = ss[1] /\ ss[1] \in Seq(S) /\ 1..1 = {1}
      BY <1>2, <2>3
    <3> QED
      BY <3>1
  <2>5. ASSUME NEW i \in 2..n, Good(i - 1) PROVE Good(i)
    <3>0. i \in 1..n /\ i # 1
      OBVIOUS
    <3>1. f[i] = f[i - 1] \o ss[i]
      BY ONLY <2>3, <3>0, Zenon
    <3>4. ss[i] \in Seq(S)
      BY <3>0
    <3>2. f[i] \in Seq(S) /\ ToSet(f[i]) = ToSet(f[i - 1]) \cup ToSet(ss[i])
      BY <2>5, <3>1, <3>4, ConcatenatedSet, Concatenated
    <3>3. 1..i = (1..(i - 1)) \cup {i}
      OBVIOUS
    <3> QED
      BY <2>5, <3>2, <3>3
  <2>6. ASSUME NEW k \in Nat, k \in T PROVE k + 1 \in T
    <3> SUFFICES ASSUME k + 2 <= n PROVE Good(k + 1 + 1)
      OBVIOUS
    <3>1. Good(k + 1)
      BY <2>6
    <3>2. k + 2 \in 2..n /\ k + 2 - 1 = k + 1 /\ k + 1 + 1 = k + 2
      OBVIOUS
    <3> HIDE DEF Good
    <3> QED
      BY <2>5, <3>1, <3>2
  <2>7. \A k \in Nat : k \in T
    <3> HIDE DEF T
    <3> QED
      BY <2>4, <2>6, Induction
  <2>8. n - 1 \in Nat /\ n - 1 + 1 = n
    BY <1>2
  <2>9. Good(n - 1 + 1)
    <3>1. n - 1 \in T
      <4> HIDE DEF T
      <4> QED
        BY <2>7, <2>8
    <3> HIDE DEF Good
    <3> QED
      BY <3>1, <2>8
  <2>10. Good(n)
    <3> HIDE DEF Good
    <3> QED
      BY <2>8, <2>9
  <2>11. DOMAIN ss = 1..n
    OBVIOUS
  <2> QED
    BY <2>2, <2>10, <2>11
<1> QED
  BY <1>1, <1>2

-----------------------------------------------------------------------------
(* The variants of a type, in turn.                                        *)

\* The recursion of DeclareVariants, written out for the first k variants.
Declaring(recs, record, id, st, vs, k, f) ==
  [v \in 0..k |-> IF v = 0 THEN st ELSE DeclareVariant(recs, record, id, f[v - 1], vs[v])]

LEMMA DeclaringExists ==
  ASSUME NEW recs, NEW record, NEW id, NEW st, NEW vs
  PROVE  \A k \in Nat : \E f : f = Declaring(recs, record, id, st, vs, k, f)
<1> DEFINE D(k, f) == Declaring(recs, record, id, st, vs, k, f)
           T == {k \in Nat : \E f : f = D(k, f)}
<1>1. 0 \in T
  <2> DEFINE f == [v \in 0..0 |-> st]
  <2>1. f = D(0, f)
    BY DEF Declaring
  <2> QED
    BY <2>1
<1>2. ASSUME NEW k \in Nat, k \in T PROVE k + 1 \in T
  <2>1. PICK f : f = D(k, f)
    BY <1>2
  <2> DEFINE g == [v \in 0..(k + 1) |->
                     IF v = 0 THEN st ELSE DeclareVariant(recs, record, id, f[v - 1], vs[v])]
  <2>2. ASSUME NEW v \in 0..(k + 1), v # 0 PROVE g[v - 1] = f[v - 1]
    <3>1. v - 1 \in 0..k /\ v - 1 \in 0..(k + 1)
      BY <2>2
    <3>2. f[v - 1] = D(k, f)[v - 1]
      BY <2>1
    <3> QED
      BY <3>1, <3>2 DEF Declaring
  <2>3. g = D(k + 1, g)
    <3> HIDE <2>1
    <3> QED
      BY <2>2 DEF Declaring
  <2> HIDE DEF g, D
  <2> QED
    BY <2>3
<1> HIDE DEF T
<1>3. \A k \in Nat : k \in T
  BY <1>1, <1>2, Induction
<1> QED
  BY <1>3 DEF T

\* b holds what there is before the first variant and after each.
Turns(recs, record, id, st, vs, b) ==
  /\ b[0] = st
  /\ \A v \in 1..Len(vs) : b[v] = DeclareVariant(recs, record, id, b[v - 1], vs[v])
  /\ DeclareVariants(recs, record, id, st, vs) = b[Len(vs)]

LEMMA InTurn ==
  ASSUME NEW recs, NEW record, NEW id, NEW st, NEW S, NEW vs \in Seq(S)
  PROVE  \E b : Turns(recs, record, id, st, vs, b)
<1> DEFINE n == Len(vs)
           b == CHOOSE f : f = Declaring(recs, record, id, st, vs, n, f)
<1>1. n \in Nat
  OBVIOUS
<1>2. b = Declaring(recs, record, id, st, vs, n, b)
  BY <1>1, DeclaringExists
<1>3. DeclareVariants(recs, record, id, st, vs) = b[n]
  BY DEF DeclareVariants, Declaring
<1> HIDE DEF b, n
<1>4. \A v \in 0..n : b[v] = Declaring(recs, record, id, st, vs, n, b)[v]
  BY <1>2
<1>5. b[0] = st
  BY <1>1, <1>4 DEF Declaring
<1>6. ASSUME NEW v \in 1..n PROVE b[v] = DeclareVariant(recs, record, id, b[v - 1], vs[v])
  <2>1. v \in 0..n /\ v # 0
    BY <1>1
  <2>2. b[v] = Declaring(recs, record, id, st, vs, n, b)[v]
    BY <1>4, <2>1
  <2> QED
    BY <2>1, <2>2 DEF Declaring
<1> QED
  BY <1>3, <1>5, <1>6 DEF n, Turns

\* a name for which resolve_type_token reports an error
IsUnknown(recs, name) ==
  name # None /\ name \notin DOMAIN BuiltInNames /\ NamedRecords(recs, name) = {}

\* what is reported of the declaration at hand
NewReports   == [message : Messages, at : {next}]
UnknownError == Error("unknown type name", next)
TakenError   == Error("symbol already defined in scope", next)

LEMMA TwoErrors ==
  /\ UnknownError \in NewReports /\ TakenError \in NewReports /\ UnknownError # TakenError
<1>1. /\ UnknownError = [message |-> "unknown type name", at |-> next]
      /\ TakenError = [message |-> "symbol already defined in scope", at |-> next]
  BY DEF UnknownError, TakenError, Error
<1>2. UnknownError.message # TakenError.message
  BY <1>1
<1>3. UnknownError \in NewReports
  BY <1>1 DEF NewReports, Messages
<1>4. TakenError \in NewReports
  BY <1>1 DEF NewReports, Messages
<1> QED
  BY <1>2, <1>3, <1>4

\* What a name resolves to is one of the m types, if the records lead to them.
LEMMA Resolved ==
  ASSUME NEW R, NEW recs \in Seq(R), NEW m \in Nat, m >= 5,
         \A i \in DOMAIN recs : recs[i].type_id \in 1..m
  PROVE  \A name : Resolve(recs, name) \in 1..m
<1> TAKE name
<1>1. CASE name \in DOMAIN BuiltInNames
  BY <1>1 DEF Resolve, BuiltInNames, Number, String, Bool, Unit
<1>2. CASE name \notin DOMAIN BuiltInNames /\ NamedRecords(recs, name) # {}
  <2>1. NamedRecords(recs, name) \in SUBSET Nat
    BY DEF NamedRecords
  <2>2. Min(NamedRecords(recs, name)) \in NamedRecords(recs, name)
    BY <1>2, <2>1, Least
  <2> QED
    BY <1>2, <2>2 DEF Resolve, NamedRecords
<1>3. CASE name \notin DOMAIN BuiltInNames /\ NamedRecords(recs, name) = {}
  BY <1>3 DEF Resolve, Unknown
<1> QED
  BY <1>1, <1>2, <1>3

\* The names of a payload: an error for exactly the unknown ones.
LEMMA UnknownNames ==
  ASSUME NEW recs, NEW P, NEW names \in Seq(P)
  PROVE  LET new == FlattenSeq([p \in DOMAIN names |-> Unresolved(recs, names[p], next)])
         IN /\ new \in Seq(NewReports)
            /\ \A x : x \in ToSet(new) <=>
                 x = UnknownError /\ \E name \in ToSet(names) : IsUnknown(recs, name)
<1> DEFINE ss == [p \in DOMAIN names |-> Unresolved(recs, names[p], next)]
<1>1. ASSUME NEW p \in DOMAIN names
      PROVE  /\ ss[p] \in Seq(NewReports)
             /\ \A x : x \in ToSet(ss[p]) <=> x = UnknownError /\ IsUnknown(recs, names[p])
  <2>1. ss[p] = IF IsUnknown(recs, names[p]) THEN <<UnknownError>> ELSE <<>>
    BY DEF Unresolved, IsUnknown, SeqIf, UnknownError
  <2>2. CASE IsUnknown(recs, names[p])
    <3>1. ss[p] = <<UnknownError>>
      BY <2>1, <2>2
    <3> HIDE DEF ss
    <3> QED
      BY <2>2, <3>1, TwoErrors DEF ToSet
  <2>3. CASE ~IsUnknown(recs, names[p])
    <3>1. ss[p] = <<>>
      BY <2>1, <2>3
    <3> HIDE DEF ss
    <3> QED
      BY <2>3, <3>1 DEF ToSet
  <2> QED
    BY <2>2, <2>3
<1>2. DOMAIN ss = DOMAIN names /\ DOMAIN names = 1..Len(names) /\ Len(names) \in Nat
  OBVIOUS
<1> HIDE DEF ss
<1>3. ss \in Seq(Seq(NewReports))
  <2>1. ss = [p \in 1..Len(names) |-> ss[p]]
    BY <1>2 DEF ss
  <2> QED
    BY <1>1, <1>2, <2>1
<1>4. /\ FlattenSeq(ss) \in Seq(NewReports)
      /\ \A x : x \in ToSet(FlattenSeq(ss)) <=> \E p \in DOMAIN ss : x \in ToSet(ss[p])
  BY <1>3, Flattened
<1>5. ToSet(names) = {names[p] : p \in DOMAIN names}
  BY DEF ToSet
<1>6. ASSUME NEW x
      PROVE  x \in ToSet(FlattenSeq(ss)) <=>
               x = UnknownError /\ \E name \in ToSet(names) : IsUnknown(recs, name)
  BY <1>1, <1>2, <1>4, <1>5
<1> QED
  BY <1>4, <1>6 DEF ss

LEMMA AsSequence ==
  ASSUME NEW S, NEW n \in Nat, NEW f, f = [i \in 1..n |-> f[i]], \A i \in 1..n : f[i] \in S
  PROVE  f \in Seq(S) /\ Len(f) = n
  OBVIOUS

LEMMA OneMoreItem ==
  ASSUME NEW S, NEW s \in Seq(S), NEW x
  PROVE  Append(s, x) = s \o <<x>> /\ Len(Append(s, x)) = Len(s) + 1
  OBVIOUS

LEMMA Associative ==
  ASSUME NEW S, NEW s \in Seq(S), NEW t \in Seq(S), NEW u \in Seq(S)
  PROVE  (s \o t) \o u = s \o (t \o u)
  OBVIOUS

\* What a constructor's entry in the scope is.
ConstructorEntry(m, record) == [type : 1..m, effects : {{}}, record : {record}]

\* One variant, from s to r: a type is added if it has a payload, its name is
\* defined unless it is taken, and exactly what the names deserve is reported.
OneMore(recs, record, s, r, variant) ==
  /\ \E fns \in Seq(FunctionsAndLists(1..Len(r.types))) : r.types = s.types \o fns
  /\ \E entry \in ConstructorEntry(Len(r.types), record) :
       r.scope = Joined(s.scope, variant.name, entry)
  /\ \E new \in Seq(NewReports) :
       /\ r.diagnostics = s.diagnostics \o new
       /\ UnknownError \in ToSet(new) <=>
            \E name \in ToSet(variant.payload) : IsUnknown(recs, name)
       /\ variant.name \in DOMAIN s.scope => TakenError \in ToSet(new)

LEMMA OneVariant ==
  ASSUME NEW R, NEW recs \in Seq(R), NEW record, NEW id, NEW s, NEW A, NEW D,
         s.types \in Seq(A), s.diagnostics \in Seq(D), Len(s.types) >= 5,
         id \in 1..Len(s.types),
         \A i \in DOMAIN recs : recs[i].type_id \in 1..Len(s.types),
         NEW variant, variant.payload \in Seq(ToSet(variant.payload))
  PROVE  OneMore(recs, record, s, DeclareVariant(recs, record, id, s, variant), variant)
<1> DEFINE params == [p \in DOMAIN variant.payload |->
                        IF variant.payload[p] = None THEN Unknown
                        ELSE Resolve(recs, variant.payload[p])]
           unknown == FlattenSeq([p \in DOMAIN variant.payload |->
                                    Unresolved(recs, variant.payload[p], next)])
           fn == [kind |-> "function", params |-> params, result |-> id, effects |-> {}]
           pool == IF params = <<>> THEN s.types ELSE Append(s.types, fn)
           entry == [type |-> IF params = <<>> THEN id ELSE Len(pool), effects |-> {},
                     record |-> record]
           errors == SeqIf(variant.name \in DOMAIN s.scope, TakenError)
           r == DeclareVariant(recs, record, id, s, variant)
           m == Len(s.types)
<1>1. /\ r.types = pool
      /\ r.scope = Joined(s.scope, variant.name, entry)
      /\ r.diagnostics = s.diagnostics \o unknown \o errors
  BY DEF DeclareVariant, ScopeDefine, TakenError
<1>2. m \in Nat
  OBVIOUS
<1>3. params \in Seq(1..m)
  <2>1. \A name : Resolve(recs, name) \in 1..m
    BY <1>2, Resolved
  <2>2. DOMAIN variant.payload = 1..Len(variant.payload) /\ Len(variant.payload) \in Nat
    OBVIOUS
  <2>3. \A p \in 1..Len(variant.payload) : params[p] \in 1..m
    BY <1>2, <2>1, <2>2 DEF Unknown
  <2>4. params = [p \in 1..Len(variant.payload) |-> params[p]]
    BY <2>2
  <2> HIDE DEF params
  <2> QED
    BY <2>2, <2>3, <2>4, AsSequence
<1> HIDE DEF params, r
<1>4. /\ \E fns \in Seq(FunctionsAndLists(1..Len(r.types))) : r.types = s.types \o fns
      /\ entry \in ConstructorEntry(Len(r.types), record)
  <2>1. CASE params = <<>>
    <3>1. r.types = s.types
      BY <1>1, <2>1
    <3>2. r.types = s.types \o <<>> /\ Len(r.types) = m
      BY <3>1
    <3>3. <<>> \in Seq(FunctionsAndLists(1..Len(r.types)))
      OBVIOUS
    <3>4. entry \in ConstructorEntry(Len(r.types), record)
      BY <2>1, <3>2 DEF ConstructorEntry
    <3> QED
      BY <3>2, <3>3, <3>4
  <2>2. CASE params # <<>>
    <3>1. r.types = Append(s.types, fn)
      BY <1>1, <2>2
    <3>2. Len(r.types) = m + 1 /\ r.types = s.types \o <<fn>>
      <4> HIDE DEF fn
      <4> QED
        BY <3>1, OneMoreItem
    <3>3. fn \in FunctionsAndLists(1..(m + 1))
      <4>1. params \in Seq(1..(m + 1)) /\ id \in 1..(m + 1)
        BY <1>2, <1>3
      <4> QED
        BY <4>1 DEF FunctionsAndLists
    <3>4. entry \in ConstructorEntry(Len(r.types), record)
      <4>1. entry.type = m + 1
        BY <2>2, <3>2, <1>1
      <4> QED
        BY <1>2, <3>2, <4>1 DEF ConstructorEntry
    <3> HIDE DEF fn, entry
    <3>5. <<fn>> \in Seq(FunctionsAndLists(1..Len(r.types)))
      BY <3>2, <3>3
    <3> QED
      BY <3>2, <3>4, <3>5
  <2> QED
    BY <2>1, <2>2
<1>5. /\ unknown \in Seq(NewReports)
      /\ \A x : x \in ToSet(unknown) <=>
           x = UnknownError /\ \E name \in ToSet(variant.payload) : IsUnknown(recs, name)
  BY UnknownNames
<1>6. /\ errors \in Seq(NewReports)
      /\ \A x : x \in ToSet(errors) <=> x = TakenError /\ variant.name \in DOMAIN s.scope
  <2>1. CASE variant.name \in DOMAIN s.scope
    <3>1. errors = <<TakenError>>
      BY <2>1 DEF SeqIf
    <3> HIDE DEF errors
    <3> QED
      BY <2>1, <3>1, TwoErrors DEF ToSet
  <2>2. CASE variant.name \notin DOMAIN s.scope
    <3>1. errors = <<>>
      BY <2>2 DEF SeqIf
    <3> HIDE DEF errors
    <3> QED
      BY <2>2, <3>1 DEF ToSet
  <2> QED
    BY <2>1, <2>2
<1> HIDE DEF unknown, errors, entry
<1>7. /\ unknown \o errors \in Seq(NewReports)
      /\ ToSet(unknown \o errors) = ToSet(unknown) \cup ToSet(errors)
  BY <1>5, <1>6, Concatenated, ConcatenatedSet
<1>8. r.diagnostics = s.diagnostics \o (unknown \o errors)
  <2> DEFINE U == D \cup NewReports
  <2>1. unknown \in Seq(U) /\ errors \in Seq(U) /\ s.diagnostics \in Seq(U)
    BY <1>5, <1>6
  <2> HIDE DEF U
  <2> QED
    <3> DEFINE d == s.diagnostics
    <3>1. d \in Seq(U)
      BY <2>1
    <3> HIDE DEF d
    <3>2. (d \o unknown) \o errors = d \o (unknown \o errors)
      BY ONLY <2>1, <3>1, Associative
    <3> QED
      BY <1>1, <3>2 DEF d
<1>9. \E new \in Seq(NewReports) :
        /\ r.diagnostics = s.diagnostics \o new
        /\ UnknownError \in ToSet(new) <=>
             \E name \in ToSet(variant.payload) : IsUnknown(recs, name)
        /\ variant.name \in DOMAIN s.scope => TakenError \in ToSet(new)
  BY <1>5, <1>6, <1>7, <1>8, TwoErrors
<1> QED
  BY <1>1, <1>4, <1>9 DEF OneMore, r

\* What the first k variants make of st.
SoFar(recs, record, st, vs, k, s) ==
  /\ \E fns \in Seq(FunctionsAndLists(1..Len(s.types))) : s.types = st.types \o fns
  /\ DOMAIN s.scope = DOMAIN st.scope \cup {vs[j].name : j \in 1..k}
  /\ \A n \in DOMAIN st.scope : s.scope[n] = st.scope[n]
  /\ \A n \in DOMAIN s.scope : n \notin DOMAIN st.scope =>
       s.scope[n] \in ConstructorEntry(Len(s.types), record)
  /\ \E new \in Seq(NewReports) :
       /\ s.diagnostics = st.diagnostics \o new
       /\ UnknownError \in ToSet(new) <=>
            \E j \in 1..k : \E name \in ToSet(vs[j].payload) : IsUnknown(recs, name)
       /\ \A j \in 1..k : vs[j].name \in DOMAIN st.scope => TakenError \in ToSet(new)

LEMMA MoreTypes ==
  ASSUME NEW m \in Nat, NEW n \in Nat, m <= n
  PROVE  /\ FunctionsAndLists(1..m) \subseteq FunctionsAndLists(1..n)
         /\ \A record : ConstructorEntry(m, record) \subseteq ConstructorEntry(n, record)
<1>1. 1..m \subseteq 1..n
  OBVIOUS
<1>2. Seq(1..m) \subseteq Seq(1..n)
  BY <1>1
<1> QED
  BY <1>1, <1>2 DEF FunctionsAndLists, ConstructorEntry

LEMMA FromNoneToAll ==
  ASSUME NEW recs, NEW record, NEW st, NEW vs, NEW A, NEW D,
         st.types \in Seq(A), st.diagnostics \in Seq(D)
  PROVE  SoFar(recs, record, st, vs, 0, st)
<1>1. <<>> \in Seq(FunctionsAndLists(1..Len(st.types))) /\ st.types = st.types \o <<>>
  OBVIOUS
<1>2. <<>> \in Seq(NewReports) /\ st.diagnostics = st.diagnostics \o <<>>
  OBVIOUS
<1>3. ToSet(<<>>) = {}
  BY DEF ToSet
<1>4. 1..0 = {}
  OBVIOUS
<1> QED
  BY <1>1, <1>2, <1>3, <1>4 DEF SoFar

LEMMA FromSomeToMore ==
  ASSUME NEW recs, NEW record, NEW st, NEW vs, NEW A, NEW D,
         st.types \in Seq(A), st.diagnostics \in Seq(D),
         NEW k \in Nat, NEW s, SoFar(recs, record, st, vs, k, s),
         NEW r, OneMore(recs, record, s, r, vs[k + 1])
  PROVE  SoFar(recs, record, st, vs, k + 1, r)
<1> DEFINE F(x) == FunctionsAndLists(1..Len(x.types))
           C(x) == ConstructorEntry(Len(x.types), record)
           v == vs[k + 1]
<1>0. 1..(k + 1) = (1..k) \cup {k + 1}
  OBVIOUS
<1>1. PICK fns \in Seq(F(s)) : s.types = st.types \o fns
  BY DEF SoFar
<1>2. PICK more \in Seq(F(r)) : r.types = s.types \o more
  BY DEF OneMore
<1>3. Len(s.types) \in Nat /\ Len(r.types) \in Nat /\ Len(s.types) <= Len(r.types)
  <2>1. s.types \in Seq(A \cup F(s))
    BY <1>1
  <2>2. Len(r.types) = Len(s.types) + Len(more) /\ Len(more) \in Nat /\ Len(s.types) \in Nat
    <3> DEFINE U == A \cup F(s) \cup F(r)
    <3>1. s.types \in Seq(U) /\ more \in Seq(U)
      BY <2>1
    <3> HIDE DEF U
    <3> QED
      BY <1>2, <3>1
  <2> QED
    BY <2>2
<1>4. F(s) \subseteq F(r) /\ C(s) \subseteq C(r)
  BY <1>3, MoreTypes
<1> HIDE DEF F, C
<1>5. \E all \in Seq(F(r)) : r.types = st.types \o all
  <2>1. fns \in Seq(F(r)) /\ fns \o more \in Seq(F(r))
    BY <1>4
  <2>2. r.types = st.types \o (fns \o more)
    <3> DEFINE U == A \cup F(r)
               t == st.types
    <3>1. t \in Seq(U) /\ fns \in Seq(U) /\ more \in Seq(U)
      BY <2>1
    <3> HIDE DEF U, t
    <3>2. (t \o fns) \o more = t \o (fns \o more)
      BY ONLY <3>1
    <3> QED
      BY <1>1, <1>2, <3>2 DEF t
  <2> QED
    BY <2>1, <2>2
<1>6. PICK entry \in C(r) : r.scope = Joined(s.scope, v.name, entry)
  BY DEF OneMore, C
<1>7. /\ DOMAIN s.scope = DOMAIN st.scope \cup {vs[j].name : j \in 1..k}
      /\ \A n \in DOMAIN st.scope : s.scope[n] = st.scope[n]
      /\ \A n \in DOMAIN s.scope : n \notin DOMAIN st.scope => s.scope[n] \in C(s)
  BY DEF SoFar, C
<1>8. DOMAIN r.scope = DOMAIN st.scope \cup {vs[j].name : j \in 1..(k + 1)}
  BY <1>0, <1>6, <1>7 DEF Joined
<1>9. \A n \in DOMAIN st.scope : r.scope[n] = st.scope[n]
  BY <1>6, <1>7 DEF Joined
<1>10. \A n \in DOMAIN r.scope : n \notin DOMAIN st.scope => r.scope[n] \in C(r)
  BY <1>4, <1>6, <1>7 DEF Joined
<1>11. PICK new \in Seq(NewReports) :
         /\ s.diagnostics = st.diagnostics \o new
         /\ UnknownError \in ToSet(new) <=>
              \E j \in 1..k : \E name \in ToSet(vs[j].payload) : IsUnknown(recs, name)
         /\ \A j \in 1..k : vs[j].name \in DOMAIN st.scope => TakenError \in ToSet(new)
  BY DEF SoFar
<1>12. PICK last \in Seq(NewReports) :
         /\ r.diagnostics = s.diagnostics \o last
         /\ UnknownError \in ToSet(last) <=>
              \E name \in ToSet(v.payload) : IsUnknown(recs, name)
         /\ v.name \in DOMAIN s.scope => TakenError \in ToSet(last)
  BY DEF OneMore
<1>13. new \o last \in Seq(NewReports) /\ ToSet(new \o last) = ToSet(new) \cup ToSet(last)
  BY Concatenated, ConcatenatedSet
<1>14. r.diagnostics = st.diagnostics \o (new \o last)
  <2> DEFINE U == D \cup NewReports
             d == st.diagnostics
  <2>1. d \in Seq(U) /\ new \in Seq(U) /\ last \in Seq(U)
    <3>1. d \in Seq(D)
      OBVIOUS
    <3> HIDE DEF d
    <3>2. new \in Seq(NewReports) /\ last \in Seq(NewReports)
      OBVIOUS
    <3> QED
      BY ONLY <3>1, <3>2
  <2> HIDE DEF U, d
  <2>2. (d \o new) \o last = d \o (new \o last)
    BY ONLY <2>1, Associative
  <2> QED
    BY <1>11, <1>12, <2>2 DEF d
<1>15. UnknownError \in ToSet(new \o last) <=>
         \E j \in 1..(k + 1) : \E name \in ToSet(vs[j].payload) : IsUnknown(recs, name)
  BY <1>0, <1>11, <1>12, <1>13
<1>16. \A j \in 1..(k + 1) : vs[j].name \in DOMAIN st.scope => TakenError \in ToSet(new \o last)
  BY <1>0, <1>7, <1>11, <1>12, <1>13
<1> HIDE DEF v
<1> QED
  BY <1>5, <1>8, <1>9, <1>10, <1>13, <1>14, <1>15, <1>16 DEF SoFar, F, C

\* All variants of a type: what DeclareVariants makes of st.
LEMMA AllVariants ==
  ASSUME NEW R, NEW recs \in Seq(R), NEW record, NEW id, NEW st, NEW A, NEW D,
         st.types \in Seq(A), st.diagnostics \in Seq(D), Len(st.types) >= 5,
         id \in 1..Len(st.types),
         \A i \in DOMAIN recs : recs[i].type_id \in 1..Len(st.types),
         NEW S, NEW vs \in Seq(S),
         \A v \in 1..Len(vs) : vs[v].payload \in Seq(ToSet(vs[v].payload))
  PROVE  SoFar(recs, record, st, vs, Len(vs), DeclareVariants(recs, record, id, st, vs))
<1>0. PICK b : Turns(recs, record, id, st, vs, b)
  BY InTurn
<1>1. /\ b[0] = st
      /\ \A v \in 1..Len(vs) : b[v] = DeclareVariant(recs, record, id, b[v - 1], vs[v])
      /\ DeclareVariants(recs, record, id, st, vs) = b[Len(vs)]
  BY <1>0 DEF Turns
<1> DEFINE n == Len(vs)
           P(k, s) == SoFar(recs, record, st, vs, k, s)
           T == {k \in Nat : k <= n => P(k, b[k])}
<1>2. 0 \in T
  BY <1>1, FromNoneToAll
<1>3. ASSUME NEW k \in Nat, k \in T PROVE k + 1 \in T
  <2> SUFFICES ASSUME k + 1 <= n PROVE P(k + 1, b[k + 1])
    OBVIOUS
  <2>1. P(k, b[k]) /\ k + 1 \in 1..n /\ n \in Nat
    BY <1>3
  <2>2. b[k + 1] = DeclareVariant(recs, record, id, b[k], vs[k + 1])
    <3>1. k + 1 - 1 = k
      OBVIOUS
    <3>2. b[k + 1] = DeclareVariant(recs, record, id, b[k + 1 - 1], vs[k + 1])
      BY <1>1, <2>1
    <3> QED
      BY <3>1, <3>2
  <2>3. OneMore(recs, record, b[k], b[k + 1], vs[k + 1])
    <3> DEFINE s == b[k]
               F == FunctionsAndLists(1..Len(s.types))
               U == A \cup F
               E == D \cup NewReports
    <3>1. s.types \in Seq(U) /\ Len(s.types) \in Nat /\ Len(s.types) >= Len(st.types)
      <4>1. PICK fns \in Seq(F) : s.types = st.types \o fns
        BY <2>1 DEF SoFar
      <4>2. st.types \in Seq(U) /\ fns \in Seq(U)
        OBVIOUS
      <4> HIDE DEF U, F, s
      <4> QED
        BY <4>1, <4>2
    <3>2. s.diagnostics \in Seq(E)
      <4>1. PICK new \in Seq(NewReports) : s.diagnostics = st.diagnostics \o new
        BY <2>1 DEF SoFar
      <4>2. st.diagnostics \in Seq(E) /\ new \in Seq(E)
        OBVIOUS
      <4> HIDE DEF E, s
      <4> QED
        BY <4>1, <4>2
    <3>3. /\ Len(s.types) >= 5 /\ id \in 1..Len(s.types)
          /\ \A i \in DOMAIN recs : recs[i].type_id \in 1..Len(s.types)
      <4>1. Len(st.types) \in Nat
        <5>1. st.types \in Seq(A)
          OBVIOUS
        <5> QED
          BY ONLY <5>1
      <4>2. /\ Len(st.types) >= 5 /\ id \in 1..Len(st.types)
            /\ \A i \in DOMAIN recs : recs[i].type_id \in 1..Len(st.types)
        OBVIOUS
      <4> HIDE DEF s
      <4>3. 1..Len(st.types) \subseteq 1..Len(s.types)
        BY ONLY <3>1, <4>1
      <4>4. Len(s.types) >= 5
        BY ONLY <3>1, <4>1, <4>2
      <4> QED
        BY ONLY <4>2, <4>3, <4>4
    <3>4. vs[k + 1].payload \in Seq(ToSet(vs[k + 1].payload))
      BY <2>1
    <3> HIDE DEF U, E, F, s
    <3>5. OneMore(recs, record, s, DeclareVariant(recs, record, id, s, vs[k + 1]), vs[k + 1])
      BY <3>1, <3>2, <3>3, <3>4, OneVariant
    <3> QED
      BY <2>2, <3>5 DEF s
  <2> QED
    BY <2>1, <2>3, FromSomeToMore
<1>4. \A k \in Nat : k \in T
  <2> HIDE DEF T
  <2> QED
    BY <1>2, <1>3, Induction
<1>5. n \in Nat
  OBVIOUS
<1>6. P(n, b[n])
  <2>1. n \in T
    <3> HIDE DEF T, n
    <3> QED
      BY <1>4, <1>5
  <2> HIDE DEF P
  <2> QED
    BY <2>1, <1>5
<1> QED
  BY <1>1, <1>6

-----------------------------------------------------------------------------
(* A step that registers a type.                                           *)

\* The warnings about a tuple type are none of the two errors.
LEMMA Warnings ==
  ASSUME NEW P, NEW fields \in Seq(P)
  PROVE  /\ TupleWarnings(fields) \in Seq(NewReports)
         /\ UnknownError \notin ToSet(TupleWarnings(fields))
<1> DEFINE empty == Error("tuple type has no fields", next)
           missing == Error("tuple field missing type annotation", next)
<1>1. /\ empty \in NewReports /\ missing \in NewReports
      /\ empty # UnknownError /\ missing # UnknownError
  <2>1. empty.message # UnknownError.message /\ missing.message # UnknownError.message
    BY DEF Error, UnknownError
  <2>2. empty \in NewReports /\ missing \in NewReports
    BY DEF Error, NewReports, Messages
  <2> QED
    BY <2>1, <2>2
<1>2. CASE fields = <<>>
  <2>1. TupleWarnings(fields) = <<empty>>
    BY <1>2 DEF TupleWarnings
  <2> HIDE DEF empty, missing
  <2> QED
    BY <1>1, <2>1 DEF ToSet
<1>3. CASE fields # <<>>
  <2> DEFINE ss == [i \in DOMAIN fields |-> SeqIf(fields[i] = None, missing)]
  <2>1. TupleWarnings(fields) = FlattenSeq(ss)
    BY <1>3 DEF TupleWarnings
  <2>2. ASSUME NEW i \in DOMAIN fields
        PROVE  ss[i] \in Seq(NewReports) /\ UnknownError \notin ToSet(ss[i])
    <3>1. ss[i] = <<missing>> \/ ss[i] = <<>>
      BY DEF SeqIf
    <3> HIDE DEF ss, empty, missing
    <3>2. CASE ss[i] = <<missing>>
      BY <1>1, <3>2 DEF ToSet
    <3>3. CASE ss[i] = <<>>
      BY <3>3 DEF ToSet
    <3> QED
      BY <3>1, <3>2, <3>3
  <2>3. DOMAIN ss = DOMAIN fields /\ DOMAIN fields = 1..Len(fields) /\ Len(fields) \in Nat
    OBVIOUS
  <2>4. ss = [i \in 1..Len(fields) |-> ss[i]]
    BY <2>3
  <2> HIDE DEF ss
  <2>5. ss \in Seq(Seq(NewReports))
    BY <2>2, <2>3, <2>4, AsSequence
  <2> QED
    BY <2>1, <2>2, <2>3, <2>5, Flattened
<1> QED
  BY <1>2, <1>3

ProgramOK == program \in Seq(Decls)

\* What a step of register_type_decl does whose record ends up in block b.
RegisteredIn(b) ==
  LET d == program[next]
      record == Pointer(b, Len(records) + 1)
  IN /\ pass = "types" /\ next \in DOMAIN program /\ IsType(next)
     /\ b \in Blocks /\ block' = b /\ capacity' = NewCapacity
     /\ next' = next + 1 /\ UNCHANGED <<program, pass>>
     /\ records' = Append(records, [name |-> d.name, type_id |-> Len(types) + 1,
                                    variants |-> d.variants])
     /\ \E fns \in Seq(FunctionsAndLists(1..Len(types'))) :
          types' = Append(types, [kind |-> "custom", record |-> record]) \o fns
     /\ DOMAIN scope' = DOMAIN scope \cup VariantNames(next)
     /\ \A n \in DOMAIN scope : scope'[n] = scope[n]
     /\ \A n \in DOMAIN scope' : n \notin DOMAIN scope =>
          scope'[n] \in ConstructorEntry(Len(types'), record)
     /\ \E new \in Seq(NewReports) :
          /\ diagnostics' = diagnostics \o new
          /\ UnknownError \in ToSet(new) <=>
               \E v \in ToSet(d.variants) : \E name \in ToSet(v.payload) : IsUnknown(records', name)
          /\ \A name \in VariantNames(next) : name \in DOMAIN scope => TakenError \in ToSet(new)

LEMMA TypesPool ==
  ASSUME RegistryTypeOK
  PROVE  /\ \E A : types \in Seq(A)
         /\ Len(types) \in Nat /\ DOMAIN types = 1..Len(types)
         /\ Len(records) \in Nat /\ DOMAIN records = 1..Len(records)
         /\ records \in Seq(ToSet(records))
         /\ \A i \in DOMAIN records : records[i].type_id \in 1..Len(types)
<1> DEFINE A == ToSet(BuiltIn) \cup FunctionsAndLists(DOMAIN types)
                  \cup [kind : {"custom"}, record : Pointers]
           B(d) == [name : {d.name}, type_id : DOMAIN types, variants : {d.variants}]
           R == UNION {B(d) : d \in {program[t] : t \in {t \in DOMAIN program : IsType(t)}}}
<1>1. types \in Seq(A) /\ records \in Seq(R)
  BY DEF RegistryTypeOK
<1>2. \A r \in R : r.type_id \in DOMAIN types
  OBVIOUS
<1> HIDE DEF A, R
<1>3. DOMAIN types = 1..Len(types)
  BY <1>1
<1> QED
  BY <1>1, <1>2, <1>3, InItsSet

LEMMA Registered ==
  ASSUME RegistryTypeOK, ProgramOK, Len(types) >= 5, RegisterType
  PROVE  \E b : RegisteredIn(b)
<1> DEFINE d == program[next]
           id == Len(types) + 1
           recs == Append(records, [name |-> d.name, type_id |-> id, variants |-> d.variants])
           record(b) == NewRecord(b)
           st(b) == [types |-> Append(types, [kind |-> "custom", record |-> record(b)]),
                     scope |-> scope, diagnostics |-> diagnostics]
           built(b) == DeclareVariants(recs, record(b), id, st(b), d.variants)
<1>1. PICK b \in Blocks :
        /\ records' = recs /\ block' = b
        /\ types' = built(b).types /\ scope' = built(b).scope
        /\ diagnostics' = built(b).diagnostics \o
             (IF d.kind = "tuple" THEN TupleWarnings(d.fields) ELSE <<>>)
  BY DEF RegisterType
<1>2. /\ pass = "types" /\ next \in DOMAIN program /\ IsType(next)
      /\ capacity' = NewCapacity /\ next' = next + 1 /\ UNCHANGED <<program, pass>>
  BY DEF RegisterType
<1>3. /\ d \in Decls /\ d.variants \in Seq(ToSet(d.variants)) /\ d.fields \in Seq(ToSet(d.fields))
      /\ \A v \in ToSet(d.variants) : v.payload \in Seq(ToSet(v.payload))
  <2>1. d \in Decls /\ d.kind \in {"sum", "tuple"}
    BY <1>2 DEF ProgramOK, IsType
  <2> QED
    BY <2>1, DeclsAssumption
<1> DEFINE n == Len(d.variants)
           s == built(b)
           r == record(b)
<1>4. SoFar(recs, r, st(b), d.variants, n, s)
  <2>1. PICK A : types \in Seq(A)
    BY TypesPool
  <2> DEFINE C == A \cup {[kind |-> "custom", record |-> r]}
  <2>2. st(b).types \in Seq(C) /\ Len(st(b).types) = id /\ Len(types) \in Nat
    <3> DEFINE c == [kind |-> "custom", record |-> r]
    <3>1. c \in C /\ types \in Seq(C)
      BY <2>1
    <3> HIDE DEF c, C
    <3>2. Append(types, c) \in Seq(C) /\ Len(Append(types, c)) = id
      BY <3>1
    <3> QED
      BY <2>1, <3>2 DEF c
  <2>3. st(b).diagnostics \in Seq([message : Messages, at : DOMAIN program])
    BY DEF RegistryTypeOK
  <2>4. /\ recs \in Seq(ToSet(recs))
        /\ \A i \in DOMAIN recs : recs[i].type_id \in 1..id
    <3> DEFINE x == [name |-> d.name, type_id |-> id, variants |-> d.variants]
               X == ToSet(records) \cup {x}
    <3>1. x.type_id = id
      OBVIOUS
    <3>2. records \in Seq(X) /\ x \in X
      BY TypesPool
    <3> HIDE DEF x, X
    <3>3. Append(records, x) \in Seq(X)
      BY <3>2
    <3>4. \A i \in DOMAIN Append(records, x) :
            Append(records, x)[i] = x \/ (i \in DOMAIN records /\ Append(records, x)[i] = records[i])
      BY <3>2
    <3>5. \A i \in DOMAIN Append(records, x) : Append(records, x)[i].type_id \in 1..id
      BY <3>1, <3>4, <2>2, TypesPool
    <3>6. recs = Append(records, x)
      BY DEF x
    <3> QED
      BY <3>3, <3>5, <3>6, InItsSet
  <2>5. Len(st(b).types) >= 5 /\ id \in 1..Len(st(b).types)
    BY <2>2
  <2>6. \A v \in 1..n : d.variants[v].payload \in Seq(ToSet(d.variants[v].payload))
    <3>1. DOMAIN d.variants = 1..n
      BY <1>3
    <3>2. \A v \in 1..n : d.variants[v] \in ToSet(d.variants)
      BY <3>1 DEF ToSet
    <3> HIDE DEF d
    <3> QED
      BY <1>3, <3>2
  <2> DEFINE vs == d.variants
             st1 == st(b)
  <2>7. vs \in Seq(ToSet(vs))
    BY <1>3
  <2> HIDE DEF recs, st, vs, st1, C, id, record
  <2> QED
    <3>1. /\ st1.types \in Seq(C) /\ Len(st1.types) = id /\ Len(st1.types) >= 5
          /\ st1.diagnostics \in Seq([message : Messages, at : DOMAIN program])
          /\ id \in 1..Len(st1.types)
      BY <2>2, <2>3, <2>5 DEF st1
    <3>2. \A i \in DOMAIN recs : recs[i].type_id \in 1..Len(st1.types)
      BY <2>4, <3>1
    <3>3. \A v \in 1..Len(vs) : vs[v].payload \in Seq(ToSet(vs[v].payload))
      BY <2>6 DEF vs
    <3>4. SoFar(recs, r, st1, vs, Len(vs), DeclareVariants(recs, r, id, st1, vs))
      BY <2>4, <2>7, <3>1, <3>2, <3>3, AllVariants
    <3> QED
      BY <3>4 DEF st1, vs
<1>5. /\ \E fns \in Seq(FunctionsAndLists(1..Len(types'))) : types' = st(b).types \o fns
      /\ DOMAIN scope' = DOMAIN scope \cup {d.variants[j].name : j \in 1..n}
      /\ \A m \in DOMAIN scope : scope'[m] = scope[m]
      /\ \A m \in DOMAIN scope' : m \notin DOMAIN scope =>
           scope'[m] \in ConstructorEntry(Len(types'), r)
  <2> HIDE DEF built, recs, r
  <2> QED
    BY <1>1, <1>4 DEF SoFar
<1>6. DOMAIN d.variants = 1..n /\ r = Pointer(b, Len(records) + 1)
  BY <1>3 DEF NewRecord
<1>7. VariantNames(next) = {d.variants[j].name : j \in 1..n}
  BY <1>6 DEF VariantNames
<1>8. PICK new \in Seq(NewReports) :
        /\ s.diagnostics = diagnostics \o new
        /\ UnknownError \in ToSet(new) <=>
             \E j \in 1..n : \E name \in ToSet(d.variants[j].payload) : IsUnknown(recs, name)
        /\ \A j \in 1..n : d.variants[j].name \in DOMAIN scope => TakenError \in ToSet(new)
  <2> HIDE DEF built, recs, r
  <2> QED
    BY <1>4 DEF SoFar
<1> DEFINE last == IF d.kind = "tuple" THEN TupleWarnings(d.fields) ELSE <<>>
           all == new \o last
<1>9. last \in Seq(NewReports) /\ UnknownError \notin ToSet(last)
  <2>1. CASE d.kind = "tuple"
    BY <1>3, <2>1, Warnings
  <2>2. CASE d.kind # "tuple"
    <3>1. last = <<>>
      BY <2>2
    <3> HIDE DEF last
    <3> QED
      BY <3>1 DEF ToSet
  <2> QED
    BY <2>1, <2>2
<1> HIDE DEF last
<1>10. all \in Seq(NewReports) /\ ToSet(all) = ToSet(new) \cup ToSet(last)
  BY <1>9, Concatenated, ConcatenatedSet
<1>11. diagnostics' = diagnostics \o all
  <2> DEFINE D == [message : Messages, at : DOMAIN program]
             U == NewReports \cup D
  <2>1. diagnostics \in Seq(U)
    <3>1. diagnostics \in Seq(D)
      BY DEF RegistryTypeOK
    <3> HIDE DEF D
    <3> QED
      BY <3>1
  <2>4. new \in Seq(U) /\ last \in Seq(U)
    BY <1>9
  <2> HIDE DEF U
  <2>2. (diagnostics \o new) \o last = diagnostics \o (new \o last)
    BY ONLY <2>1, <2>4
  <2>3. diagnostics' = s.diagnostics \o last
    BY <1>1 DEF last
  <2> HIDE DEF s
  <2> QED
    BY <1>8, <2>2, <2>3
<1> HIDE DEF all, recs, built
<1>12. UnknownError \in ToSet(all) <=>
         \E v \in ToSet(d.variants) : \E name \in ToSet(v.payload) : IsUnknown(records', name)
  <2>1. ToSet(d.variants) = {d.variants[j] : j \in 1..n}
    BY <1>6 DEF ToSet
  <2>2. records' = recs
    BY <1>1
  <2> HIDE DEF d, n
  <2> QED
    BY <1>8, <1>9, <1>10, <2>1, <2>2
<1>13. \A name \in VariantNames(next) : name \in DOMAIN scope => TakenError \in ToSet(all)
  BY <1>7, <1>8, <1>10
<1>14. records' = Append(records, [name |-> d.name, type_id |-> Len(types) + 1,
                                   variants |-> d.variants])
  BY <1>1 DEF recs
<1>15. \E fns \in Seq(FunctionsAndLists(1..Len(types'))) :
         types' = Append(types, [kind |-> "custom", record |-> Pointer(b, Len(records) + 1)]) \o fns
  BY <1>5, <1>6
<1>16. /\ DOMAIN scope' = DOMAIN scope \cup VariantNames(next)
       /\ \A m \in DOMAIN scope : scope'[m] = scope[m]
       /\ \A m \in DOMAIN scope' : m \notin DOMAIN scope =>
            scope'[m] \in ConstructorEntry(Len(types'), Pointer(b, Len(records) + 1))
  BY <1>5, <1>6, <1>7
<1>17. b \in Blocks /\ block' = b
  BY <1>1
<1> QED
  BY <1>2, <1>10, <1>11, <1>12, <1>13, <1>14, <1>15, <1>16, <1>17 DEF RegisteredIn

-----------------------------------------------------------------------------
(* The inductive invariant.  Besides the properties it says, of the types  *)
(* declared so far, what they look like at the end of the first pass.      *)

\* the types that are in the tables
DeclaredTypes == {t \in DOMAIN program : IsType(t) /\ (pass = "types" => t < next)}

\* a type's pointer leads to a record of that type, a constructor's to a record
\* with it
PointersInv ==
  /\ \A id \in DOMAIN types : types[id].kind = "custom" =>
       records[types[id].record.index].type_id = id
  /\ \A n \in DOMAIN scope : scope[n].record # None =>
       \E v \in ToSet(records[scope[n].record.index].variants) : v.name = n

\* no array without a block; a record and its type lead to each other; a name
\* is on record exactly if it is declared, the first record being the first type
RecordsInv ==
  /\ capacity # 0 => block >= 1
  /\ \A i \in DOMAIN records :
       /\ types[records[i].type_id].kind = "custom"
       /\ types[records[i].type_id].record.index = i
       /\ \E t \in DeclaredTypes : records[i].name = program[t].name
  /\ \A t \in DeclaredTypes :
       LET named == NamedRecords(records, program[t].name)
       IN /\ named # {}
          /\ FirstNamed(t) => records[Min(named)].variants = program[t].variants

\* the constructors declared so far are in scope, in the first pass nothing else
ScopeInv ==
  /\ \A t \in DeclaredTypes : \A name \in VariantNames(t) :
       /\ name \in DOMAIN scope
       /\ IF \A c \in 1..(t - 1) : IsType(c) => name \notin VariantNames(c)
          THEN /\ scope[name].record # None
               /\ records[scope[name].record.index].variants = program[t].variants
          ELSE Reports("symbol already defined in scope", t)
  /\ pass = "types" => \A n \in DOMAIN scope : \E t \in DeclaredTypes : n \in VariantNames(t)

\* a payload names what is not declared by then
NamesUnknown(t) ==
  \E v \in ToSet(program[t].variants) : \E name \in ToSet(v.payload) :
    /\ name \notin {None} \cup DOMAIN BuiltInNames
    /\ ~\E c \in 1..t : IsType(c) /\ program[c].name = name

\* nothing is reported of a type before its turn
ReportsInv ==
  /\ pass = "types" => \A i \in DOMAIN diagnostics : diagnostics[i].at < next
  /\ \A t \in DeclaredTypes : Reports("unknown type name", t) <=> NamesUnknown(t)

RegistryInv ==
  /\ ProgramOK /\ RegistryTypeOK /\ Len(types) >= 5
  /\ PointersInv /\ RecordsInv /\ ScopeInv /\ ReportsInv
\* From a type to its members: what a type is, given the types and the pointers.
TypeSet(ids, pointers) ==
  ToSet(BuiltIn) \cup FunctionsAndLists(ids) \cup [kind : {"custom"}, record : pointers]

LEMMA TypeSetGrows ==
  ASSUME NEW ids, NEW more, ids \subseteq more, NEW pointers, NEW pointers2,
         pointers \subseteq pointers2
  PROVE  TypeSet(ids, pointers) \subseteq TypeSet(more, pointers2)
<1>1. Seq(ids) \subseteq Seq(more)
  OBVIOUS
<1>2. FunctionsAndLists(ids) \subseteq FunctionsAndLists(more)
  BY <1>1 DEF FunctionsAndLists
<1>3. [kind : {"custom"}, record : pointers] \subseteq [kind : {"custom"}, record : pointers2]
  OBVIOUS
<1> QED
  BY <1>2, <1>3 DEF TypeSet

\* Only custom types have that kind.
LEMMA Kinds ==
  ASSUME NEW ids, NEW pointers, NEW t \in TypeSet(ids, pointers)
  PROVE  /\ t.kind = "custom" => t.record \in pointers
         /\ t \in FunctionsAndLists(ids) => t.kind # "custom"
<1>1. \A i \in 1..5 : BuiltIn[i].kind # "custom"
  BY DEF BuiltIn
<1>2. DOMAIN BuiltIn = 1..5
  BY DEF BuiltIn
<1>3. \A x \in ToSet(BuiltIn) : x.kind # "custom"
  BY <1>1, <1>2 DEF ToSet
<1>4. \A x \in FunctionsAndLists(ids) : x.kind # "custom"
  BY DEF FunctionsAndLists
<1> QED
  BY <1>3, <1>4 DEF TypeSet

\* The least number stays the least when greater ones join.
LEMMA LeastKept ==
  ASSUME NEW T \in SUBSET Nat, T # {}, NEW V \in SUBSET Nat, T \subseteq V,
         \A v \in V \ T : \A t \in T : t < v
  PROVE  Min(V) = Min(T)
<1>1. Min(T) \in T /\ \A k \in T : Min(T) <= k
  BY Least
<1>2. Min(V) \in V /\ \A k \in V : Min(V) <= k
  BY Least
<1>3. Min(V) <= Min(T) /\ Min(V) \in Nat /\ Min(T) \in Nat
  BY <1>1, <1>2
<1>4. Min(V) \in T
  BY <1>1, <1>2, <1>3
<1>5. Min(T) <= Min(V)
  BY <1>1, <1>4
<1> QED
  BY <1>3, <1>5

\* A sequence with items after it: the old ones stay in their places.
LEMMA Appended ==
  ASSUME NEW S, NEW s \in Seq(S), NEW x \in S
  PROVE  /\ Append(s, x) \in Seq(S) /\ Len(Append(s, x)) = Len(s) + 1
         /\ DOMAIN Append(s, x) = DOMAIN s \cup {Len(s) + 1}
         /\ \A i \in DOMAIN s : Append(s, x)[i] = s[i]
         /\ Append(s, x)[Len(s) + 1] = x
  OBVIOUS

\* The array of records and the pool after a type is registered.
LEMMA NewRecords ==
  ASSUME RegistryTypeOK, NEW b, RegisteredIn(b)
  PROVE  /\ Len(records') = Len(records) + 1
         /\ DOMAIN records' = DOMAIN records \cup {Len(records) + 1}
         /\ \A i \in DOMAIN records : records'[i] = records[i]
         /\ records'[Len(records) + 1] =
              [name |-> program[next].name, type_id |-> Len(types) + 1,
               variants |-> program[next].variants]
<1> DEFINE x == [name |-> program[next].name, type_id |-> Len(types) + 1,
                 variants |-> program[next].variants]
           X == ToSet(records) \cup {x}
<1>1. records' = Append(records, x)
  BY DEF RegisteredIn
<1>2. records \in Seq(X) /\ x \in X
  BY TypesPool
<1> HIDE DEF x, X
<1>3. /\ Len(records') = Len(records) + 1
      /\ DOMAIN records' = DOMAIN records \cup {Len(records) + 1}
      /\ \A i \in DOMAIN records : records'[i] = records[i]
      /\ records'[Len(records) + 1] = x
  BY <1>1, <1>2, Appended
<1> QED
  BY <1>3 DEF x

LEMMA NewTypes ==
  ASSUME RegistryTypeOK, NEW b, RegisteredIn(b)
  PROVE  /\ types' \in Seq(ToSet(types) \cup FunctionsAndLists(1..Len(types'))
                             \cup [kind : {"custom"}, record : {Pointer(b, Len(records) + 1)}])
         /\ Len(types') >= Len(types) + 1
         /\ \A id \in DOMAIN types : id \in DOMAIN types' /\ types'[id] = types[id]
         /\ Len(types) + 1 \in DOMAIN types'
         /\ types'[Len(types) + 1] = [kind |-> "custom", record |-> Pointer(b, Len(records) + 1)]
         /\ \A id \in DOMAIN types' : id > Len(types) + 1 =>
              types'[id] \in FunctionsAndLists(1..Len(types'))
<1> DEFINE x == [kind |-> "custom", record |-> Pointer(b, Len(records) + 1)]
           F == FunctionsAndLists(1..Len(types'))
           U == ToSet(types) \cup F
                  \cup [kind : {"custom"}, record : {Pointer(b, Len(records) + 1)}]
<1>1. PICK fns \in Seq(F) : types' = Append(types, x) \o fns
  BY DEF RegisteredIn
<1>2. types \in Seq(ToSet(types)) /\ DOMAIN types = 1..Len(types) /\ Len(types) \in Nat
  BY TypesPool, InItsSet
<1>3. x \in U /\ F \subseteq U /\ ToSet(types) \subseteq U
  OBVIOUS
<1> HIDE DEF x, F, U
<1>4. types \in Seq(U) /\ fns \in Seq(U)
  BY <1>2, <1>3
<1> DEFINE s == Append(types, x)
<1>5. /\ s \in Seq(U) /\ Len(s) = Len(types) + 1
      /\ DOMAIN s = DOMAIN types \cup {Len(types) + 1}
      /\ \A i \in DOMAIN types : s[i] = types[i]
      /\ s[Len(types) + 1] = x
  BY <1>3, <1>4, Appended
<1> HIDE DEF s
<1>6. types' = s \o fns
  BY <1>1 DEF s
<1>7. /\ types' \in Seq(U) /\ Len(types') = Len(s) + Len(fns)
      /\ \A i \in DOMAIN s : i \in DOMAIN types' /\ types'[i] = s[i]
      /\ \A i \in DOMAIN types' : i \notin DOMAIN s =>
           i - Len(s) \in DOMAIN fns /\ types'[i] = fns[i - Len(s)]
  BY <1>4, <1>5, <1>6, Concatenated
<1>8. ASSUME NEW i \in DOMAIN types', i > Len(types) + 1 PROVE types'[i] \in F
  <2>1. i \notin DOMAIN s
    BY <1>2, <1>5, <1>8
  <2>2. i - Len(s) \in DOMAIN fns /\ types'[i] = fns[i - Len(s)]
    BY <1>7, <2>1
  <2> QED
    BY <2>2
<1>9. Len(types') >= Len(types) + 1
  BY <1>2, <1>5, <1>7
<1> QED
  BY <1>5, <1>7, <1>8, <1>9 DEF x, F, U

-----------------------------------------------------------------------------
(* Registering a type keeps the invariant.                                 *)

\* The array grows in time, and a block that was allocated stays allocated.
LEMMA NewBlock ==
  ASSUME RegistryTypeOK, capacity # 0 => block >= 1, NEW b, RegisteredIn(b)
  PROVE  /\ block' = b /\ b \in Nat /\ b >= 1 /\ b >= block
         /\ capacity' \in Nat /\ capacity' # 0 /\ Len(records) + 1 <= capacity'
<1>1. b \in Blocks /\ block' = b /\ capacity' = NewCapacity
  BY DEF RegisteredIn
<1>2. Len(records) \in Nat /\ capacity \in Nat /\ block \in Nat /\ Len(records) <= capacity
  BY TypesPool DEF RegistryTypeOK
<1>3. b \in Nat /\ b >= 1 /\ b >= block
  <2>1. b = block \/ b = block + 1
    BY <1>1 DEF Blocks
  <2>2. capacity = 0 => b = block + 1
    BY <1>1, <1>2 DEF Blocks
  <2> QED
    BY <1>2, <2>1, <2>2
<1>4. capacity' \in Nat /\ capacity' # 0 /\ Len(records) + 1 <= capacity'
  BY <1>1, <1>2, CapacityAssumption DEF NewCapacity
<1> QED
  BY <1>1, <1>3, <1>4

LEMMA RegisteredTypeOK ==
  ASSUME ProgramOK, RegistryTypeOK, capacity # 0 => block >= 1, NEW b, RegisteredIn(b)
  PROVE  RegistryTypeOK'
<1> DEFINE n == Len(records) + 1
           m == Len(types')
<1>1. /\ pass = "types" /\ next \in DOMAIN program /\ IsType(next)
      /\ next' = next + 1 /\ program' = program /\ pass' = pass
  BY DEF RegisteredIn
<1>2. /\ Len(records) \in Nat /\ DOMAIN records = 1..Len(records)
      /\ Len(types) \in Nat /\ DOMAIN types = 1..Len(types)
  BY TypesPool
<1>3. /\ DOMAIN types' = 1..m /\ m \in Nat /\ Len(types) + 1 <= m
      /\ DOMAIN types \subseteq DOMAIN types' /\ Len(types) + 1 \in DOMAIN types'
  <2>1. PICK U : types' \in Seq(U)
    BY NewTypes
  <2>2. DOMAIN types' = 1..m /\ m \in Nat
    BY <2>1
  <2>3. /\ Len(types) + 1 <= m /\ Len(types) + 1 \in DOMAIN types'
        /\ \A id \in DOMAIN types : id \in DOMAIN types'
    BY NewTypes
  <2> HIDE DEF m
  <2> QED
    BY <2>2, <2>3
<1>4. DOMAIN records' = DOMAIN records \cup {n} /\ Len(records') = n
  BY NewRecords
<1>5. Pointers \subseteq Pointers' /\ Pointer(b, n) \in Pointers'
  <2>1. block' = b /\ b \in Nat /\ b >= 1 /\ b >= block /\ block \in Nat
    BY NewBlock DEF RegistryTypeOK
  <2>2. 1..block \subseteq 1..b /\ b \in 1..b
    BY <2>1
  <2> QED
    BY <1>4, <2>1, <2>2 DEF Pointers, Pointer
<1>6. types' \in Seq(TypeSet(DOMAIN types', Pointers'))
  <2> DEFINE new == [kind : {"custom"}, record : {Pointer(b, n)}]
  <2>1. types' \in Seq(ToSet(types) \cup FunctionsAndLists(1..m) \cup new)
    BY NewTypes
  <2>2. ToSet(types) \subseteq TypeSet(DOMAIN types', Pointers')
    <3>1. types \in Seq(TypeSet(DOMAIN types, Pointers))
      BY DEF RegistryTypeOK, TypeSet
    <3>2. ToSet(types) \subseteq TypeSet(DOMAIN types, Pointers)
      BY <3>1, InItsSet
    <3> QED
      BY <1>3, <1>5, <3>2, TypeSetGrows
  <2>3. FunctionsAndLists(1..m) \subseteq TypeSet(DOMAIN types', Pointers')
    BY <1>3 DEF TypeSet
  <2>4. new \subseteq TypeSet(DOMAIN types', Pointers')
    BY <1>5 DEF TypeSet
  <2> HIDE DEF new, m
  <2> QED
    BY <2>1, <2>2, <2>3, <2>4
<1>7. records' \in Seq(UNION {[name : {d.name}, type_id : DOMAIN types', variants : {d.variants}] :
                              d \in {program[t] : t \in {t \in DOMAIN program : IsType(t)}}})
  <2> DEFINE Ds == {program[t] : t \in {t \in DOMAIN program : IsType(t)}}
             R(ids) == UNION {[name : {d.name}, type_id : ids, variants : {d.variants}] : d \in Ds}
             x == [name |-> program[next].name, type_id |-> Len(types) + 1,
                   variants |-> program[next].variants]
  <2>1. records \in Seq(R(DOMAIN types))
    BY DEF RegistryTypeOK
  <2>2. R(DOMAIN types) \subseteq R(DOMAIN types')
    BY <1>3
  <2>3. program[next] \in Ds
    BY <1>1
  <2>4. x \in R(DOMAIN types')
    BY <1>3, <2>3
  <2>5. records' = Append(records, x)
    BY DEF RegisteredIn
  <2> HIDE DEF R, x
  <2>6. records \in Seq(R(DOMAIN types'))
    BY <2>1, <2>2
  <2>7. records' \in Seq(R(DOMAIN types'))
    BY <2>4, <2>5, <2>6, Appended
  <2> QED
    BY <2>7 DEF R
<1>8. capacity' \in Nat /\ block' \in Nat /\ Len(records') <= capacity'
  BY <1>4, NewBlock
<1>9. \A k \in DOMAIN scope' :
        scope'[k] \in [type : DOMAIN types', effects : SUBSET EffectMarks,
                       record : {None} \cup Pointers']
  <2> TAKE k \in DOMAIN scope'
  <2>1. CASE k \in DOMAIN scope
    <3>1. scope'[k] = scope[k]
      BY <2>1 DEF RegisteredIn
    <3>2. scope[k] \in [type : DOMAIN types, effects : SUBSET EffectMarks,
                        record : {None} \cup Pointers]
      BY <2>1 DEF RegistryTypeOK
    <3> QED
      BY <1>3, <1>5, <3>1, <3>2
  <2>2. CASE k \notin DOMAIN scope
    <3>1. scope'[k] \in ConstructorEntry(m, Pointer(b, n))
      BY <2>2 DEF RegisteredIn
    <3> QED
      BY <1>3, <1>5, <3>1 DEF ConstructorEntry
  <2> QED
    BY <2>1, <2>2
<1>10. diagnostics' \in Seq([message : Messages, at : DOMAIN program])
  <2> DEFINE E == [message : Messages, at : DOMAIN program]
  <2>1. PICK new \in Seq(NewReports) : diagnostics' = diagnostics \o new
    BY DEF RegisteredIn
  <2>2. NewReports \subseteq E /\ diagnostics \in Seq(E)
    BY <1>1 DEF NewReports, RegistryTypeOK
  <2> HIDE DEF E
  <2>3. new \in Seq(E) /\ diagnostics \in Seq(E)
    BY <2>2
  <2>4. diagnostics' \in Seq(E)
    BY <2>1, <2>3, Concatenated
  <2> QED
    BY <2>4 DEF E
<1>11. next' \in 1..(Len(program) + 1) /\ pass' \in {"types", "functions", "done", "crashed"}
  <2>1. DOMAIN program = 1..Len(program) /\ Len(program) \in Nat
    BY DEF ProgramOK
  <2> QED
    BY <1>1, <2>1
<1>12. {program'[t] : t \in {t \in DOMAIN program' : IsType(t)'}} =
       {program[t] : t \in {t \in DOMAIN program : IsType(t)}}
  BY <1>1 DEF IsType
<1> HIDE DEF m, n
<1> QED
  BY <1>1, <1>6, <1>7, <1>8, <1>9, <1>10, <1>11, <1>12 DEF RegistryTypeOK, TypeSet

\* The pointers of the pool and the scope lead to records.
LEMMA PointersLead ==
  ASSUME RegistryTypeOK
  PROVE  /\ \A id \in DOMAIN types : types[id].kind = "custom" =>
              types[id].record \in Pointers /\ types[id].record.index \in DOMAIN records
         /\ \A n \in DOMAIN scope : scope[n].record # None =>
              scope[n].record \in Pointers /\ scope[n].record.index \in DOMAIN records
<1>1. ASSUME NEW id \in DOMAIN types, types[id].kind = "custom"
      PROVE  types[id].record \in Pointers
  <2>1. types \in Seq(TypeSet(DOMAIN types, Pointers))
    BY DEF RegistryTypeOK, TypeSet
  <2>2. types[id] \in TypeSet(DOMAIN types, Pointers)
    BY <2>1
  <2> QED
    BY <1>1, <2>2, Kinds
<1>2. ASSUME NEW n \in DOMAIN scope, scope[n].record # None PROVE scope[n].record \in Pointers
  BY <1>2 DEF RegistryTypeOK
<1>3. \A p \in Pointers : p.index \in DOMAIN records
  BY DEF Pointers
<1> QED
  BY <1>1, <1>2, <1>3

LEMMA NowDeclared ==
  ASSUME ProgramOK, NEW b, RegisteredIn(b)
  PROVE  /\ next \in Nat /\ next \notin DeclaredTypes /\ IsType(next) /\ next \in DOMAIN program
         /\ DeclaredTypes' = DeclaredTypes \cup {next}
         /\ \A t \in DeclaredTypes : t \in DOMAIN program /\ t \in Nat /\ t < next /\ IsType(t)
         /\ \A c \in 1..(next - 1) : IsType(c) => c \in DeclaredTypes
<1>1. /\ pass = "types" /\ next \in DOMAIN program /\ IsType(next)
      /\ next' = next + 1 /\ program' = program /\ pass' = pass
  BY DEF RegisteredIn
<1>2. DOMAIN program = 1..Len(program) /\ Len(program) \in Nat
  BY DEF ProgramOK
<1>3. DeclaredTypes = {t \in 1..Len(program) : IsType(t) /\ t < next}
  BY <1>1, <1>2 DEF DeclaredTypes
<1>4. DeclaredTypes' = {t \in 1..Len(program) : IsType(t) /\ t < next + 1}
  BY <1>1, <1>2 DEF DeclaredTypes, IsType
<1>5. next \in 1..Len(program) /\ next \in Nat
  BY <1>1, <1>2
<1>6. DeclaredTypes' = DeclaredTypes \cup {next}
  BY <1>1, <1>3, <1>4, <1>5
<1> QED
  BY <1>1, <1>2, <1>3, <1>5, <1>6

LEMMA RegisteredPointers ==
  ASSUME RegistryTypeOK, PointersInv, NEW b, RegisteredIn(b)
  PROVE  PointersInv'
<1> DEFINE n == Len(records) + 1
           m == Len(types) + 1
<1>1. /\ records'[n].type_id = m /\ records'[n].variants = program[next].variants
      /\ \A i \in DOMAIN records : records'[i] = records[i]
  BY NewRecords
<1>2. ASSUME NEW id \in DOMAIN types', types'[id].kind = "custom"
      PROVE  records'[types'[id].record.index].type_id = id
  <2>0. DOMAIN types = 1..Len(types) /\ Len(types) \in Nat /\ id \in Nat
    <3>1. PICK U : types' \in Seq(U)
      BY NewTypes
    <3> QED
      BY <3>1, TypesPool
  <2>1. CASE id \in DOMAIN types
    <3>1. types'[id] = types[id]
      BY <2>1, NewTypes
    <3>2. types[id].record.index \in DOMAIN records
      BY <1>2, <2>1, <3>1, PointersLead
    <3> QED
      BY <1>1, <1>2, <2>1, <3>1, <3>2 DEF PointersInv
  <2>2. CASE id = m
    <3>1. types'[id].record.index = n
      <4>1. types'[m] = [kind |-> "custom", record |-> Pointer(b, n)]
        BY NewTypes
      <4> QED
        BY <2>2, <4>1 DEF Pointer
    <3> QED
      BY <1>1, <2>2, <3>1
  <2>3. CASE id > m
    <3>1. types'[id] \in FunctionsAndLists(1..Len(types'))
      BY <2>3, NewTypes
    <3>2. types'[id] \in TypeSet(1..Len(types'), {})
      BY <3>1 DEF TypeSet
    <3> QED
      BY <1>2, <3>1, <3>2, Kinds
  <2> QED
    BY <2>0, <2>1, <2>2, <2>3
<1>3. ASSUME NEW k \in DOMAIN scope', scope'[k].record # None
      PROVE  \E v \in ToSet(records'[scope'[k].record.index].variants) : v.name = k
  <2>1. CASE k \in DOMAIN scope
    <3>1. scope'[k] = scope[k]
      BY <2>1 DEF RegisteredIn
    <3>2. scope[k].record.index \in DOMAIN records
      BY <1>3, <2>1, <3>1, PointersLead
    <3>3. records'[scope[k].record.index] = records[scope[k].record.index]
      BY <1>1, <3>2
    <3> QED
      BY <1>3, <2>1, <3>1, <3>3 DEF PointersInv
  <2>2. CASE k \notin DOMAIN scope
    <3>1. scope'[k].record.index = n
      BY <2>2 DEF RegisteredIn, ConstructorEntry, Pointer
    <3>2. k \in VariantNames(next)
      BY <2>2 DEF RegisteredIn
    <3>3. \E v \in ToSet(program[next].variants) : v.name = k
      BY <3>2 DEF VariantNames, ToSet
    <3> QED
      BY <1>1, <3>1, <3>3
  <2> QED
    BY <2>1, <2>2
<1> QED
  BY <1>2, <1>3 DEF PointersInv

LEMMA RegisteredRecords ==
  ASSUME ProgramOK, RegistryTypeOK, RecordsInv, NEW b, RegisteredIn(b)
  PROVE  RecordsInv'
<1> DEFINE n == Len(records) + 1
           m == Len(types) + 1
           Named(name) == NamedRecords(records, name)
           NamedNow(name) == NamedRecords(records', name)
<1>1. /\ records'[n].type_id = m /\ records'[n].variants = program[next].variants
      /\ records'[n].name = program[next].name
      /\ DOMAIN records' = DOMAIN records \cup {n}
      /\ \A i \in DOMAIN records : records'[i] = records[i]
  <2>1. records'[n] = [name |-> program[next].name, type_id |-> m,
                       variants |-> program[next].variants]
    BY NewRecords
  <2>2. /\ DOMAIN records' = DOMAIN records \cup {n}
        /\ \A i \in DOMAIN records : records'[i] = records[i]
    BY NewRecords
  <2> QED
    BY <2>1, <2>2
<1>2. /\ DOMAIN records = 1..Len(records) /\ Len(records) \in Nat
      /\ \A i \in DOMAIN records : records[i].type_id \in DOMAIN types
  BY TypesPool
<1>3. program' = program
  BY DEF RegisteredIn
<1>4. capacity' # 0 => block' >= 1
  BY NewBlock DEF RecordsInv
<1>5. ASSUME NEW i \in DOMAIN records'
      PROVE  /\ types'[records'[i].type_id].kind = "custom"
             /\ types'[records'[i].type_id].record.index = i
             /\ \E t \in DeclaredTypes' : records'[i].name = program'[t].name
  <2>1. CASE i \in DOMAIN records
    <3>1. records'[i] = records[i] /\ records[i].type_id \in DOMAIN types
      BY <1>1, <1>2, <2>1
    <3>2. types'[records[i].type_id] = types[records[i].type_id]
      BY <3>1, NewTypes
    <3> QED
      BY <1>3, <2>1, <3>1, <3>2, NowDeclared DEF RecordsInv
  <2>2. CASE i = n
    <3>1. types'[m] = [kind |-> "custom", record |-> Pointer(b, n)]
      BY NewTypes
    <3>2. types'[m].kind = "custom" /\ types'[m].record.index = n
      BY <3>1 DEF Pointer
    <3> QED
      BY <1>1, <1>3, <2>2, <3>2, NowDeclared
  <2> QED
    BY <1>1, <2>1, <2>2
<1>6. \A name : /\ NamedNow(name) = Named(name) \cup IF name = program[next].name THEN {n} ELSE {}
                /\ Named(name) \in SUBSET Nat /\ NamedNow(name) \in SUBSET Nat
                /\ \A v \in NamedNow(name) \ Named(name) : \A t \in Named(name) : t < v
  <2> TAKE name
  <2>1. NamedNow(name) = Named(name) \cup IF name = program[next].name THEN {n} ELSE {}
    BY <1>1 DEF NamedRecords
  <2>2. Named(name) \subseteq 1..Len(records)
    BY <1>2 DEF NamedRecords
  <2> HIDE DEF Named, NamedNow
  <2> QED
    BY <1>2, <2>1, <2>2
<1>7. ASSUME NEW t \in DeclaredTypes'
      PROVE  /\ NamedNow(program[t].name) # {}
             /\ FirstNamed(t) =>
                  records'[Min(NamedNow(program[t].name))].variants = program[t].variants
  <2>1. CASE t \in DeclaredTypes
    <3>1. /\ Named(program[t].name) # {}
          /\ FirstNamed(t) =>
               records[Min(Named(program[t].name))].variants = program[t].variants
      BY <2>1 DEF RecordsInv
    <3> HIDE DEF Named, NamedNow
    <3>2. Min(NamedNow(program[t].name)) = Min(Named(program[t].name))
      BY <1>6, <3>1, LeastKept
    <3>3. Min(Named(program[t].name)) \in Named(program[t].name)
      BY <1>6, <3>1, Least
    <3>4. Min(Named(program[t].name)) \in DOMAIN records
      BY <3>3 DEF Named, NamedRecords
    <3> QED
      BY <1>1, <1>6, <3>1, <3>2, <3>4
  <2>2. CASE t = next
    <3>1. n \in NamedNow(program[t].name)
      <4> HIDE DEF Named, NamedNow
      <4> QED
        BY <1>6, <2>2
    <3>2. FirstNamed(t) => Named(program[t].name) = {}
      <4> SUFFICES ASSUME FirstNamed(t), NEW i \in DOMAIN records,
                          records[i].name = program[t].name
                   PROVE  FALSE
        BY DEF NamedRecords
      <4>1. PICK c \in DeclaredTypes : records[i].name = program[c].name
        BY DEF RecordsInv
      <4>2. c \in 1..(next - 1) /\ IsType(c)
        BY NowDeclared DEF ProgramOK
      <4> QED
        BY <2>2, <4>1, <4>2 DEF FirstNamed
    <3> HIDE DEF Named, NamedNow
    <3>3. FirstNamed(t) => Min(NamedNow(program[t].name)) = n
      <4> SUFFICES ASSUME FirstNamed(t) PROVE Min(NamedNow(program[t].name)) = n
        OBVIOUS
      <4>1. NamedNow(program[t].name) = {n}
        BY <1>6, <2>2, <3>2
      <4>2. Min(NamedNow(program[t].name)) \in NamedNow(program[t].name)
        BY <1>6, <3>1, Least
      <4> QED
        BY <4>1, <4>2
    <3> QED
      BY <1>1, <2>2, <3>1, <3>3
  <2> QED
    BY <2>1, <2>2, NowDeclared
<1>8. \A t : FirstNamed(t)' = FirstNamed(t)
  BY <1>3 DEF FirstNamed, IsType
<1> QED
  BY <1>3, <1>4, <1>5, <1>7, <1>8 DEF RecordsInv

\* Which names are declared does not change what a declaration contains.
LEMMA SameProgram ==
  ASSUME program' = program
  PROVE  /\ \A t : IsType(t)' = IsType(t) /\ VariantNames(t)' = VariantNames(t)
         /\ \A t : FirstNamed(t)' = FirstNamed(t) /\ NamesUnknown(t)' = NamesUnknown(t)
<1>1. ASSUME NEW t PROVE IsType(t)' = IsType(t) /\ VariantNames(t)' = VariantNames(t)
  BY DEF IsType, VariantNames
<1>2. ASSUME NEW t PROVE FirstNamed(t)' = FirstNamed(t)
  BY DEF IsType, FirstNamed
<1>3. ASSUME NEW t PROVE NamesUnknown(t)' = NamesUnknown(t)
  BY DEF IsType, NamesUnknown
<1> QED
  BY <1>1, <1>2, <1>3

\* What is reported once stays reported; of the earlier types nothing is added.
LEMMA RegisteredReports ==
  ASSUME ProgramOK, RegistryTypeOK, NEW b, RegisteredIn(b),
         \A i \in DOMAIN diagnostics : diagnostics[i].at < next
  PROVE  /\ \A i \in DOMAIN diagnostics' : diagnostics'[i].at < next'
         /\ \A t \in DeclaredTypes : \A message : Reports(message, t)' <=> Reports(message, t)
         /\ \A t : t = next =>
              /\ Reports("unknown type name", t)' <=>
                   \E v \in ToSet(program[t].variants) : \E name \in ToSet(v.payload) :
                     IsUnknown(records', name)
              /\ \A name \in VariantNames(t) :
                   name \in DOMAIN scope => Reports("symbol already defined in scope", t)'
<1> DEFINE D == [message : Messages, at : DOMAIN program]
           U == D \cup NewReports
<1>1. PICK new \in Seq(NewReports) :
        /\ diagnostics' = diagnostics \o new
        /\ UnknownError \in ToSet(new) <=>
             \E v \in ToSet(program[next].variants) : \E name \in ToSet(v.payload) :
               IsUnknown(records', name)
        /\ \A name \in VariantNames(next) : name \in DOMAIN scope => TakenError \in ToSet(new)
  BY DEF RegisteredIn
<1>2. diagnostics \in Seq(U) /\ new \in Seq(U) /\ DOMAIN program = 1..Len(program)
  <2>1. diagnostics \in Seq(D)
    BY DEF RegistryTypeOK
  <2> HIDE DEF D
  <2> QED
    BY <2>1 DEF ProgramOK
<1>3. /\ next' = next + 1 /\ next \in Nat
      /\ \A i \in DOMAIN diagnostics : diagnostics[i].at \in Nat
      /\ \A i \in DOMAIN new : new[i].at = next
  <2>1. \A i \in DOMAIN new : new[i] \in NewReports
    OBVIOUS
  <2>2. \A i \in DOMAIN diagnostics : diagnostics[i] \in D
    <3>1. diagnostics \in Seq(D)
      BY DEF RegistryTypeOK
    <3> HIDE DEF D
    <3> QED
      BY <3>1
  <2>3. next' = next + 1 /\ next \in Nat
    BY NowDeclared DEF RegisteredIn
  <2> QED
    BY <1>2, <2>1, <2>2, <2>3 DEF NewReports
<1> HIDE DEF D, U
<1>4. /\ \A i \in DOMAIN diagnostics :
           i \in DOMAIN diagnostics' /\ diagnostics'[i] = diagnostics[i]
      /\ \A i \in DOMAIN new : /\ Len(diagnostics) + i \in DOMAIN diagnostics'
                               /\ diagnostics'[Len(diagnostics) + i] = new[i]
      /\ \A i \in DOMAIN diagnostics' : i \notin DOMAIN diagnostics =>
           i - Len(diagnostics) \in DOMAIN new
             /\ diagnostics'[i] = new[i - Len(diagnostics)]
  BY <1>1, <1>2, Concatenated
<1>5. ASSUME NEW message, NEW t
      PROVE  Reports(message, t)' <=>
               Reports(message, t) \/ \E i \in DOMAIN new : new[i] = Error(message, t)
  BY <1>4 DEF Reports
<1>6. ASSUME NEW message, NEW t, t = next
      PROVE  Reports(message, t)' <=> Error(message, next) \in ToSet(new)
  <2>1. ~Reports(message, t)
    BY <1>3, <1>6 DEF Reports, Error
  <2> QED
    BY <1>5, <1>6, <2>1 DEF ToSet
<1>7. ASSUME NEW message, NEW t \in DeclaredTypes
      PROVE  Reports(message, t)' <=> Reports(message, t)
  <2>1. t < next /\ t \in Nat
    BY NowDeclared
  <2>2. \A i \in DOMAIN new : new[i] # Error(message, t)
    BY <1>3, <2>1 DEF Error
  <2> QED
    BY <1>5, <2>2
<1>8. \A i \in DOMAIN diagnostics' : diagnostics'[i].at < next'
  BY <1>3, <1>4
<1> QED
  BY <1>1, <1>6, <1>7, <1>8 DEF UnknownError, TakenError

LEMMA RegisteredScope ==
  ASSUME ProgramOK, RegistryTypeOK, ScopeInv, NEW b, RegisteredIn(b),
         \A i \in DOMAIN diagnostics : diagnostics[i].at < next
  PROVE  ScopeInv'
<1> DEFINE n == Len(records) + 1
<1>1. /\ records'[n].variants = program[next].variants
      /\ \A i \in DOMAIN records : records'[i] = records[i]
  BY NewRecords
<1>2. /\ pass = "types" /\ pass' = pass /\ program' = program
      /\ DOMAIN scope' = DOMAIN scope \cup VariantNames(next)
      /\ \A m \in DOMAIN scope : scope'[m] = scope[m]
      /\ \A m \in DOMAIN scope' : m \notin DOMAIN scope =>
           scope'[m].record = Pointer(b, n)
  BY DEF RegisteredIn, ConstructorEntry
<1>3. Pointer(b, n) # None /\ Pointer(b, n).index = n
  <2>1. b \in Nat /\ n \in Nat
    <3>1. b \in Blocks
      BY DEF RegisteredIn
    <3> QED
      BY <3>1, TypesPool DEF Blocks, RegistryTypeOK
  <2> QED
    BY <2>1, NoneAssumption DEF Pointer
<1>4. ASSUME NEW t \in DeclaredTypes, NEW name \in VariantNames(t)
      PROVE  /\ name \in DOMAIN scope'
             /\ IF \A c \in 1..(t - 1) : IsType(c) => name \notin VariantNames(c)
                THEN /\ scope'[name].record # None
                     /\ records'[scope'[name].record.index].variants = program[t].variants
                ELSE Reports("symbol already defined in scope", t)'
  <2>1. /\ name \in DOMAIN scope
        /\ IF \A c \in 1..(t - 1) : IsType(c) => name \notin VariantNames(c)
           THEN /\ scope[name].record # None
                /\ records[scope[name].record.index].variants = program[t].variants
           ELSE Reports("symbol already defined in scope", t)
    BY DEF ScopeInv
  <2>2. scope'[name] = scope[name] /\ name \in DOMAIN scope'
    BY <1>2, <2>1
  <2>3. Reports("symbol already defined in scope", t)' <=>
          Reports("symbol already defined in scope", t)
    BY RegisteredReports
  <2>4. scope[name].record # None => scope[name].record.index \in DOMAIN records
    BY <2>1, PointersLead
  <2> QED
    BY <1>1, <2>1, <2>2, <2>3, <2>4
<1>5. ASSUME NEW t, t = next, NEW name \in VariantNames(t)
      PROVE  /\ name \in DOMAIN scope'
             /\ IF \A c \in 1..(t - 1) : IsType(c) => name \notin VariantNames(c)
                THEN /\ scope'[name].record # None
                     /\ records'[scope'[name].record.index].variants = program[t].variants
                ELSE Reports("symbol already defined in scope", t)'
  <2>1. name \in DOMAIN scope'
    BY <1>2, <1>5
  <2>2. CASE \A c \in 1..(t - 1) : IsType(c) => name \notin VariantNames(c)
    <3>1. name \notin DOMAIN scope
      <4> SUFFICES ASSUME name \in DOMAIN scope PROVE FALSE
        OBVIOUS
      <4>1. PICK c \in DeclaredTypes : name \in VariantNames(c)
        BY <1>2 DEF ScopeInv
      <4>2. c \in 1..(next - 1) /\ IsType(c)
        BY NowDeclared DEF ProgramOK
      <4> QED
        BY <1>5, <2>2, <4>1, <4>2
    <3>2. scope'[name].record = Pointer(b, n)
      BY <1>2, <2>1, <3>1
    <3> QED
      BY <1>1, <1>3, <1>5, <2>1, <2>2, <3>2
  <2>3. CASE ~\A c \in 1..(t - 1) : IsType(c) => name \notin VariantNames(c)
    <3>1. PICK c \in 1..(t - 1) : IsType(c) /\ name \in VariantNames(c)
      BY <2>3
    <3>2. c \in DeclaredTypes
      BY <1>5, <3>1, NowDeclared
    <3>3. name \in DOMAIN scope
      BY <3>1, <3>2 DEF ScopeInv
    <3>4. Reports("symbol already defined in scope", t)'
      BY <1>5, <3>3, RegisteredReports
    <3> QED
      BY <2>1, <2>3, <3>4
  <2> QED
    BY <2>2, <2>3
<1>6. ASSUME NEW m \in DOMAIN scope' PROVE \E t \in DeclaredTypes' : m \in VariantNames(t)
  <2>1. CASE m \in DOMAIN scope
    BY <1>2, <2>1, NowDeclared DEF ScopeInv
  <2>2. CASE m \notin DOMAIN scope
    BY <1>2, <2>2, NowDeclared
  <2> QED
    BY <2>1, <2>2
<1>7. \A t \in DeclaredTypes' : t \in DeclaredTypes \/ t = next
  BY NowDeclared
<1>8. \A t : IsType(t)' = IsType(t) /\ VariantNames(t)' = VariantNames(t)
  BY <1>2, SameProgram
<1> HIDE DEF n
<1>9. ASSUME NEW t \in DeclaredTypes', NEW name \in VariantNames(t)
      PROVE  /\ name \in DOMAIN scope'
             /\ IF \A c \in 1..(t - 1) : IsType(c) => name \notin VariantNames(c)
                THEN /\ scope'[name].record # None
                     /\ records'[scope'[name].record.index].variants = program[t].variants
                ELSE Reports("symbol already defined in scope", t)'
  BY <1>4, <1>5, <1>7
<1> QED
  BY <1>2, <1>6, <1>8, <1>9 DEF ScopeInv

LEMMA RegisteredReportsInv ==
  ASSUME ProgramOK, RegistryTypeOK, RecordsInv, ReportsInv, NEW b, RegisteredIn(b)
  PROVE  ReportsInv'
<1>1. pass = "types" /\ program' = program
  BY DEF RegisteredIn
<1>2. \A i \in DOMAIN diagnostics : diagnostics[i].at < next
  BY <1>1 DEF ReportsInv
<1>3. RecordsInv'
  BY RegisteredRecords
<1>4. \A t : NamesUnknown(t)' = NamesUnknown(t)
  BY <1>1, SameProgram
<1>5. ASSUME NEW t \in DeclaredTypes PROVE Reports("unknown type name", t)' <=> NamesUnknown(t)
  BY <1>2, RegisteredReports DEF ReportsInv
<1>6. ASSUME NEW t, t = next PROVE Reports("unknown type name", t)' <=> NamesUnknown(t)
  <2>1. ASSUME NEW name
        PROVE  IsUnknown(records', name) <=>
                 /\ name \notin {None} \cup DOMAIN BuiltInNames
                 /\ ~\E c \in 1..t : IsType(c) /\ program[c].name = name
    <3>1. NamedRecords(records', name) # {} =>
            \E c \in 1..t : IsType(c) /\ program[c].name = name
      <4> SUFFICES ASSUME NEW i \in DOMAIN records', records'[i].name = name
                   PROVE  \E c \in 1..t : IsType(c) /\ program[c].name = name
        BY DEF NamedRecords
      <4>1. PICK c \in DeclaredTypes' : records'[i].name = program[c].name
        BY <1>1, <1>3 DEF RecordsInv
      <4>2. c \in 1..t /\ IsType(c)
        BY <1>6, <4>1, NowDeclared DEF ProgramOK
      <4> QED
        BY <4>1, <4>2
    <3>2. ASSUME NEW c \in 1..t, IsType(c), program[c].name = name
          PROVE  NamedRecords(records', name) # {}
      <4>1. c \in DeclaredTypes'
        <5>1. c = next \/ c \in 1..(next - 1)
          BY <1>6, NowDeclared
        <5> QED
          BY <3>2, <5>1, NowDeclared
      <4>2. NamedRecords(records', program'[c].name) # {}
        BY <1>3, <4>1 DEF RecordsInv
      <4> QED
        BY <1>1, <3>2, <4>2
    <3> QED
      BY <3>1, <3>2 DEF IsUnknown
  <2>2. Reports("unknown type name", t)' <=>
          \E v \in ToSet(program[t].variants) : \E name \in ToSet(v.payload) :
            IsUnknown(records', name)
    BY <1>2, <1>6, RegisteredReports
  <2> QED
    BY <2>1, <2>2 DEF NamesUnknown
<1>7. \A t \in DeclaredTypes' : t \in DeclaredTypes \/ t = next
  BY NowDeclared
<1>8. \A i \in DOMAIN diagnostics' : diagnostics'[i].at < next'
  BY <1>2, RegisteredReports
<1>9. \A t \in DeclaredTypes' : Reports("unknown type name", t)' <=> NamesUnknown(t)'
  BY <1>4, <1>5, <1>6, <1>7
<1> QED
  BY <1>8, <1>9 DEF ReportsInv

LEMMA RegisterTypeKeeps == RegistryInv /\ RegisterType => RegistryInv'
<1> SUFFICES ASSUME RegistryInv, RegisterType PROVE RegistryInv'
  OBVIOUS
<1> USE DEF RegistryInv
<1>1. PICK b : RegisteredIn(b)
  BY Registered
<1>2. \A i \in DOMAIN diagnostics : diagnostics[i].at < next
  BY <1>1 DEF RegisteredIn, ReportsInv
<1>3. ProgramOK'
  BY <1>1 DEF RegisteredIn, ProgramOK
<1>4. RegistryTypeOK'
  BY <1>1, RegisteredTypeOK DEF RecordsInv
<1>5. Len(types') >= 5
  <2>1. PICK U : types' \in Seq(U)
    BY <1>1, NewTypes
  <2>2. Len(types') \in Nat
    BY <2>1
  <2>3. Len(types') >= Len(types) + 1
    BY <1>1, NewTypes
  <2>4. Len(types) \in Nat
    BY TypesPool
  <2> QED
    BY <2>2, <2>3, <2>4
<1>6. PointersInv'
  BY <1>1, RegisteredPointers
<1>7. RecordsInv'
  BY <1>1, RegisteredRecords
<1>8. ScopeInv'
  BY <1>1, <1>2, RegisteredScope
<1>9. ReportsInv'
  BY <1>1, RegisteredReportsInv
<1> QED
  BY <1>3, <1>4, <1>5, <1>6, <1>7, <1>8, <1>9

-----------------------------------------------------------------------------
(* The other steps.                                                        *)

LEMMA SameTablesKeep ==
  ASSUME RegistryInv, UNCHANGED <<program, types, records, capacity, block, scope, diagnostics>>,
         next' \in 1..(Len(program) + 1),
         pass' \in {"types", "functions", "done", "crashed"},
         pass' = "types" => pass = "types" /\ next <= next',
         DeclaredTypes' = DeclaredTypes
  PROVE  RegistryInv'
<1> USE DEF RegistryInv
<1>1. ProgramOK'
  BY DEF ProgramOK
<1>2. Pointers' = Pointers /\ \A t : IsType(t)' = IsType(t)
  BY DEF Pointers, IsType
<1>3. RegistryTypeOK'
  <2>1. RegistryTypeOK
    OBVIOUS
  <2>2. {program'[t] : t \in {t \in DOMAIN program' : IsType(t)'}} =
        {program[t] : t \in {t \in DOMAIN program : IsType(t)}}
    BY <1>2
  <2>3. /\ program' = program /\ types' = types /\ records' = records /\ scope' = scope
        /\ capacity' = capacity /\ block' = block /\ diagnostics' = diagnostics
    OBVIOUS
  <2>4. next' \in 1..(Len(program) + 1) /\ pass' \in {"types", "functions", "done", "crashed"}
    OBVIOUS
  <2> QED
    BY ONLY <1>2, <2>1, <2>2, <2>3, <2>4 DEF RegistryTypeOK
<1>4. PointersInv'
  BY DEF PointersInv
<1>5. /\ \A t : VariantNames(t)' = VariantNames(t) /\ FirstNamed(t)' = FirstNamed(t)
      /\ \A t : NamesUnknown(t)' = NamesUnknown(t)
      /\ \A message, t : Reports(message, t)' = Reports(message, t)
  BY SameProgram DEF Reports
<1>6. RecordsInv'
  BY <1>5 DEF RecordsInv
<1>7. ScopeInv'
  BY <1>2, <1>5 DEF ScopeInv
<1>8. ReportsInv'
  <2>1. pass' = "types" => \A i \in DOMAIN diagnostics : diagnostics[i].at < next'
    <3> SUFFICES ASSUME pass' = "types", NEW i \in DOMAIN diagnostics
                 PROVE  diagnostics[i].at < next'
      OBVIOUS
    <3>1. diagnostics[i].at < next
      BY DEF ReportsInv
    <3>2. diagnostics[i].at \in Nat /\ next \in Nat /\ next' \in Nat
      <4> DEFINE D == [message : Messages, at : DOMAIN program]
      <4>1. diagnostics \in Seq(D)
        BY DEF RegistryTypeOK
      <4> HIDE DEF D
      <4>2. diagnostics[i] \in D
        BY <4>1
      <4>3. diagnostics[i].at \in DOMAIN program
        BY <4>2 DEF D
      <4> QED
        BY <4>3 DEF ProgramOK, RegistryTypeOK
    <3> QED
      BY <3>1, <3>2
  <2>2. \A t \in DeclaredTypes' : Reports("unknown type name", t)' <=> NamesUnknown(t)'
    BY <1>5 DEF ReportsInv
  <2> QED
    BY <2>1, <2>2 DEF ReportsInv
<1> QED
  BY <1>1, <1>3, <1>4, <1>6, <1>7, <1>8

\* The loops go past a declaration of the other kind, or from one to the next.
LEMMA DeclaredStay ==
  ASSUME ProgramOK, RegistryTypeOK, NextDeclaration
  PROVE  /\ DeclaredTypes' = DeclaredTypes
         /\ next' \in 1..(Len(program) + 1)
         /\ pass' \in {"types", "functions", "done", "crashed"}
         /\ pass' = "types" => pass = "types" /\ next <= next'
<1>1. /\ UNCHANGED <<program, types, records, capacity, block, scope, diagnostics>>
      /\ \/ /\ next \in DOMAIN program /\ (pass = "types") # IsType(next)
            /\ next' = next + 1 /\ pass' = pass
         \/ /\ next \notin DOMAIN program /\ pass = "types"
            /\ pass' = "functions" /\ next' = 1
         \/ next \notin DOMAIN program /\ pass = "functions" /\ pass' = "done" /\ next' = next
  BY DEF NextDeclaration
<1>2. /\ DOMAIN program = 1..Len(program) /\ Len(program) \in Nat
      /\ next \in 1..(Len(program) + 1)
      /\ pass \in {"types", "functions", "done", "crashed"}
  BY DEF ProgramOK, RegistryTypeOK
<1>3. \A t : IsType(t)' = IsType(t)
  BY <1>1 DEF IsType
<1>4. DeclaredTypes' = DeclaredTypes
  <2>1. CASE next \in DOMAIN program /\ pass = "types"
    <3>1. ~IsType(next) /\ next' = next + 1 /\ pass' = pass
      BY <1>1, <2>1
    <3>2. \A t \in DOMAIN program : IsType(t) => (t < next <=> t < next + 1)
      BY <1>2, <3>1
    <3> QED
      BY <1>1, <1>3, <2>1, <3>1, <3>2 DEF DeclaredTypes
  <2>2. CASE next \notin DOMAIN program /\ pass = "types"
    <3>1. pass' = "functions" /\ \A t \in DOMAIN program : t < next
      BY <1>1, <1>2, <2>2
    <3> QED
      BY <1>1, <1>3, <2>2, <3>1 DEF DeclaredTypes
  <2>3. CASE pass # "types"
    <3>1. pass' # "types"
      BY <1>1, <2>3
    <3> QED
      BY <1>1, <1>3, <2>3, <3>1 DEF DeclaredTypes
  <2> QED
    BY <2>1, <2>2, <2>3
<1>5. /\ next' \in 1..(Len(program) + 1)
      /\ pass' \in {"types", "functions", "done", "crashed"}
      /\ pass' = "types" => pass = "types" /\ next <= next'
  BY <1>1, <1>2
<1> QED
  BY <1>4, <1>5

LEMMA NextDeclarationKeeps == RegistryInv /\ NextDeclaration => RegistryInv'
<1> SUFFICES ASSUME RegistryInv, NextDeclaration PROVE RegistryInv'
  OBVIOUS
<1>1. UNCHANGED <<program, types, records, capacity, block, scope, diagnostics>>
  BY DEF NextDeclaration
<1> QED
  BY <1>1, DeclaredStay, SameTablesKeep DEF RegistryInv

LEMMA CrashKeeps == RegistryInv /\ Crash => RegistryInv'
<1> SUFFICES ASSUME RegistryInv, Crash PROVE RegistryInv'
  OBVIOUS
<1>1. /\ UNCHANGED <<program, types, records, capacity, block, scope, diagnostics, next>>
      /\ pass = "functions" /\ pass' = "crashed"
  BY DEF Crash
<1>2. next \in 1..(Len(program) + 1)
  BY DEF RegistryInv, RegistryTypeOK
<1>3. DeclaredTypes' = DeclaredTypes
  BY <1>1 DEF DeclaredTypes, IsType
<1> QED
  BY <1>1, <1>2, <1>3, SameTablesKeep

LEMMA StutteringKeeps == RegistryInv /\ UNCHANGED vars => RegistryInv'
<1> SUFFICES ASSUME RegistryInv, UNCHANGED vars PROVE RegistryInv'
  OBVIOUS
<1>1. UNCHANGED <<program, types, records, capacity, block, scope, diagnostics, pass, next>>
  BY DEF vars
<1>2. /\ next \in 1..(Len(program) + 1) /\ pass \in {"types", "functions", "done", "crashed"}
      /\ Len(program) \in Nat
  BY DEF RegistryInv, RegistryTypeOK, ProgramOK
<1>3. DeclaredTypes' = DeclaredTypes
  BY <1>1 DEF DeclaredTypes, IsType
<1> QED
  BY <1>1, <1>2, <1>3, SameTablesKeep

\* What the analysis of a declaration leaves of the pool: all that was in it.
LEMMA MoreFunctions ==
  ASSUME RegistryTypeOK, AnalyzeDeclaration
  PROVE  /\ types' \in Seq(ToSet(types) \cup FunctionsAndLists(DOMAIN types'))
         /\ Len(types') >= Len(types)
         /\ \A id \in DOMAIN types : id \in DOMAIN types' /\ types'[id] = types[id]
         /\ \A id \in DOMAIN types' : id \notin DOMAIN types =>
              types'[id] \in FunctionsAndLists(DOMAIN types')
<1> DEFINE F == FunctionsAndLists(DOMAIN types')
           U == ToSet(types) \cup F
<1>1. PICK added \in Seq(F) : types' = types \o added
  BY DEF AnalyzeDeclaration, Extends
<1> HIDE DEF F
<1>2. types \in Seq(U) /\ added \in Seq(U)
  <2>1. types \in Seq(ToSet(types))
    BY TypesPool, InItsSet
  <2> QED
    BY <2>1
<1> HIDE DEF U
<1>3. /\ types' \in Seq(U) /\ Len(types') = Len(types) + Len(added)
      /\ \A i \in DOMAIN types : i \in DOMAIN types' /\ types'[i] = types[i]
      /\ \A i \in DOMAIN types' : i \notin DOMAIN types =>
           i - Len(types) \in DOMAIN added /\ types'[i] = added[i - Len(types)]
  BY <1>1, <1>2, Concatenated
<1>4. Len(types') >= Len(types)
  <2>1. Len(types) \in Nat /\ Len(added) \in Nat
    BY <1>2
  <2> QED
    BY <1>3, <2>1
<1>5. \A i \in DOMAIN types' : i \notin DOMAIN types => types'[i] \in F
  BY <1>3
<1> QED
  BY <1>3, <1>4, <1>5 DEF F, U

\* What it reports is not about a type.
LEMMA MoreReports ==
  ASSUME ProgramOK, RegistryTypeOK, AnalyzeDeclaration
  PROVE  /\ diagnostics' \in Seq([message : Messages, at : DOMAIN program])
         /\ \A t : IsType(t) => \A message : Reports(message, t)' <=> Reports(message, t)
<1> DEFINE D == [message : Messages, at : DOMAIN program]
<1>1. PICK added \in Seq(NewReports) : diagnostics' = diagnostics \o added
  BY DEF AnalyzeDeclaration, Extends, NewReports
<1>2. next \in DOMAIN program /\ ~IsType(next)
  BY DEF AnalyzeDeclaration
<1>3. ASSUME NEW i \in DOMAIN added PROVE added[i].at = next
  <2>1. added[i] \in NewReports
    OBVIOUS
  <2> QED
    BY <2>1 DEF NewReports
<1>4. NewReports \subseteq D /\ diagnostics \in Seq(D)
  BY <1>2 DEF RegistryTypeOK, NewReports
<1> HIDE DEF D
<1>5. added \in Seq(D)
  BY <1>4
<1>6. /\ diagnostics' \in Seq(D)
      /\ \A i \in DOMAIN diagnostics :
           i \in DOMAIN diagnostics' /\ diagnostics'[i] = diagnostics[i]
      /\ \A i \in DOMAIN diagnostics' : i \notin DOMAIN diagnostics =>
           i - Len(diagnostics) \in DOMAIN added
             /\ diagnostics'[i] = added[i - Len(diagnostics)]
  BY <1>1, <1>4, <1>5, Concatenated
<1>7. ASSUME NEW t, IsType(t), NEW message
      PROVE  Reports(message, t)' <=> Reports(message, t)
  <2>1. \A i \in DOMAIN added : added[i] # Error(message, t)
    BY <1>2, <1>3, <1>7 DEF Error
  <2> QED
    BY <1>6, <2>1 DEF Reports
<1> QED
  BY <1>6, <1>7 DEF D

LEMMA AnalyzedTypeOK ==
  ASSUME ProgramOK, RegistryTypeOK, AnalyzeDeclaration
  PROVE  RegistryTypeOK'
<1>1. /\ pass = "functions" /\ next \in DOMAIN program /\ next' = next + 1
      /\ program' = program /\ records' = records /\ capacity' = capacity
      /\ block' = block /\ pass' = pass
  BY DEF AnalyzeDeclaration
<1>2. DOMAIN types \subseteq DOMAIN types'
  BY MoreFunctions
<1>3. Pointers' = Pointers /\ \A t : IsType(t)' = IsType(t)
  BY <1>1 DEF Pointers, IsType
<1>4. types' \in Seq(TypeSet(DOMAIN types', Pointers))
  <2>1. types' \in Seq(ToSet(types) \cup FunctionsAndLists(DOMAIN types'))
    BY MoreFunctions
  <2>2. ToSet(types) \subseteq TypeSet(DOMAIN types', Pointers)
    <3>1. types \in Seq(TypeSet(DOMAIN types, Pointers))
      BY DEF RegistryTypeOK, TypeSet
    <3>2. ToSet(types) \subseteq TypeSet(DOMAIN types, Pointers)
      BY <3>1, InItsSet
    <3> QED
      BY <1>2, <3>2, TypeSetGrows
  <2>3. FunctionsAndLists(DOMAIN types') \subseteq TypeSet(DOMAIN types', Pointers)
    BY DEF TypeSet
  <2> QED
    BY <2>1, <2>2, <2>3
<1>5. records \in Seq(UNION {[name : {d.name}, type_id : DOMAIN types', variants : {d.variants}] :
                             d \in {program[t] : t \in {t \in DOMAIN program : IsType(t)}}})
  <2> DEFINE Ds == {program[t] : t \in {t \in DOMAIN program : IsType(t)}}
             R(ids) == UNION {[name : {d.name}, type_id : ids, variants : {d.variants}] : d \in Ds}
  <2>1. records \in Seq(R(DOMAIN types))
    BY DEF RegistryTypeOK
  <2>2. R(DOMAIN types) \subseteq R(DOMAIN types')
    BY <1>2
  <2> HIDE DEF R
  <2>3. records \in Seq(R(DOMAIN types'))
    BY <2>1, <2>2
  <2> QED
    BY <2>3 DEF R
<1>6. capacity \in Nat /\ block \in Nat /\ Len(records) <= capacity
  BY DEF RegistryTypeOK
<1>7. \A n \in DOMAIN scope' :
        scope'[n] \in [type : DOMAIN types', effects : SUBSET EffectMarks,
                       record : {None} \cup Pointers]
  <2>1. PICK entry \in [type : DOMAIN types', effects : SUBSET EffectMarks, record : {None}] :
          scope' = Joined(scope, program[next].name, entry)
    BY DEF AnalyzeDeclaration
  <2>2. \A n \in DOMAIN scope :
          scope[n] \in [type : DOMAIN types, effects : SUBSET EffectMarks,
                        record : {None} \cup Pointers]
    BY DEF RegistryTypeOK
  <2>3. \A n \in DOMAIN scope' : scope'[n] = IF n \in DOMAIN scope THEN scope[n] ELSE entry
    BY <2>1 DEF Joined
  <2> QED
    BY <1>2, <2>2, <2>3
<1>8. next' \in 1..(Len(program) + 1)
  <2>1. DOMAIN program = 1..Len(program) /\ Len(program) \in Nat
    BY DEF ProgramOK
  <2> QED
    BY <1>1, <2>1
<1>9. {program'[t] : t \in {t \in DOMAIN program' : IsType(t)'}} =
      {program[t] : t \in {t \in DOMAIN program : IsType(t)}}
  BY <1>1, <1>3
<1>10. diagnostics' \in Seq([message : Messages, at : DOMAIN program])
  BY MoreReports
<1> QED
  BY <1>1, <1>3, <1>4, <1>5, <1>6, <1>7, <1>8, <1>9, <1>10 DEF RegistryTypeOK, TypeSet

LEMMA AnalyzeDeclarationKeeps == RegistryInv /\ AnalyzeDeclaration => RegistryInv'
<1> SUFFICES ASSUME RegistryInv, AnalyzeDeclaration PROVE RegistryInv'
  OBVIOUS
<1> USE DEF RegistryInv
<1>1. /\ pass = "functions" /\ pass' = pass /\ program' = program /\ records' = records
      /\ capacity' = capacity /\ block' = block
  BY DEF AnalyzeDeclaration
<1>2. DeclaredTypes' = DeclaredTypes /\ \A t \in DeclaredTypes : IsType(t)
  BY <1>1 DEF DeclaredTypes, IsType
<1>3. /\ \A t : IsType(t)' = IsType(t) /\ VariantNames(t)' = VariantNames(t)
      /\ \A t : FirstNamed(t)' = FirstNamed(t) /\ NamesUnknown(t)' = NamesUnknown(t)
  BY <1>1, SameProgram
<1>4. ProgramOK'
  BY <1>1 DEF ProgramOK
<1>5. RegistryTypeOK'
  BY AnalyzedTypeOK
<1>6. \A id \in DOMAIN types : id \in DOMAIN types' /\ types'[id] = types[id]
  BY MoreFunctions
<1>7. Len(types') >= 5
  <2>1. PICK U : types' \in Seq(U)
    BY MoreFunctions
  <2>2. Len(types') \in Nat
    BY <2>1
  <2>3. Len(types') >= Len(types)
    BY MoreFunctions
  <2>4. Len(types) \in Nat
    BY TypesPool
  <2> QED
    BY <2>2, <2>3, <2>4
<1>8. PICK entry : entry.record = None /\ scope' = Joined(scope, program[next].name, entry)
  BY DEF AnalyzeDeclaration
<1>9. /\ \A n \in DOMAIN scope : n \in DOMAIN scope' /\ scope'[n] = scope[n]
      /\ \A n \in DOMAIN scope' : n \notin DOMAIN scope => scope'[n].record = None
  BY <1>8 DEF Joined
<1>10. PointersInv'
  <2>1. ASSUME NEW id \in DOMAIN types', types'[id].kind = "custom"
        PROVE  records[types'[id].record.index].type_id = id
    <3>1. id \in DOMAIN types
      <4> SUFFICES ASSUME id \notin DOMAIN types PROVE FALSE
        OBVIOUS
      <4>1. types'[id] \in FunctionsAndLists(DOMAIN types')
        BY MoreFunctions
      <4>2. types'[id] \in TypeSet(DOMAIN types', {})
        BY <4>1 DEF TypeSet
      <4> QED
        BY <2>1, <4>1, <4>2, Kinds
    <3> QED
      BY <1>6, <2>1, <3>1 DEF PointersInv
  <2>2. ASSUME NEW n \in DOMAIN scope', scope'[n].record # None
        PROVE  \E v \in ToSet(records[scope'[n].record.index].variants) : v.name = n
    BY <1>9, <2>2 DEF PointersInv
  <2> QED
    BY <1>1, <2>1, <2>2 DEF PointersInv
<1>11. RecordsInv'
  <2>1. \A i \in DOMAIN records : types'[records[i].type_id] = types[records[i].type_id]
    BY <1>6, TypesPool
  <2> QED
    BY <1>1, <1>2, <1>3, <2>1 DEF RecordsInv
<1>12. ScopeInv'
  <2>1. ASSUME NEW t \in DeclaredTypes, NEW name \in VariantNames(t)
        PROVE  /\ name \in DOMAIN scope'
               /\ IF \A c \in 1..(t - 1) : IsType(c) => name \notin VariantNames(c)
                  THEN /\ scope'[name].record # None
                       /\ records[scope'[name].record.index].variants = program[t].variants
                  ELSE Reports("symbol already defined in scope", t)'
    <3>1. /\ name \in DOMAIN scope
          /\ IF \A c \in 1..(t - 1) : IsType(c) => name \notin VariantNames(c)
             THEN /\ scope[name].record # None
                  /\ records[scope[name].record.index].variants = program[t].variants
             ELSE Reports("symbol already defined in scope", t)
      BY DEF ScopeInv
    <3>2. name \in DOMAIN scope' /\ scope'[name] = scope[name]
      BY <1>9, <3>1
    <3>3. Reports("symbol already defined in scope", t)' <=>
            Reports("symbol already defined in scope", t)
      BY <1>2, MoreReports
    <3> QED
      BY <3>1, <3>2, <3>3
  <2> QED
    BY <1>1, <1>2, <1>3, <2>1 DEF ScopeInv
<1>13. ReportsInv'
  <2>1. \A t \in DeclaredTypes : Reports("unknown type name", t)' <=> Reports("unknown type name", t)
    BY <1>2, MoreReports
  <2> QED
    BY <1>1, <1>2, <1>3, <2>1 DEF ReportsInv
<1> QED
  BY <1>4, <1>5, <1>7, <1>10, <1>11, <1>12, <1>13

-----------------------------------------------------------------------------
(* The theorems.                                                           *)

\* At the start there is nothing but the types the language has.
LEMMA StartHolds == Init => RegistryInv
<1> SUFFICES ASSUME Init PROVE RegistryInv
  OBVIOUS
<1>1. /\ program \in Seq(Decls) /\ types = BuiltIn /\ records = <<>>
      /\ capacity = 0 /\ block = 0 /\ scope = <<>> /\ diagnostics = <<>>
      /\ pass = "types" /\ next = 1
  BY DEF Init, Start
<1>2. ProgramOK /\ Len(program) \in Nat /\ DOMAIN program = 1..Len(program)
  BY <1>1 DEF ProgramOK
<1>3. /\ types \in Seq(TypeSet(DOMAIN types, Pointers)) /\ Len(types) = 5
      /\ \A id \in DOMAIN types : types[id].kind # "custom"
  <2>1. DOMAIN BuiltIn = 1..5 /\ \A i \in 1..5 : BuiltIn[i].kind # "custom"
    BY DEF BuiltIn
  <2>2. \A i \in 1..5 : BuiltIn[i] \in ToSet(BuiltIn)
    BY <2>1 DEF ToSet
  <2>3. BuiltIn = [i \in 1..5 |-> BuiltIn[i]]
    BY DEF BuiltIn
  <2>4. BuiltIn \in Seq(ToSet(BuiltIn)) /\ Len(BuiltIn) = 5
    BY <2>2, <2>3, AsSequence
  <2>5. ToSet(BuiltIn) \subseteq TypeSet(DOMAIN types, Pointers)
    BY DEF TypeSet
  <2> QED
    BY <1>1, <2>1, <2>4, <2>5
<1>4. DOMAIN records = {} /\ DOMAIN scope = {} /\ DOMAIN diagnostics = {} /\ Len(records) = 0
  BY <1>1
<1>5. DeclaredTypes = {}
  BY <1>1, <1>2 DEF DeclaredTypes
<1>6. RegistryTypeOK
  <2>1. \A S : records \in Seq(S) /\ diagnostics \in Seq(S)
    BY <1>1
  <2>2. next \in 1..(Len(program) + 1)
    BY <1>1, <1>2
  <2> QED
    BY <1>1, <1>3, <1>4, <2>1, <2>2 DEF RegistryTypeOK, TypeSet
<1>7. PointersInv /\ RecordsInv /\ ScopeInv /\ ReportsInv
  BY <1>1, <1>3, <1>4, <1>5 DEF PointersInv, RecordsInv, ScopeInv, ReportsInv
<1> QED
  BY <1>2, <1>3, <1>6, <1>7 DEF RegistryInv

LEMMA Invariant == Spec => []RegistryInv
<1>1. Init => RegistryInv
  BY StartHolds
<1>2. RegistryInv /\ [Next]_vars => RegistryInv'
  BY RegisterTypeKeeps, NextDeclarationKeeps, AnalyzeDeclarationKeeps, CrashKeeps,
     StutteringKeeps DEF Next
<1> QED
  BY <1>1, <1>2, PTL DEF Spec

\* TypeTables keeps the pool, the array of records and the scope in their types,
\* with no id beyond the pool, no pointer beyond the array or into a block not
\* yet allocated, and no more records than the array has room for
\* (type_record_add, type_custom, scope_define).
THEOREM TablesTyped == Spec => []RegistryTypeOK
<1>1. RegistryInv => RegistryTypeOK
  BY DEF RegistryInv
<1> QED
  BY <1>1, Invariant, PTL

\* Every pointer to a record leads from a type to its own record and from a
\* constructor to a record that has it, into the live block while the array stays
\* in place, whatever the program and however often the array grows
\* (register_type_decl, check_match_exhaustiveness).
THEOREM PointersValid == Spec => []RecordPointersValid
<1>1. RegistryInv => RecordPointersValid
  <2> SUFFICES ASSUME RegistryInv PROVE RecordPointersValid
    OBVIOUS
  <2> USE DEF RegistryInv
  <2>1. \A p \in Pointers : InPlace => p.block = block
    BY DEF Pointers, InPlace, RegistryTypeOK
  <2> QED
    BY <2>1, PointersLead DEF RecordPointersValid, PointersInv
<1> QED
  BY <1>1, Invariant, PTL

\* The first declaration of a constructor is the one its name stands for, and
\* every later one is reported, whatever else the program declares
\* (scope_define).
THEOREM FirstConstructorKept == Spec => []ConstructorsKept
<1>1. RegistryInv => ConstructorsKept
  <2> SUFFICES ASSUME RegistryInv, pass = "done",
                      NEW t \in DOMAIN program, IsType(t), NEW name \in VariantNames(t)
               PROVE  IF \A c \in 1..(t - 1) : IsType(c) => name \notin VariantNames(c)
                      THEN /\ scope[name].record # None
                           /\ records[scope[name].record.index].variants = program[t].variants
                      ELSE Reports("symbol already defined in scope", t)
    BY DEF ConstructorsKept
  <2>1. t \in DeclaredTypes
    BY DEF DeclaredTypes
  <2> QED
    BY <2>1 DEF RegistryInv, ScopeInv
<1> QED
  BY <1>1, Invariant, PTL

\* Exactly the payload names that stand for no type declared by then are
\* reported, and in the end a name stands for the first type so named, with the
\* variants it was declared with (resolve_type_token, type_record_find).
THEOREM NamesStandForTypes == Spec => []TypeNamesResolved
<1>1. RegistryInv => TypeNamesResolved
  <2> SUFFICES ASSUME RegistryInv, pass = "done", NEW t \in DOMAIN program, IsType(t)
               PROVE  /\ Reports("unknown type name", t) <=> NamesUnknown(t)
                      /\ FirstNamed(t) /\ program[t].name \notin DOMAIN BuiltInNames =>
                           LET id == Resolve(records, program[t].name)
                           IN /\ types[id].kind = "custom"
                              /\ records[types[id].record.index].variants = program[t].variants
    BY DEF TypeNamesResolved, NamesUnknown
  <2> USE DEF RegistryInv
  <2>1. t \in DeclaredTypes
    BY DEF DeclaredTypes
  <2>2. Reports("unknown type name", t) <=> NamesUnknown(t)
    BY <2>1 DEF ReportsInv
  <2>3. ASSUME FirstNamed(t), program[t].name \notin DOMAIN BuiltInNames
        PROVE  LET id == Resolve(records, program[t].name)
               IN /\ types[id].kind = "custom"
                  /\ records[types[id].record.index].variants = program[t].variants
    <3> DEFINE named == NamedRecords(records, program[t].name)
               i == Min(named)
    <3>1. named # {} /\ records[i].variants = program[t].variants
      BY <2>1, <2>3 DEF RecordsInv
    <3>2. named \in SUBSET Nat
      BY TypesPool DEF NamedRecords
    <3>3. i \in named
      BY <3>1, <3>2, Least
    <3>4. i \in DOMAIN records
      BY <3>3 DEF NamedRecords
    <3>5. Resolve(records, program[t].name) = records[i].type_id
      BY <2>3, <3>1 DEF Resolve
    <3> HIDE DEF i
    <3>6. types[records[i].type_id].kind = "custom" /\ types[records[i].type_id].record.index = i
      BY <3>4 DEF RecordsInv
    <3> QED
      BY <3>1, <3>5, <3>6
  <2> QED
    BY <2>2, <2>3
<1> QED
  BY <1>1, Invariant, PTL

\* Counting the variants that some arm names, as check_match_exhaustiveness does,
\* comes out short of the number of variants exactly if there is a variant that
\* no arm names: however many arms name the same one, and whatever else the arms
\* name.
THEOREM CountingIsExhaustiveness ==
  ASSUME NEW S, NEW variants \in Seq(S), NEW arms
  PROVE  Covered(variants, arms) < Len(variants) <=>
           \E v \in DOMAIN variants : \A a \in DOMAIN arms : variants[v].name # arms[a].name
<1> DEFINE V == DOMAIN variants
           C == {v \in V : \E a \in DOMAIN arms : variants[v].name = arms[a].name}
<1>1. V = 1..Len(variants) /\ Len(variants) \in Nat
  OBVIOUS
<1>2. IsFiniteSet(V) /\ Cardinality(V) = Len(variants)
  <2>1. Cardinality(1..Len(variants)) = Len(variants) /\ IsFiniteSet(1..Len(variants))
    BY <1>1, FS_Interval
  <2> QED
    BY <1>1, <2>1
<1>3. Covered(variants, arms) = Cardinality(C)
  BY DEF Covered
<1>4. C \subseteq V
  OBVIOUS
<1>5. (\E v \in V : \A a \in DOMAIN arms : variants[v].name # arms[a].name) <=> C # V
  OBVIOUS
<1> HIDE DEF C, V
<1>6. /\ IsFiniteSet(C) /\ Cardinality(C) <= Cardinality(V)
      /\ Cardinality(C) = Cardinality(V) => C = V
      /\ Cardinality(C) \in Nat
  BY <1>2, <1>4, FS_Subset, FS_CardinalityType
<1> QED
  BY <1>1, <1>2, <1>3, <1>5, <1>6 DEF V

-----------------------------------------------------------------------------
(* When the array of records moves.                                        *)

\* A program whose types all fit the first capacity of the array (four in
\* type_record_add) never moves it, and its analysis does not crash.
FewTypesInPlace ==
  Cardinality({t \in DOMAIN program : IsType(t)}) <= FirstCapacity =>
    InPlace /\ pass # "crashed"

\* There is a record for each type declared so far, and the array has its first
\* capacity in its first block until there are more records than that.
GrowthInv ==
  /\ Len(records) = Cardinality(DeclaredTypes)
  /\ capacity = 0 \/ capacity >= FirstCapacity
  /\ capacity = 0 => block = 0
  /\ capacity <= FirstCapacity => InPlace
  /\ capacity > FirstCapacity => Len(records) > FirstCapacity
  /\ pass = "crashed" => ~InPlace

LEMMA TypesFinite ==
  ASSUME ProgramOK
  PROVE  /\ IsFiniteSet({t \in DOMAIN program : IsType(t)})
         /\ DeclaredTypes \subseteq {t \in DOMAIN program : IsType(t)}
         /\ IsFiniteSet(DeclaredTypes) /\ Cardinality(DeclaredTypes) \in Nat
         /\ Cardinality(DeclaredTypes) <= Cardinality({t \in DOMAIN program : IsType(t)})
<1> DEFINE All == {t \in DOMAIN program : IsType(t)}
<1>1. DOMAIN program = 1..Len(program) /\ Len(program) \in Nat
  BY DEF ProgramOK
<1>2. IsFiniteSet(DOMAIN program)
  BY <1>1, FS_Interval
<1>3. All \subseteq DOMAIN program /\ DeclaredTypes \subseteq All
  BY DEF DeclaredTypes
<1> HIDE DEF All
<1>4. IsFiniteSet(All)
  BY <1>2, <1>3, FS_Subset
<1>5. IsFiniteSet(DeclaredTypes) /\ Cardinality(DeclaredTypes) <= Cardinality(All)
  BY <1>3, <1>4, FS_Subset
<1>6. Cardinality(DeclaredTypes) \in Nat
  BY <1>5, FS_CardinalityType
<1> QED
  BY <1>3, <1>4, <1>5, <1>6 DEF All

LEMMA RegisteredGrowth ==
  ASSUME RegistryInv, GrowthInv, NEW b, RegisteredIn(b)
  PROVE  GrowthInv'
<1> USE DEF RegistryInv
<1>1. /\ pass' = "types" /\ b \in Blocks /\ block' = b /\ capacity' = NewCapacity
  BY DEF RegisteredIn
<1>2. /\ Len(records) \in Nat /\ capacity \in Nat /\ block \in Nat /\ Len(records) <= capacity
      /\ FirstCapacity \in Nat \ {0}
  BY TypesPool, CapacityAssumption DEF RegistryTypeOK
<1>3. Len(records') = Len(records) + 1
  BY NewRecords
<1>4. Len(records') = Cardinality(DeclaredTypes')
  <2>1. DeclaredTypes' = DeclaredTypes \cup {next} /\ next \notin DeclaredTypes
    BY NowDeclared
  <2>2. IsFiniteSet(DeclaredTypes)
    BY TypesFinite
  <2>3. Cardinality(DeclaredTypes \cup {next}) = Cardinality(DeclaredTypes) + 1
    BY <2>1, <2>2, FS_AddElement
  <2> QED
    BY <1>3, <2>1, <2>3 DEF GrowthInv
<1>5. CASE Len(records) < capacity
  <2>1. block' = block /\ capacity' = capacity
    BY <1>1, <1>5 DEF Blocks, NewCapacity
  <2> QED
    BY <1>1, <1>2, <1>3, <1>4, <1>5, <2>1 DEF GrowthInv, InPlace
<1>6. CASE capacity = 0
  <2>1. block' = block + 1 /\ capacity' = FirstCapacity
    BY <1>1, <1>2, <1>6 DEF Blocks, NewCapacity
  <2> QED
    BY <1>1, <1>2, <1>3, <1>4, <1>6, <2>1 DEF GrowthInv, InPlace
<1>7. CASE capacity # 0 /\ Len(records) = capacity
  <2>1. capacity' = 2 * capacity
    BY <1>1, <1>2, <1>7 DEF NewCapacity
  <2>2. capacity >= FirstCapacity
    BY <1>7 DEF GrowthInv
  <2> QED
    BY <1>1, <1>2, <1>3, <1>4, <1>7, <2>1, <2>2 DEF GrowthInv, InPlace
<1> QED
  BY <1>2, <1>5, <1>6, <1>7

LEMMA GrowthStep == RegistryInv /\ GrowthInv /\ [Next]_vars => GrowthInv'
<1> SUFFICES ASSUME RegistryInv, GrowthInv, [Next]_vars PROVE GrowthInv'
  OBVIOUS
<1>1. CASE RegisterType
  BY <1>1, Registered, RegisteredGrowth DEF RegistryInv
<1>2. ASSUME NextDeclaration \/ AnalyzeDeclaration \/ Crash \/ UNCHANGED vars PROVE GrowthInv'
  <2>1. UNCHANGED <<program, records, capacity, block>>
    BY <1>2 DEF NextDeclaration, AnalyzeDeclaration, Crash, vars
  <2>2. DeclaredTypes' = DeclaredTypes
    <3>1. CASE NextDeclaration
      BY <3>1, DeclaredStay DEF RegistryInv
    <3>2. CASE AnalyzeDeclaration \/ Crash \/ UNCHANGED vars
      BY <2>1, <3>2 DEF DeclaredTypes, IsType, AnalyzeDeclaration, Crash, vars
    <3> QED
      BY <1>2, <3>1, <3>2
  <2>3. pass' = "crashed" => ~InPlace
    BY <1>2 DEF GrowthInv, NextDeclaration, AnalyzeDeclaration, Crash, vars
  <2> QED
    BY <2>1, <2>2, <2>3 DEF GrowthInv, InPlace
<1> QED
  BY <1>1, <1>2 DEF Next

THEOREM FewTypesNeverMove == Spec => []FewTypesInPlace
<1>1. Init => GrowthInv
  <2> SUFFICES ASSUME Init PROVE GrowthInv
    OBVIOUS
  <2>1. records = <<>> /\ capacity = 0 /\ block = 0 /\ pass = "types" /\ next = 1
    BY DEF Init, Start
  <2>2. DeclaredTypes = {}
    BY <2>1 DEF Init, DeclaredTypes
  <2>3. Cardinality(DeclaredTypes) = 0 /\ Len(records) = 0
    BY <2>1, <2>2, FS_EmptySet
  <2> QED
    BY <2>1, <2>3, CapacityAssumption DEF GrowthInv, InPlace
<1>2. RegistryInv /\ GrowthInv => FewTypesInPlace
  <2> SUFFICES ASSUME RegistryInv, GrowthInv,
                      Cardinality({t \in DOMAIN program : IsType(t)}) <= FirstCapacity
               PROVE  InPlace /\ pass # "crashed"
    BY DEF FewTypesInPlace
  <2>1. capacity \in Nat /\ FirstCapacity \in Nat /\ Len(records) \in Nat
    BY TypesPool, CapacityAssumption DEF RegistryInv, RegistryTypeOK
  <2>2. /\ Len(records) <= Cardinality({t \in DOMAIN program : IsType(t)})
        /\ Cardinality({t \in DOMAIN program : IsType(t)}) \in Nat
    BY TypesFinite, FS_CardinalityType DEF RegistryInv, GrowthInv
  <2> QED
    BY <2>1, <2>2 DEF GrowthInv
<1> QED
  BY <1>1, <1>2, Invariant, GrowthStep, PTL DEF Spec
=============================================================================
