------------------------ MODULE NovaExprIndexProofs ------------------------
(***************************************************************************)
(* Theorems about NovaExprIndex for every set of expressions, every hash   *)
(* function, first capacity and length of the list: the table finds each   *)
(* of its keys, the loops that probe it have a place to end at, and the    *)
(* list and the table together are the partial map of ExprInfo.            *)
(***************************************************************************)
EXTENDS NovaExprIndex, FiniteSetTheorems, TLAPS

\* What EveryKeyIsFound says of the table in use, of any table.
Found(table) ==
  \A s \in DOMAIN table : table[s] # Null =>
    /\ Reaches(table, table[s], s)
    /\ \A t \in DOMAIN table : table[t] = table[s] => t = s

\* The new table holds the keys of the slots before next_slot, with their
\* places in the list, and no others.
Moved ==
  /\ \A t \in DOMAIN new_keys : new_keys[t] # Null =>
       \E s \in DOMAIN keys :
         s < next_slot /\ keys[s] = new_keys[t] /\ values[s] = new_values[t]
  /\ \A s \in DOMAIN keys : s < next_slot /\ keys[s] # Null =>
       \E t \in DOMAIN new_keys : new_keys[t] = keys[s]

\* expr_index_count is exact, a record that is being indexed is new, and the
\* table that it goes to is larger than what it will hold.
CountInv ==
  /\ IsFiniteSet(Keys(keys)) /\ count = Cardinality(Keys(keys))
  /\ pc # "idle" => call.expr \in Exprs /\ call.expr \notin Keys(keys)
  /\ pc = "insert" => Capacity(keys) >= Required(count + 1)
  /\ pc = "rehash" => Capacity(new_keys) >= Required(count + 1)
  /\ pc # "rehash" => new_keys = <<>> /\ new_values = <<>>

IndexInv ==
  /\ TypeOK /\ EveryKeyIsFound /\ Found(new_keys) /\ CountInv
  /\ pc = "rehash" => next_slot \in 0..Capacity(keys) /\ Moved

-----------------------------------------------------------------------------
(* Arithmetic and tables                                                   *)

LEMMA RequiredFacts ==
  ASSUME NEW n \in Nat
  PROVE  Required(n) \in Nat /\ Required(n) > n
  BY DEF Required

LEMMA SlotsFacts ==
  ASSUME NEW n \in Nat
  PROVE  IsFiniteSet(Slots(n)) /\ Cardinality(Slots(n)) = n
  BY FS_Interval DEF Slots

LEMMA ModFacts ==
  ASSUME NEW a \in Nat, NEW n \in Nat \ {0}
  PROVE  a % n \in 0..(n - 1)
  OBVIOUS

LEMMA ProbeInTable ==
  ASSUME NEW table, Capacity(table) \in Nat, DOMAIN table = Slots(Capacity(table)),
         NEW e \in Exprs, NEW d \in Nat, DOMAIN table # {}
  PROVE  Probe(table, e, d) \in DOMAIN table
<1>1. Capacity(table) \in Nat \ {0}
  BY DEF Slots
<1>2. Hash[e] + d \in Nat
  BY HashAssumption
<1> QED
  BY <1>1, <1>2, ModFacts DEF Probe, Slots

LEMMA NewTableFacts ==
  ASSUME NEW n \in Nat
  PROVE  /\ DOMAIN NewTable(n) = Slots(n) /\ Capacity(NewTable(n)) = n
         /\ \A s \in Slots(n) : NewTable(n)[s] = Null
         /\ Keys(NewTable(n)) = {}
  BY SlotsFacts DEF NewTable, Capacity, Keys

LEMMA EmptyTableFacts ==
  /\ DOMAIN <<>> = {} /\ Capacity(<<>>) = 0 /\ Slots(0) = {} /\ Keys(<<>>) = {}
<1>1. DOMAIN <<>> = {}
  OBVIOUS
<1>2. Slots(0) = {}
  BY DEF Slots
<1> QED
  BY <1>1, <1>2, FS_EmptySet DEF Capacity, Keys

\* Writing e into the slot its probes lead to keeps every key found: no probe
\* of another key meets an empty slot less, and none of e meets another slot.
LEMMA PutFound ==
  ASSUME NEW table, Capacity(table) \in Nat, DOMAIN table = Slots(Capacity(table)),
         \A s \in DOMAIN table : table[s] \in Exprs \cup {Null}, Found(table),
         NEW e \in Exprs, NEW s \in DOMAIN table,
         Reaches(table, e, s), table[s] \in {Null, e}
  PROVE  /\ Found([table EXCEPT ![s] = e])
         /\ Keys([table EXCEPT ![s] = e]) = Keys(table) \cup {e}
<1> DEFINE t == [table EXCEPT ![s] = e]
<1>1. /\ e # Null /\ DOMAIN t = DOMAIN table /\ Capacity(t) = Capacity(table) /\ t[s] = e
      /\ \A x \in DOMAIN table : x # s => t[x] = table[x]
  BY HashAssumption DEF Capacity
<1>2. \A k, d : Probe(t, k, d) = Probe(table, k, d)
  BY <1>1 DEF Probe
<1> HIDE DEF t
<1>3. DOMAIN table \subseteq Nat
  BY DEF Slots
<1>4. ASSUME NEW k \in Exprs, NEW d \in DOMAIN table, NEW c \in 0..(d - 1)
      PROVE  Probe(table, k, c) \in DOMAIN table
  BY <1>3, ProbeInTable
<1>5. Reaches(t, e, s)
  <2>1. PICK d \in DOMAIN table :
          /\ Probe(table, e, d) = s
          /\ \A c \in 0..(d - 1) : table[Probe(table, e, c)] \notin {e, Null}
    BY DEF Reaches
  <2>2. ASSUME NEW c \in 0..(d - 1) PROVE t[Probe(t, e, c)] \notin {e, Null}
    <3>1. Probe(table, e, c) # s
      BY <2>1
    <3>2. Probe(table, e, c) \in DOMAIN table
      BY <1>4
    <3> QED
      BY <1>1, <1>2, <2>1, <3>1, <3>2
  <2> QED
    BY <1>1, <1>2, <2>1, <2>2 DEF Reaches
<1>6. ASSUME NEW x \in DOMAIN table, table[x] # Null, x # s
      PROVE  Reaches(t, table[x], x)
  <2>1. PICK d \in DOMAIN table :
          /\ Probe(table, table[x], d) = x
          /\ \A c \in 0..(d - 1) : table[Probe(table, table[x], c)] \notin {table[x], Null}
    BY <1>6 DEF Reaches, Found
  <2>2. ASSUME NEW c \in 0..(d - 1) PROVE t[Probe(t, table[x], c)] \notin {table[x], Null}
    <3>1. Probe(table, table[x], c) \in DOMAIN table
      BY <1>4, <1>6
    <3>2. CASE Probe(table, table[x], c) # s
      BY <1>1, <1>2, <2>1, <3>1, <3>2
    <3>3. CASE Probe(table, table[x], c) = s
      BY <1>1, <1>2, <2>1, <3>3
    <3> QED
      BY <3>2, <3>3
  <2> QED
    BY <1>1, <1>2, <2>1, <2>2 DEF Reaches
<1>7. ASSUME NEW x \in DOMAIN table, table[x] = e
      PROVE  x = s
  <2>1. PICK d \in DOMAIN table :
          /\ Probe(table, e, d) = s
          /\ \A c \in 0..(d - 1) : table[Probe(table, e, c)] \notin {e, Null}
    BY DEF Reaches
  <2>2. PICK b \in DOMAIN table :
          /\ Probe(table, e, b) = x
          /\ \A c \in 0..(b - 1) : table[Probe(table, e, c)] \notin {e, Null}
    BY <1>1, <1>7 DEF Reaches, Found
  <2>3. d \in Nat /\ b \in Nat
    BY <1>3
  <2>4. CASE d < b
    BY <2>1, <2>2, <2>3, <2>4, d \in 0..(b - 1)
  <2>5. CASE b < d
    BY <1>7, <2>1, <2>2, <2>3, <2>5, b \in 0..(d - 1)
  <2>6. CASE b = d
    BY <2>1, <2>2, <2>6
  <2> QED
    BY <2>3, <2>4, <2>5, <2>6
<1>8. Found(t)
  <2> SUFFICES ASSUME NEW x \in DOMAIN t, t[x] # Null
               PROVE  /\ Reaches(t, t[x], x)
                      /\ \A y \in DOMAIN t : t[y] = t[x] => y = x
    BY DEF Found
  <2>1. CASE x = s
    BY <1>1, <1>5, <1>7, <2>1
  <2>2. CASE x # s
    <3>1. Reaches(t, t[x], x)
      BY <1>1, <1>6, <2>2
    <3>2. ASSUME NEW y \in DOMAIN t, t[y] = t[x] PROVE y = x
      <4>1. CASE y = s
        BY <1>1, <1>7, <2>2, <3>2, <4>1
      <4>2. CASE y # s
        BY <1>1, <2>2, <3>2, <4>2 DEF Found
      <4> QED
        BY <4>1, <4>2
    <3> QED
      BY <3>1, <3>2
  <2> QED
    BY <2>1, <2>2
<1>9. Keys(t) = Keys(table) \cup {e}
  <2>1. ASSUME NEW k \in Keys(t) PROVE k \in Keys(table) \cup {e}
    BY <1>1 DEF Keys
  <2>2. ASSUME NEW k \in Keys(table) PROVE k \in Keys(t)
    <3>1. PICK x \in DOMAIN table : table[x] = k /\ k # Null
      BY DEF Keys
    <3> QED
      BY <1>1, <3>1 DEF Keys
  <2>3. e \in Keys(t)
    BY <1>1 DEF Keys
  <2> QED
    BY <2>1, <2>2, <2>3
<1> QED
  BY <1>8, <1>9 DEF t

\* A table with more slots than keys has an empty one.
LEMMA RoomLeft ==
  ASSUME NEW table, Capacity(table) \in Nat, DOMAIN table = Slots(Capacity(table)),
         Found(table), IsFiniteSet(Keys(table)), Cardinality(Keys(table)) < Capacity(table)
  PROVE  \E s \in DOMAIN table : table[s] = Null
<1> SUFFICES ASSUME \A s \in DOMAIN table : table[s] # Null PROVE FALSE
  OBVIOUS
<1> DEFINE f == [s \in DOMAIN table |-> table[s]]
<1>1. IsFiniteSet(DOMAIN table) /\ Cardinality(DOMAIN table) = Capacity(table)
  BY SlotsFacts
<1>2. f \in [DOMAIN table -> Keys(table)]
  BY DEF Keys
<1>3. PICK x, y \in DOMAIN table : x # y /\ f[x] = f[y]
  <2> HIDE DEF f
  <2> QED
    BY <1>1, <1>2, FS_PigeonHole
<1> QED
  BY <1>3 DEF Found
-----------------------------------------------------------------------------
(* Lookups.  Find is Lookup in any table.                                  *)

Find(table, places, e) ==
  IF \E s \in DOMAIN table : Reaches(table, e, s) /\ table[s] = e
  THEN places[CHOOSE s \in DOMAIN table : Reaches(table, e, s) /\ table[s] = e]
  ELSE 0

\* In a table that finds its keys, a lookup finds the one slot of a key, and
\* nothing that is no key.
LEMMA FindFacts ==
  ASSUME NEW table, NEW places, Found(table), NEW e \in Exprs
  PROVE  /\ \A s \in DOMAIN table : table[s] = e => Find(table, places, e) = places[s]
         /\ e \notin Keys(table) => Find(table, places, e) = 0
<1>0. e # Null
  BY HashAssumption
<1>1. ASSUME NEW s \in DOMAIN table, table[s] = e
      PROVE  Find(table, places, e) = places[s]
  <2> DEFINE q == CHOOSE x \in DOMAIN table : Reaches(table, e, x) /\ table[x] = e
  <2>1. Reaches(table, e, s) /\ table[s] = e
    BY <1>0, <1>1 DEF Found
  <2>2. q \in DOMAIN table /\ table[q] = e
    BY <2>1
  <2>3. q = s
    <3> HIDE DEF q
    <3> QED
      BY <1>0, <1>1, <2>2 DEF Found
  <2> QED
    BY <2>1, <2>3 DEF Find
<1>2. ASSUME e \notin Keys(table) PROVE Find(table, places, e) = 0
  BY <1>0, <1>2 DEF Find, Keys
<1> QED
  BY <1>1, <1>2

\* What nova_semantic_lookup_expr returns, from any list and table.
InfoIn(list, table, places, e) ==
  IF Find(table, places, e) = 0 THEN Null ELSE list[Find(table, places, e)].info

LEMMA LookupIsFind ==
  \A e : /\ Lookup(e) = Find(keys, values, e)
         /\ LookupExpr(e) = InfoIn(items, keys, values, e)
  BY DEF Lookup, LookupExpr, Find, InfoIn

\* The record of a key, and Null for what is no key.
LEMMA InfoFacts ==
  ASSUME NEW list, 0 \notin DOMAIN list, NEW table, NEW places, Found(table),
         \A s \in DOMAIN table : table[s] # Null => places[s] \in DOMAIN list,
         NEW e \in Exprs
  PROVE  /\ \A s \in DOMAIN table : table[s] = e => InfoIn(list, table, places, e) = list[places[s]].info
         /\ e \notin Keys(table) => InfoIn(list, table, places, e) = Null
<1>1. e # Null
  BY HashAssumption
<1>2. ASSUME NEW s \in DOMAIN table, table[s] = e
      PROVE  InfoIn(list, table, places, e) = list[places[s]].info
  <2>1. Find(table, places, e) = places[s] /\ places[s] # 0
    BY <1>1, <1>2, FindFacts
  <2> QED
    BY <2>1 DEF InfoIn
<1>3. ASSUME e \notin Keys(table) PROVE InfoIn(list, table, places, e) = Null
  BY <1>3, FindFacts DEF InfoIn
<1> QED
  BY <1>2, <1>3

-----------------------------------------------------------------------------
(* The invariant                                                           *)

LEMMA InitIndex == Init => IndexInv
<1> SUFFICES ASSUME Init PROVE IndexInv
  OBVIOUS
<1>1. TypeOK
  BY EmptyTableFacts DEF Init, TypeOK, IsTable, NoCall
<1>2. EveryKeyIsFound /\ Found(new_keys)
  BY EmptyTableFacts DEF Init, EveryKeyIsFound, Found
<1>3. CountInv
  BY EmptyTableFacts, FS_EmptySet DEF Init, CountInv
<1> QED
  BY <1>1, <1>2, <1>3 DEF Init, IndexInv

\* A key leads to a record of its own; an expression without one is no key.
LEMMA LookupFacts ==
  ASSUME IndexInv, NEW e \in Exprs
  PROVE  /\ Lookup(e) # 0 => Lookup(e) \in DOMAIN items /\ items[Lookup(e)].expr = e
         /\ Lookup(e) = 0 => e \notin Keys(keys)
<1>1. Found(keys) /\ e # Null
  BY HashAssumption DEF IndexInv, EveryKeyIsFound, Found
<1>2. Lookup(e) = Find(keys, values, e)
  BY LookupIsFind
<1>3. CASE e \in Keys(keys)
  <2>1. PICK s \in DOMAIN keys : keys[s] = e
    BY <1>3 DEF Keys
  <2>2. Find(keys, values, e) = values[s]
    BY <1>1, <2>1, FindFacts
  <2>3. values[s] \in DOMAIN items /\ items[values[s]].expr = e
    BY <1>1, <2>1 DEF IndexInv, TypeOK, IsTable
  <2>4. 0 \notin DOMAIN items
    BY DEF IndexInv, TypeOK
  <2> QED
    BY <1>2, <2>2, <2>3, <2>4
<1>4. CASE e \notin Keys(keys)
  BY <1>1, <1>2, <1>4, FindFacts
<1> QED
  BY <1>3, <1>4

\* A sequence with one element replaced.
LEMMA ReplaceElement ==
  ASSUME NEW R, NEW list \in Seq(R), NEW n \in DOMAIN list, NEW r \in R
  PROVE  /\ list[n] \in R
         /\ [list EXCEPT ![n] = r] \in Seq(R)
         /\ DOMAIN [list EXCEPT ![n] = r] = DOMAIN list
         /\ Len([list EXCEPT ![n] = r]) = Len(list)
         /\ \A m \in DOMAIN list : [list EXCEPT ![n] = r][m] = IF m = n THEN r ELSE list[m]
  OBVIOUS

\* A member of a sequence of a set of values is one of the values.
LEMMA MemberOf ==
  ASSUME NEW R, NEW list \in Seq(R), NEW n \in DOMAIN list
  PROVE  list[n] \in R
  OBVIOUS

\* What Overwrite does to the list, in terms that keep records whole.
LEMMA OverwrittenList ==
  ASSUME IndexInv, NEW e \in Exprs, NEW i \in Infos, Overwrite(e, i)
  PROVE  /\ items' \in Seq([expr : Exprs, info : Infos])
         /\ DOMAIN items' = DOMAIN items /\ Len(items') = Len(items)
         /\ \A m \in DOMAIN items :
              /\ items'[m].expr = items[m].expr
              /\ items'[m].info = IF m = Lookup(e) THEN i ELSE items[m].info
<1> DEFINE n == Lookup(e)
           R == [expr : Exprs, info : Infos]
           r == [items[n] EXCEPT !.info = i]
<1>1. n \in DOMAIN items
  BY LookupFacts DEF Overwrite
<1>2. items \in Seq(R)
  BY DEF IndexInv, TypeOK
<1>3. items[n] \in R
  <2> HIDE DEF R, n
  <2> QED
    BY <1>1, <1>2, MemberOf
<1>4. items' = [items EXCEPT ![n] = r]
  BY DEF Overwrite
<1>5. r \in R /\ r.expr = items[n].expr /\ r.info = i
  <2> HIDE DEF n
  <2> QED
    BY <1>3
<1>6. /\ items' \in Seq(R) /\ DOMAIN items' = DOMAIN items /\ Len(items') = Len(items)
      /\ \A m \in DOMAIN items : items'[m] = IF m = n THEN r ELSE items[m]
  <2> HIDE DEF R, n, r
  <2> QED
    BY <1>1, <1>2, <1>4, <1>5, ReplaceElement
<1> QED
  <2>1. \A m \in DOMAIN items : /\ items'[m].expr = items[m].expr
                                /\ items'[m].info = IF m = n THEN i ELSE items[m].info
    <3> HIDE DEF R, n, r
    <3> QED
      BY <1>5, <1>6
  <2> QED
    BY <1>6, <2>1

LEMMA OverwriteKeeps ==
  ASSUME IndexInv, NEW e \in Exprs, NEW i \in Infos, Overwrite(e, i)
  PROVE  IndexInv'
<1>3. /\ items' \in Seq([expr : Exprs, info : Infos])
      /\ DOMAIN items' = DOMAIN items /\ Len(items') = Len(items)
      /\ \A m \in DOMAIN items : items'[m].expr = items[m].expr
  BY OverwrittenList
<1>4. TypeOK'
  <2>1. IsTable(keys, values)' /\ IsTable(new_keys, new_values)'
    BY <1>3 DEF IndexInv, TypeOK, IsTable, Overwrite, tableVars, newVars
  <2> QED
    BY <1>3, <2>1 DEF IndexInv, TypeOK, Overwrite, tableVars, newVars
<1>5. EveryKeyIsFound' /\ Found(new_keys)' /\ CountInv'
      /\ (pc = "rehash" => next_slot \in 0..Capacity(keys) /\ Moved)'
  BY DEF IndexInv, EveryKeyIsFound, CountInv, Moved, Overwrite, tableVars, newVars
<1> QED
  BY <1>4, <1>5 DEF IndexInv

LEMMA AppendItemKeeps ==
  ASSUME IndexInv, NEW e \in Exprs, NEW i \in Infos, AppendItem(e, i)
  PROVE  IndexInv'
<1>1. e \notin Keys(keys)
  BY LookupFacts DEF AppendItem
<1>2. /\ items' \in Seq([expr : Exprs, info : Infos])
      /\ Len(items') = Len(items) + 1
      /\ \A m \in DOMAIN items : m \in DOMAIN items' /\ items'[m] = items[m]
      /\ items'[Len(items) + 1].expr = e
  <2>1. items \in Seq([expr : Exprs, info : Infos])
        /\ [expr |-> e, info |-> i] \in [expr : Exprs, info : Infos]
    BY DEF IndexInv, TypeOK
  <2> QED
    BY <2>1 DEF AppendItem
<1>3. TypeOK'
  <2>1. IsTable(keys, values)' /\ IsTable(new_keys, new_values)'
    BY <1>2 DEF IndexInv, TypeOK, IsTable, AppendItem, tableVars, newVars
  <2> QED
    BY <1>2, <2>1 DEF IndexInv, TypeOK, AppendItem, tableVars, newVars
<1>4. CountInv'
  BY <1>1 DEF IndexInv, CountInv, AppendItem, tableVars, newVars
<1> QED
  BY <1>3, <1>4 DEF IndexInv, EveryKeyIsFound, AppendItem, tableVars, newVars

\* The steps of expr_index_reserve that do not touch a table.
LEMMA SizeKeeps ==
  ASSUME IndexInv, Reserve \/ Double \/ ReserveFails
  PROVE  IndexInv'
<1>1. UNCHANGED <<items, keys, values, count, new_keys, new_values, next_slot>>
  BY DEF Reserve, Double, ReserveFails, tableVars
<1>2. TypeOK'
  <2>1. new_capacity' \in Nat
    BY CapacityAssumption DEF IndexInv, TypeOK, IsTable, Reserve, Double, ReserveFails
  <2> QED
    BY <1>1, <2>1 DEF IndexInv, TypeOK, IsTable, Reserve, Double, ReserveFails, NoCall
<1>3. CountInv'
  BY <1>1 DEF IndexInv, CountInv, Reserve, Double, ReserveFails
<1>4. pc' # "rehash"
  BY DEF Reserve, Double, ReserveFails
<1> QED
  BY <1>1, <1>2, <1>3, <1>4 DEF IndexInv, EveryKeyIsFound

LEMMA AllocateKeeps ==
  ASSUME IndexInv, Allocate
  PROVE  IndexInv'
<1>1. new_capacity \in Nat
  BY DEF IndexInv, TypeOK
<1>2. /\ DOMAIN new_keys' = Slots(new_capacity) /\ Capacity(new_keys') = new_capacity
      /\ \A s \in DOMAIN new_keys' : new_keys'[s] = Null
      /\ DOMAIN new_values' = DOMAIN new_keys'
  BY <1>1, NewTableFacts DEF Allocate
<1>3. TypeOK'
  BY <1>1, <1>2 DEF IndexInv, TypeOK, IsTable, Allocate, tableVars
<1>4. Found(new_keys)' /\ Moved'
  <2>1. next_slot' = 0 /\ keys' = keys /\ DOMAIN keys \subseteq Nat
    BY DEF Allocate, tableVars, IndexInv, TypeOK, IsTable, Slots
  <2> QED
    BY <1>2, <2>1 DEF Found, Moved
<1>5. next_slot' \in 0..Capacity(keys')
  BY DEF Allocate, tableVars, IndexInv, TypeOK, IsTable
<1>6. CountInv'
  BY <1>2 DEF IndexInv, CountInv, Allocate, tableVars
<1> QED
  BY <1>3, <1>4, <1>5, <1>6 DEF IndexInv, EveryKeyIsFound, Allocate, tableVars

LEMMA RehashKeeps ==
  ASSUME IndexInv, Rehash
  PROVE  IndexInv'
<1> DEFINE n == next_slot
           e == keys[n]
<1>1. /\ n \in DOMAIN keys /\ n \in Nat /\ next_slot' = n + 1
      /\ UNCHANGED <<items, keys, values, count, new_capacity, pc, call>>
      /\ pc = "rehash"
  BY DEF Rehash, tableVars, IndexInv, TypeOK
<1>2. next_slot' \in 0..Capacity(keys')
  BY <1>1 DEF IndexInv, TypeOK, IsTable, Slots
<1>3. DOMAIN keys \subseteq Nat
  BY DEF IndexInv, TypeOK, IsTable, Slots
<1>4. CASE e = Null
  <2>1. UNCHANGED <<new_keys, new_values>>
    BY <1>4 DEF Rehash
  <2>2. Moved'
    <3>1. \A s \in DOMAIN keys : s < n + 1 <=> s < n \/ s = n
      BY <1>1, <1>3
    <3> QED
      BY <1>1, <1>4, <2>1, <3>1 DEF IndexInv, Moved
  <2>3. TypeOK' /\ CountInv'
    BY <1>1, <2>1 DEF IndexInv, TypeOK, IsTable, CountInv
  <2> QED
    BY <1>1, <1>2, <2>1, <2>2, <2>3 DEF IndexInv, EveryKeyIsFound
<1>5. CASE e # Null
  <2>1. PICK s \in DOMAIN new_keys :
          /\ Reaches(new_keys, e, s) /\ new_keys[s] = Null
          /\ new_keys' = [new_keys EXCEPT ![s] = e]
          /\ new_values' = [new_values EXCEPT ![s] = values[n]]
    BY <1>5 DEF Rehash
  <2>2. e \in Exprs /\ values[n] \in DOMAIN items /\ items[values[n]].expr = e
    BY <1>1, <1>5 DEF IndexInv, TypeOK, IsTable
  <2>3. /\ Capacity(new_keys) \in Nat /\ DOMAIN new_keys = Slots(Capacity(new_keys))
        /\ \A x \in DOMAIN new_keys : new_keys[x] \in Exprs \cup {Null}
        /\ DOMAIN new_values = DOMAIN new_keys /\ Found(new_keys)
    BY DEF IndexInv, TypeOK, IsTable
  <2> HIDE DEF n, e
  <2>4. Found(new_keys')
    BY <2>1, <2>2, <2>3, PutFound
  <2>5. /\ DOMAIN new_keys' = DOMAIN new_keys /\ Capacity(new_keys') = Capacity(new_keys)
        /\ DOMAIN new_values' = DOMAIN new_keys
        /\ new_keys'[s] = e /\ new_values'[s] = values[n]
        /\ \A x \in DOMAIN new_keys : x # s => /\ new_keys'[x] = new_keys[x]
                                               /\ new_values'[x] = new_values[x]
    BY <2>1, <2>3 DEF Capacity
  <2>6. TypeOK'
    <3>1. IsTable(new_keys, new_values)'
      <4>1. ASSUME NEW x \in DOMAIN new_keys, new_keys'[x] # Null
            PROVE  /\ new_keys'[x] \in Exprs
                   /\ new_values'[x] \in DOMAIN items
                   /\ items[new_values'[x]].expr = new_keys'[x]
        <5>1. CASE x = s
          BY <2>2, <2>5, <5>1
        <5>2. CASE x # s
          BY <2>5, <4>1, <5>2 DEF IndexInv, TypeOK, IsTable
        <5> QED
          BY <5>1, <5>2
      <4> QED
        BY <1>1, <2>3, <2>5, <4>1 DEF IsTable
    <3>2. IsTable(keys, values)'
      BY <1>1 DEF IndexInv, TypeOK, IsTable
    <3>3. next_slot' \in Nat
      BY <1>1
    <3> QED
      BY <1>1, <3>1, <3>2, <3>3 DEF IndexInv, TypeOK
  <2>7. Moved'
    <3>1. \A x \in DOMAIN keys : x < n + 1 <=> x < n \/ x = n
      BY <1>1, <1>3
    <3>2. ASSUME NEW t \in DOMAIN new_keys, new_keys'[t] # Null
          PROVE  \E x \in DOMAIN keys :
                   x < n + 1 /\ keys[x] = new_keys'[t] /\ values[x] = new_values'[t]
      <4>1. CASE t = s
        BY <1>1, <2>5, <3>1, <4>1 DEF e, n
      <4>2. CASE t # s
        <5>1. PICK x \in DOMAIN keys :
                x < n /\ keys[x] = new_keys[t] /\ values[x] = new_values[t]
          BY <1>1, <2>5, <3>2, <4>2 DEF IndexInv, Moved, n
        <5> QED
          BY <2>5, <3>1, <4>2, <5>1
      <4> QED
        BY <4>1, <4>2
    <3>3. ASSUME NEW x \in DOMAIN keys, x < n + 1, keys[x] # Null
          PROVE  \E t \in DOMAIN new_keys : new_keys'[t] = keys[x]
      <4>1. CASE x = n
        BY <2>5, <4>1 DEF e
      <4>2. CASE x # n
        <5>1. PICK t \in DOMAIN new_keys : new_keys[t] = keys[x]
          BY <1>1, <3>1, <3>3, <4>2 DEF IndexInv, Moved, n
        <5>2. t # s
          BY <2>1, <3>3, <5>1
        <5> QED
          BY <2>5, <5>1, <5>2
      <4> QED
        BY <4>1, <4>2
    <3> QED
      BY <1>1, <2>5, <3>2, <3>3 DEF Moved
  <2>8. CountInv'
    BY <1>1, <2>5 DEF IndexInv, CountInv
  <2> QED
    BY <1>1, <1>2, <2>4, <2>6, <2>7, <2>8 DEF IndexInv, EveryKeyIsFound
<1> QED
  BY <1>4, <1>5

\* When the last slot has been moved the new table holds the same keys.
LEMMA InstallKeys ==
  ASSUME IndexInv, Install
  PROVE  /\ Keys(new_keys) = Keys(keys)
         /\ \A s \in DOMAIN keys : keys[s] # Null =>
              \E t \in DOMAIN new_keys : new_keys[t] = keys[s] /\ new_values[t] = values[s]
<1>1. pc = "rehash" /\ next_slot \notin DOMAIN keys
  BY DEF Install
<1>2. \A s \in DOMAIN keys : s < next_slot
  BY <1>1 DEF IndexInv, TypeOK, IsTable, Slots
<1>3. Moved
  BY <1>1 DEF IndexInv
<1>4. Keys(new_keys) = Keys(keys)
  BY <1>2, <1>3 DEF Moved, Keys
<1>5. ASSUME NEW s \in DOMAIN keys, keys[s] # Null
      PROVE  \E t \in DOMAIN new_keys : new_keys[t] = keys[s] /\ new_values[t] = values[s]
  <2>1. PICK t \in DOMAIN new_keys : new_keys[t] = keys[s]
    BY <1>2, <1>3, <1>5 DEF Moved
  <2>2. PICK x \in DOMAIN keys : keys[x] = new_keys[t] /\ values[x] = new_values[t]
    BY <1>3, <1>5, <2>1 DEF Moved
  <2>3. x = s
    BY <1>5, <2>1, <2>2 DEF IndexInv, EveryKeyIsFound
  <2> QED
    BY <2>1, <2>2, <2>3
<1> QED
  BY <1>4, <1>5

LEMMA InstallKeeps ==
  ASSUME IndexInv, Install
  PROVE  IndexInv'
<1>1. /\ keys' = new_keys /\ values' = new_values /\ new_keys' = <<>> /\ new_values' = <<>>
      /\ new_capacity' = 0 /\ next_slot' = 0 /\ pc' = "insert" /\ pc = "rehash"
      /\ UNCHANGED <<items, count, call>>
  BY DEF Install
<1>2. TypeOK'
  BY <1>1, EmptyTableFacts DEF IndexInv, TypeOK, IsTable
<1>3. EveryKeyIsFound' /\ Found(new_keys)'
  BY <1>1, EmptyTableFacts DEF IndexInv, EveryKeyIsFound, Found
<1>4. CountInv'
  BY <1>1, InstallKeys DEF IndexInv, CountInv
<1> QED
  BY <1>1, <1>2, <1>3, <1>4 DEF IndexInv

LEMMA InsertKeeps ==
  ASSUME IndexInv, Insert
  PROVE  IndexInv'
<1> DEFINE e == call.expr
<1>1. /\ pc = "insert" /\ pc' = "idle" /\ call' = NoCall /\ items' = items
      /\ UNCHANGED <<new_capacity, new_keys, new_values, next_slot>>
  BY DEF Insert, newVars
<1>2. /\ e \in Exprs /\ e \notin Keys(keys) /\ e # Null
      /\ call.index = Len(items) /\ items[call.index].expr = e
  BY <1>1, HashAssumption DEF IndexInv, CountInv, TypeOK
<1>3. PICK s \in DOMAIN keys :
        /\ Reaches(keys, e, s) /\ keys[s] \in {Null, e}
        /\ keys' = [keys EXCEPT ![s] = e]
        /\ values' = [values EXCEPT ![s] = call.index]
        /\ count' = IF keys[s] = Null THEN count + 1 ELSE count
  BY DEF Insert
<1>4. keys[s] = Null /\ count' = count + 1
  BY <1>2, <1>3 DEF Keys
<1>5. /\ Capacity(keys) \in Nat /\ DOMAIN keys = Slots(Capacity(keys))
      /\ \A x \in DOMAIN keys : keys[x] \in Exprs \cup {Null}
      /\ DOMAIN values = DOMAIN keys /\ Found(keys)
  BY DEF IndexInv, TypeOK, IsTable, EveryKeyIsFound, Found
<1> HIDE DEF e
<1>6. Found(keys') /\ Keys(keys') = Keys(keys) \cup {e}
  BY <1>2, <1>3, <1>5, PutFound
<1>7. /\ DOMAIN keys' = DOMAIN keys /\ Capacity(keys') = Capacity(keys)
      /\ DOMAIN values' = DOMAIN keys
      /\ keys'[s] = e /\ values'[s] = call.index
      /\ \A x \in DOMAIN keys : x # s => keys'[x] = keys[x] /\ values'[x] = values[x]
  BY <1>3, <1>5 DEF Capacity
<1>8. call.index \in DOMAIN items
  BY <1>1, <1>2 DEF IndexInv, TypeOK
<1>9. TypeOK'
  <2>1. ASSUME NEW x \in DOMAIN keys, keys'[x] # Null
        PROVE  /\ keys'[x] \in Exprs /\ values'[x] \in DOMAIN items
               /\ items[values'[x]].expr = keys'[x]
    <3>1. CASE x = s
      BY <1>2, <1>7, <1>8, <3>1
    <3>2. CASE x # s
      BY <1>7, <2>1, <3>2 DEF IndexInv, TypeOK, IsTable
    <3> QED
      BY <3>1, <3>2
  <2>2. IsTable(keys, values)'
    BY <1>1, <1>5, <1>7, <2>1 DEF IsTable
  <2>3. IsTable(new_keys, new_values)'
    BY <1>1 DEF IndexInv, TypeOK, IsTable
  <2>4. count' \in Nat
    BY <1>4 DEF IndexInv, TypeOK
  <2> QED
    BY <1>1, <2>2, <2>3, <2>4 DEF IndexInv, TypeOK
<1>10. CountInv'
  <2>1. IsFiniteSet(Keys(keys')) /\ Cardinality(Keys(keys')) = Cardinality(Keys(keys)) + 1
    BY <1>2, <1>6, FS_AddElement DEF IndexInv, CountInv
  <2> QED
    BY <1>1, <1>4, <2>1 DEF IndexInv, CountInv
<1> QED
  BY <1>1, <1>6, <1>9, <1>10 DEF IndexInv, EveryKeyIsFound, Found

LEMMA StepIndex ==
  ASSUME IndexInv, [Next]_vars
  PROVE  IndexInv'
<1>1. CASE \E e \in Exprs, i \in Infos : Overwrite(e, i) \/ AppendItem(e, i)
  BY <1>1, OverwriteKeeps, AppendItemKeeps
<1>2. CASE Reserve \/ Double \/ ReserveFails
  BY <1>2, SizeKeeps
<1>3. CASE Allocate
  BY <1>3, AllocateKeeps
<1>4. CASE Rehash
  BY <1>4, RehashKeeps
<1>5. CASE Install
  BY <1>5, InstallKeeps
<1>6. CASE Insert
  BY <1>6, InsertKeeps
<1>7. CASE UNCHANGED vars
  BY <1>7 DEF vars, tableVars, newVars, IndexInv, TypeOK, IsTable, EveryKeyIsFound, CountInv,
              Moved
<1> QED
  BY <1>1, <1>2, <1>3, <1>4, <1>5, <1>6, <1>7 DEF Next

LEMMA IndexInvariant == Spec => []IndexInv
  BY InitIndex, StepIndex, PTL DEF Spec

\* The variables keep their types, and both tables lead to records of their
\* keys, while the table grows under them and when an allocation is refused.
THEOREM TypeCorrect == Spec => []TypeOK
<1>1. IndexInv => TypeOK
  BY DEF IndexInv
<1> QED
  BY <1>1, IndexInvariant, PTL

\* No key is ever lost or doubled, whatever its hash and those of the others.
THEOREM KeysAreFound == Spec => []EveryKeyIsFound
<1>1. IndexInv => EveryKeyIsFound
  BY DEF IndexInv
<1> QED
  BY <1>1, IndexInvariant, PTL

\* The probing loops of expr_index_insert and expr_index_reserve always have an
\* empty slot to end at: the table is never full, in use or while it is filled.
THEOREM Room == Spec => []RoomToProbe
<1>1. IndexInv => RoomToProbe
  <2> SUFFICES ASSUME IndexInv PROVE RoomToProbe
    OBVIOUS
  <2>1. /\ Capacity(keys) \in Nat /\ DOMAIN keys = Slots(Capacity(keys)) /\ Found(keys)
        /\ Capacity(new_keys) \in Nat /\ DOMAIN new_keys = Slots(Capacity(new_keys))
        /\ Found(new_keys) /\ count \in Nat
    BY DEF IndexInv, TypeOK, IsTable, EveryKeyIsFound, Found
  <2>2. Required(count + 1) \in Nat /\ Required(count + 1) > count
    BY <2>1, RequiredFacts
  <2>3. IsFiniteSet(Keys(keys)) /\ Cardinality(Keys(keys)) = count
    BY DEF IndexInv, CountInv
  <2>4. ASSUME pc = "insert" PROVE \E s \in DOMAIN keys : keys[s] = Null
    <3>1. Cardinality(Keys(keys)) < Capacity(keys)
      BY <2>1, <2>2, <2>3, <2>4 DEF IndexInv, CountInv
    <3> QED
      BY <2>1, <2>3, <3>1, RoomLeft
  <2>5. ASSUME pc = "rehash" PROVE \E s \in DOMAIN new_keys : new_keys[s] = Null
    <3>1. Keys(new_keys) \subseteq Keys(keys)
      BY <2>5 DEF IndexInv, Moved, Keys
    <3>2. /\ IsFiniteSet(Keys(new_keys)) /\ Cardinality(Keys(new_keys)) \in Nat
          /\ Cardinality(Keys(new_keys)) <= count
      BY <2>3, <3>1, FS_Subset, FS_CardinalityType
    <3>3. Cardinality(Keys(new_keys)) < Capacity(new_keys)
      BY <2>1, <2>2, <2>5, <3>2 DEF IndexInv, CountInv
    <3> QED
      BY <2>1, <3>2, <3>3, RoomLeft
  <2> QED
    BY <2>3, <2>4, <2>5 DEF RoomToProbe
<1> QED
  BY <1>1, IndexInvariant, PTL

-----------------------------------------------------------------------------
(* The refinement of ExprInfo                                              *)

\* What a client sees after a step that leaves the table in use alone.
LEMMA SeenUnchanged ==
  ASSUME UNCHANGED <<items, keys, values>>
  PROVE  \A e \in Exprs : LookupExpr(e)' = LookupExpr(e)
  BY DEF LookupExpr, Lookup

\* Each step of the index is a record, or shows nothing.
LEMMA StepIsRecord ==
  ASSUME IndexInv, IndexInv', [Next]_vars
  PROVE  \/ \E e \in Exprs, i \in Infos : \A k \in Exprs :
              LookupExpr(k)' = IF k = e THEN i ELSE LookupExpr(k)
         \/ \A k \in Exprs : LookupExpr(k)' = LookupExpr(k)
<1> DEFINE R == [expr : Exprs, info : Infos]
<1>1. /\ items \in Seq(R) /\ 0 \notin DOMAIN items /\ Found(keys)
      /\ \A s \in DOMAIN keys : keys[s] # Null =>
           keys[s] \in Exprs /\ values[s] \in DOMAIN items /\ items[values[s]].expr = keys[s]
  BY DEF IndexInv, TypeOK, IsTable, EveryKeyIsFound, Found
<1>2. /\ 0 \notin DOMAIN items' /\ Found(keys')
      /\ \A s \in DOMAIN keys' : keys'[s] # Null => values'[s] \in DOMAIN items'
  BY DEF IndexInv, TypeOK, IsTable, EveryKeyIsFound, Found
<1>3. \A k \in Exprs : /\ LookupExpr(k) = InfoIn(items, keys, values, k)
                       /\ LookupExpr(k)' = InfoIn(items', keys', values', k)
  BY DEF LookupExpr, Lookup, InfoIn, Find
<1>4. ASSUME NEW k \in Exprs
      PROVE  /\ \A s \in DOMAIN keys : keys[s] = k => LookupExpr(k) = items[values[s]].info
             /\ k \notin Keys(keys) => LookupExpr(k) = Null
  BY <1>1, <1>3, InfoFacts
<1>5. ASSUME NEW k \in Exprs
      PROVE  /\ \A s \in DOMAIN keys' : keys'[s] = k => LookupExpr(k)' = items'[values'[s]].info
             /\ k \notin Keys(keys') => LookupExpr(k)' = Null
  BY <1>2, <1>3, InfoFacts
<1>6. ASSUME NEW e \in Exprs, NEW i \in Infos, Overwrite(e, i), NEW k \in Exprs
      PROVE  LookupExpr(k)' = IF k = e THEN i ELSE LookupExpr(k)
  <2> DEFINE n == Lookup(e)
  <2>1. n \in DOMAIN items /\ items[n].expr = e
    BY <1>6, LookupFacts DEF Overwrite
  <2>2. /\ keys' = keys /\ values' = values
        /\ \A m \in DOMAIN items :
             items'[m].info = IF m = n THEN i ELSE items[m].info
    BY <1>6, OverwrittenList DEF Overwrite, tableVars
  <2>3. CASE k \in Keys(keys)
    <3>1. PICK s \in DOMAIN keys : keys[s] = k /\ k # Null
      BY <2>3 DEF Keys
    <3>2. LookupExpr(k) = items[values[s]].info /\ LookupExpr(k)' = items'[values[s]].info
      BY <1>4, <1>5, <2>2, <3>1
    <3>3. values[s] \in DOMAIN items /\ (values[s] = n <=> k = e)
      <4>1. CASE k = e
        <5>1. n = values[s]
          BY <1>1, <3>1, <4>1, FindFacts, LookupIsFind
        <5> QED
          BY <1>1, <3>1, <4>1, <5>1
      <4>2. CASE k # e
        BY <1>1, <2>1, <3>1, <4>2
      <4> QED
        BY <4>1, <4>2
    <3> QED
      BY <2>2, <3>2, <3>3
  <2>4. CASE k \notin Keys(keys)
    <3>1. k # e
      <4>1. e \in Keys(keys)
        <5>1. Find(keys, values, e) # 0
          BY <1>6, LookupIsFind DEF Overwrite
        <5> QED
          BY <1>1, <5>1, FindFacts
      <4> QED
        BY <2>4, <4>1
    <3> QED
      BY <1>4, <1>5, <2>2, <2>4, <3>1
  <2> QED
    BY <2>3, <2>4
<1>7. ASSUME NEW e \in Exprs, NEW i \in Infos, AppendItem(e, i), NEW k \in Exprs
      PROVE  LookupExpr(k)' = LookupExpr(k)
  <2>1. keys' = keys /\ values' = values /\ items' = Append(items, [expr |-> e, info |-> i])
    BY <1>7 DEF AppendItem, tableVars
  <2>2. \A m \in DOMAIN items : items'[m] = items[m]
    BY <1>1, <2>1
  <2>3. CASE k \in Keys(keys)
    <3>1. PICK s \in DOMAIN keys : keys[s] = k /\ k # Null
      BY <2>3 DEF Keys
    <3> QED
      BY <1>1, <1>4, <1>5, <2>1, <2>2, <3>1
  <2>4. CASE k \notin Keys(keys)
    BY <1>4, <1>5, <2>1, <2>4
  <2> QED
    BY <2>3, <2>4
<1>8. ASSUME Install, NEW k \in Exprs
      PROVE  LookupExpr(k)' = LookupExpr(k)
  <2>1. keys' = new_keys /\ values' = new_values /\ items' = items
    BY <1>8 DEF Install
  <2>2. CASE k \in Keys(keys)
    <3>1. PICK s \in DOMAIN keys : keys[s] = k /\ k # Null
      BY <2>2 DEF Keys
    <3>2. PICK t \in DOMAIN new_keys : new_keys[t] = k /\ new_values[t] = values[s]
      BY <1>8, <3>1, InstallKeys
    <3> QED
      BY <1>4, <1>5, <2>1, <3>1, <3>2
  <2>3. CASE k \notin Keys(keys)
    BY <1>4, <1>5, <1>8, <2>1, <2>3, InstallKeys
  <2> QED
    BY <2>2, <2>3
<1>9. ASSUME Insert
      PROVE  \E e \in Exprs, i \in Infos : \A k \in Exprs :
               LookupExpr(k)' = IF k = e THEN i ELSE LookupExpr(k)
  <2> DEFINE e == call.expr
             i == items[call.index].info
  <2>1. /\ e \in Exprs /\ e \notin Keys(keys) /\ e # Null /\ call.index \in DOMAIN items
        /\ items' = items
    BY <1>9, HashAssumption DEF Insert, IndexInv, CountInv, TypeOK
  <2>2. i \in Infos
    <3>1. items[call.index] \in R
      <4> HIDE DEF R
      <4> QED
        BY <1>1, <2>1, MemberOf
    <3> QED
      BY <3>1
  <2>3. PICK s \in DOMAIN keys :
          /\ keys[s] \in {Null, e}
          /\ keys' = [keys EXCEPT ![s] = e]
          /\ values' = [values EXCEPT ![s] = call.index]
    BY <1>9 DEF Insert
  <2>4. /\ DOMAIN keys' = DOMAIN keys /\ keys[s] = Null /\ keys'[s] = e
        /\ values'[s] = call.index
        /\ \A x \in DOMAIN keys : x # s => keys'[x] = keys[x] /\ values'[x] = values[x]
    <3>1. keys[s] # e
      BY <2>1 DEF Keys
    <3>2. DOMAIN values = DOMAIN keys
      BY DEF IndexInv, TypeOK, IsTable
    <3> QED
      BY <2>3, <3>1, <3>2
  <2> HIDE DEF e, i
  <2>5. ASSUME NEW k \in Exprs
        PROVE  LookupExpr(k)' = IF k = e THEN i ELSE LookupExpr(k)
    <3>1. CASE k = e
      BY <1>5, <2>1, <2>4, <3>1 DEF i
    <3>2. CASE k # e /\ k \in Keys(keys)
      <4>1. PICK x \in DOMAIN keys : keys[x] = k /\ k # Null
        BY <3>2 DEF Keys
      <4>2. x # s
        BY <2>4, <4>1
      <4> QED
        BY <1>4, <1>5, <2>1, <2>4, <3>2, <4>1, <4>2
    <3>3. CASE k # e /\ k \notin Keys(keys)
      <4>1. k \notin Keys(keys')
        BY <2>4, <3>3 DEF Keys
      <4> QED
        BY <1>4, <1>5, <3>3, <4>1
    <3> QED
      BY <3>1, <3>2, <3>3
  <2> QED
    BY <2>1, <2>2, <2>5
<1>10. CASE Reserve \/ Double \/ Allocate \/ ReserveFails \/ Rehash \/ UNCHANGED vars
  BY <1>10, SeenUnchanged
     DEF Reserve, Double, Allocate, ReserveFails, Rehash, vars, tableVars
<1> QED
  BY <1>6, <1>7, <1>8, <1>9, <1>10 DEF Next

\* The list and the table implement the partial map the later phases rely on.
THEOREM Refinement == Spec => ImplementsExprInfo
<1>1. Init => Table!Init
  <2> SUFFICES ASSUME Init PROVE \A e \in Exprs : LookupExpr(e) = Null
    BY DEF Table!Init
  <2> QED
    BY EmptyTableFacts DEF Init, LookupExpr, Lookup
<1>2. IndexInv /\ IndexInv' /\ [Next]_vars => [Table!Next]_([e \in Exprs |-> LookupExpr(e)])
  <2> SUFFICES ASSUME IndexInv, IndexInv', [Next]_vars
               PROVE  [Table!Next]_([e \in Exprs |-> LookupExpr(e)])
    OBVIOUS
  <2>1. CASE \A k \in Exprs : LookupExpr(k)' = LookupExpr(k)
    BY <2>1
  <2>2. ASSUME NEW e \in Exprs, NEW i \in Infos,
               \A k \in Exprs : LookupExpr(k)' = IF k = e THEN i ELSE LookupExpr(k)
        PROVE  Table!Next
    BY <2>2 DEF Table!Next, Table!Record
  <2> QED
    BY <2>1, <2>2, StepIsRecord
<1> QED
  BY <1>1, <1>2, IndexInvariant, PTL DEF Spec, ImplementsExprInfo, Table!Spec

=============================================================================
