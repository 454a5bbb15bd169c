---------------------------- MODULE NovaExprIndex ----------------------------
(***************************************************************************)
(* The per-expression type and effect records of the semantic analyzer     *)
(* (src/src/semantic.cpp): a growing list, and a hash table with linear    *)
(* probing from the address of an expression to its place in the list.     *)
(*                                                                         *)
(* expr_info_list_record is one call; its allocations, each iteration of   *)
(* the loops that size a larger table and move the keys to it, and the     *)
(* final insertion are steps of their own, so that what a failed           *)
(* allocation leaves behind and the table in the middle of a move are      *)
(* states of the model.  Nothing else runs meanwhile.                      *)
(***************************************************************************)
EXTENDS Integers, SequencesExt

CONSTANTS
  Exprs,         \* addresses of AST nodes
  Infos,         \* a type and an effect mask
  Null,
  Hash,          \* expr_hash: an address without its low four bits
  FirstCapacity, \* first capacity of the table (32)
  MaxItems,      \* bound: records in the list
  MayFail        \* what the allocator may refuse: "index"

ASSUME HashAssumption == Hash \in [Exprs -> Nat] /\ Null \notin Exprs \cup Infos
ASSUME CapacityAssumption == FirstCapacity \in Nat \ {0, 1} /\ MaxItems \in Nat
ASSUME FailAssumption == MayFail \subseteq {"index"}

VARIABLES
  items,          \* list->items: [expr, info]
  keys, values,   \* expr_index_keys, expr_index_values, from slot 0
  count,          \* expr_index_count
  new_capacity, new_keys, new_values, next_slot, \* locals of expr_index_reserve
  pc,
  call            \* the expression being recorded and its place in the list

tableVars == <<keys, values, count>>
newVars   == <<new_capacity, new_keys, new_values, next_slot>>
vars == <<items, tableVars, newVars, pc, call>>

NoCall == [expr |-> Null, index |-> 0]

-----------------------------------------------------------------------------
(* Linear probing in a table of any size, a function from 0..capacity-1    *)

Slots(capacity) == 0..(capacity - 1)
Capacity(table) == Cardinality(DOMAIN table)
NewTable(capacity) == [s \in Slots(capacity) |-> Null]

\* The d-th slot tried for e; the code masks with the capacity, a power of two.
Probe(table, e, d) == (Hash[e] + d) % Capacity(table)

\* The probes for e reach slot s: no earlier one meets e or an empty slot.
Reaches(table, e, s) ==
  \E d \in DOMAIN table :
    /\ Probe(table, e, d) = s
    /\ \A c \in 0..(d - 1) : table[Probe(table, e, c)] \notin {e, Null}

\* expr_index_lookup: the place in the list, from 1, or 0 where the code
\* returns -1
Lookup(e) ==
  IF \E s \in DOMAIN keys : Reaches(keys, e, s) /\ keys[s] = e
  THEN values[CHOOSE s \in DOMAIN keys : Reaches(keys, e, s) /\ keys[s] = e]
  ELSE 0

\* nova_semantic_lookup_expr
LookupExpr(e) == IF Lookup(e) = 0 THEN Null ELSE items[Lookup(e)].info

\* The capacity with which n keys fill at most seven tenths of the table.
Required(n) == (n * 10) \div 7 + 1

-----------------------------------------------------------------------------
Init ==
  /\ items = <<>>
  /\ keys = <<>> /\ values = <<>> /\ count = 0
  /\ new_capacity = 0 /\ new_keys = <<>> /\ new_values = <<>> /\ next_slot = 0
  /\ pc = "idle" /\ call = NoCall

\* expr_info_list_record, the expression has a record: overwrite it
Overwrite(e, i) ==
  /\ pc = "idle" /\ Lookup(e) # 0
  /\ items' = [items EXCEPT ![Lookup(e)].info = i]
  /\ UNCHANGED <<tableVars, newVars, pc, call>>

\* Mistake: the place is taken after the list grew (TypeOK).
AppendItemLate(e, i) ==
  /\ pc = "idle" /\ Lookup(e) = 0 /\ Len(items) < MaxItems
  /\ items' = Append(items, [expr |-> e, info |-> i])
  /\ call' = [expr |-> e, index |-> Len(items) + 2]
  /\ pc' = "reserve"
  /\ UNCHANGED <<tableVars, newVars>>

\* expr_info_list_record, a new expression: append a record and index it.  A
\* list that cannot grow drops the record, a step that changes nothing.
AppendItem(e, i) ==
  /\ pc = "idle" /\ Lookup(e) = 0 /\ Len(items) < MaxItems
  /\ items' = Append(items, [expr |-> e, info |-> i])
  /\ call' = [expr |-> e, index |-> Len(items) + 1]
  /\ pc' = "reserve"
  /\ UNCHANGED <<tableVars, newVars>>

\* expr_index_reserve: is the table large enough for one more key?
Reserve ==
  /\ pc = "reserve"
  /\ IF Capacity(keys) >= Required(count + 1)
     THEN pc' = "insert" /\ UNCHANGED new_capacity
     ELSE /\ pc' = "double"
          /\ new_capacity' = IF Capacity(keys) = 0 THEN FirstCapacity ELSE Capacity(keys)
  /\ UNCHANGED <<items, tableVars, new_keys, new_values, next_slot, call>>

\* expr_index_reserve: while (new_capacity < required_capacity)
Double ==
  /\ pc = "double" /\ new_capacity < Required(count + 1)
  /\ new_capacity' = 2 * new_capacity
  /\ UNCHANGED <<items, tableVars, new_keys, new_values, next_slot, pc, call>>

\* expr_index_reserve: calloc and malloc of the new table
Allocate ==
  /\ pc = "double" /\ new_capacity >= Required(count + 1)
  /\ new_keys' = NewTable(new_capacity)
  /\ new_values' = [s \in Slots(new_capacity) |-> 0]
  /\ next_slot' = 0
  /\ pc' = "rehash"
  /\ UNCHANGED <<items, tableVars, new_capacity, call>>

\* expr_index_reserve: calloc or malloc refuses the new table; the record
\* stays in the list, without an index
ReserveFails ==
  /\ pc = "double" /\ new_capacity >= Required(count + 1)
  /\ "index" \in MayFail
  /\ new_capacity' = 0
  /\ pc' = "idle" /\ call' = NoCall
  /\ UNCHANGED <<items, tableVars, new_keys, new_values, next_slot>>

\* Mistake: a key keeps its slot number in the larger table
\* (ImplementsExprInfo, EveryKeyIsFound).
RehashInPlace ==
  /\ pc = "rehash" /\ next_slot \in DOMAIN keys
  /\ new_keys' = [new_keys EXCEPT ![next_slot] = keys[next_slot]]
  /\ new_values' = [new_values EXCEPT ![next_slot] = values[next_slot]]
  /\ next_slot' = next_slot + 1
  /\ UNCHANGED <<items, tableVars, new_capacity, pc, call>>

\* expr_index_reserve: one iteration of the loop over the old table
Rehash ==
  /\ pc = "rehash" /\ next_slot \in DOMAIN keys
  /\ LET e == keys[next_slot]
     IN IF e = Null THEN UNCHANGED <<new_keys, new_values>>
        ELSE \E s \in DOMAIN new_keys :
               /\ Reaches(new_keys, e, s) /\ new_keys[s] = Null
               /\ new_keys' = [new_keys EXCEPT ![s] = e]
               /\ new_values' = [new_values EXCEPT ![s] = values[next_slot]]
  /\ next_slot' = next_slot + 1
  /\ UNCHANGED <<items, tableVars, new_capacity, pc, call>>

\* expr_index_reserve: the new table takes the place of the old one
Install ==
  /\ pc = "rehash" /\ next_slot \notin DOMAIN keys
  /\ keys' = new_keys /\ values' = new_values
  /\ new_capacity' = 0 /\ new_keys' = <<>> /\ new_values' = <<>> /\ next_slot' = 0
  /\ pc' = "insert"
  /\ UNCHANGED <<items, count, call>>

\* Mistake: the count misses the new key (RoomToProbe).
InsertUncounted ==
  /\ pc = "insert"
  /\ \E s \in DOMAIN keys :
       /\ Reaches(keys, call.expr, s) /\ keys[s] \in {Null, call.expr}
       /\ keys' = [keys EXCEPT ![s] = call.expr]
       /\ values' = [values EXCEPT ![s] = call.index]
  /\ pc' = "idle" /\ call' = NoCall
  /\ UNCHANGED <<items, count, newVars>>

\* expr_index_insert
Insert ==
  /\ pc = "insert"
  /\ \E s \in DOMAIN keys :
       /\ Reaches(keys, call.expr, s) /\ keys[s] \in {Null, call.expr}
       /\ keys' = [keys EXCEPT ![s] = call.expr]
       /\ values' = [values EXCEPT ![s] = call.index]
       /\ count' = IF keys[s] = Null THEN count + 1 ELSE count
  /\ pc' = "idle" /\ call' = NoCall
  /\ UNCHANGED <<items, newVars>>

Next ==
  \/ \E e \in Exprs, i \in Infos : Overwrite(e, i) \/ AppendItem(e, i)
  \/ Reserve \/ Double \/ Allocate \/ ReserveFails \/ Rehash \/ Install \/ Insert

Spec == Init /\ [][Next]_vars

-----------------------------------------------------------------------------
(* Properties *)

Keys(table) == {table[s] : s \in DOMAIN table} \ {Null}

\* A table, its values, and a list that belongs with them.
IsTable(table, places) ==
  /\ Capacity(table) \in Nat /\ DOMAIN table = Slots(Capacity(table))
  /\ DOMAIN places = DOMAIN table
  /\ \A s \in DOMAIN table : table[s] # Null =>
       /\ table[s] \in Exprs
       /\ places[s] \in DOMAIN items /\ items[places[s]].expr = table[s]

\* The types, and that both tables lead to records of their keys.
TypeOK ==
  /\ items \in Seq([expr : Exprs, info : Infos])
  /\ IsTable(keys, values) /\ IsTable(new_keys, new_values)
  /\ count \in Nat /\ new_capacity \in Nat /\ next_slot \in Nat
  /\ pc \in {"idle", "reserve", "double", "rehash", "insert"}
  /\ IF pc = "idle" THEN call = NoCall
     ELSE /\ items # <<>> /\ call.index = Len(items)
          /\ items[call.index].expr = call.expr

\* Every key can be reached by its own probes and sits in one slot only: keys
\* that collided or were moved to a larger table are still found.
EveryKeyIsFound ==
  \A s \in DOMAIN keys : keys[s] # Null =>
    /\ Reaches(keys, keys[s], s)
    /\ \A t \in DOMAIN keys : keys[t] = keys[s] => t = s

\* Whenever expr_index_insert and expr_index_reserve probe for a place, there
\* is an empty slot, so their loops `while (keys[slot])` end; and
\* expr_index_count, by which reserve decides to grow, counts the keys.
RoomToProbe ==
  /\ count = Cardinality(Keys(keys))
  /\ pc = "insert" => \E s \in DOMAIN keys : keys[s] = Null
  /\ pc = "rehash" => \E s \in DOMAIN new_keys : new_keys[s] = Null

Table == INSTANCE ExprInfo WITH info <- [e \in Exprs |-> LookupExpr(e)]

\* Through nova_semantic_lookup_expr the list and the table are a partial map:
\* a record is seen from the moment expr_index_insert puts it there, moving the
\* keys shows nothing, and an allocation that fails loses only the record that
\* was being made.
ImplementsExprInfo == Table!Spec

=============================================================================
