-------------------------- MODULE NovaTypeRegistry --------------------------
(***************************************************************************)
(* Type declarations in the semantic analyzer (src/src/semantic.cpp):      *)
(* nova_semantic_analyze_program registers every type of the program, then *)
(* analyzes the other declarations, which NovaAnalyzer models and          *)
(* TypeTables abstracts.                                                   *)
(*                                                                         *)
(* The type records live in an array that realloc moves as it grows.  The  *)
(* type pool and the constructors in scope keep pointers into it: a        *)
(* pointer is the block it points into and the place in the array.  What a *)
(* read through a pointer into a freed block returns is undefined.         *)
(*                                                                         *)
(* An operator whose comment begins with "Mistake:" is a faulty variant of *)
(* the one below it, for checking that the property named notices.         *)
(***************************************************************************)
EXTENDS NovaSyntax

CONSTANTS
  Decls,         \* declarations a program may consist of
  FirstCapacity, \* first capacity of the array of records (4)
  ReallocMoves   \* may realloc return another block?

ASSUME CapacityAssumption ==
  FirstCapacity \in Nat \ {0} /\ ReallocMoves \in BOOLEAN

\* A type is declared with a list of variants, each with a list of names.
ASSUME DeclsAssumption ==
  \A d \in Decls : d.kind \in {"sum", "tuple"} =>
    /\ d.variants \in Seq(ToSet(d.variants)) /\ d.fields \in Seq(ToSet(d.fields))
    /\ \A v \in ToSet(d.variants) : v.payload \in Seq(ToSet(v.payload))

\* NULL is no pointer.
ASSUME NoneAssumption == None \notin [block : Nat, index : Nat]

VARIABLES
  program,     \* the declarations
  types,       \* ctx->types, numbered from 1
  records,     \* ctx->type_records.items: [name, type_id, variants]
  capacity,    \* ctx->type_records.capacity
  block,       \* the block records is in; those before it are freed
  scope,       \* ctx->scope: name -> [type, effects, record]
  diagnostics, \* [message, at], at the index of a declaration
  pass,        \* "types", "functions", "done"
  next         \* the next declaration

vars == <<program, types, records, capacity, block, scope, diagnostics, pass, next>>

IsType(d) == program[d].kind \in {"sum", "tuple"}

Unknown == 1
Unit    == 2
Number  == 3
String  == 4
Bool    == 5
BuiltIn == [i \in 1..5 |-> [kind |-> <<"unknown", "unit", "number", "string", "bool">>[i]]]

\* the types resolve_type_token knows by name
BuiltInNames == [Number |-> Number, String |-> String, Bool |-> Bool, Unit |-> Unit]

\* NovaEffectMask, a set of marks; type_function, type_list
EffectMarks == {"async", "impure"}
FunctionsAndLists(ids) ==
  [kind : {"function"}, params : Seq(ids), result : ids, effects : SUBSET EffectMarks]
  \cup [kind : {"list"}, element : ids]

Pointer(b, i) == [block |-> b, index |-> i]
\* what the analyzer reports
Messages ==
  {"unknown type name", "symbol already defined in scope", "tuple type has no fields",
   "tuple field missing type annotation", "type mismatch", "undefined identifier",
   "attempted to call a non-function value", "argument count mismatch",
   "pipeline stage is not callable", "pipeline stage expects fewer arguments",
   "match expression may be non-exhaustive", "if condition must be Bool"}
Error(message, at) == [message |-> message, at |-> at]
SeqIf(condition, x) == IF condition THEN <<x>> ELSE <<>>

-----------------------------------------------------------------------------
(* Names and types.  recs is the array of records to search.               *)

\* Mistake: the last record is not looked at (TypeNamesResolved).
NamedRecordsButLast(recs, name) ==
  {i \in DOMAIN recs : i < Len(recs) /\ recs[i].name = name}
NamedRecords(recs, name) == {i \in DOMAIN recs : recs[i].name = name}

\* resolve_type_token, type_record_find: the first record of that name
Resolve(recs, name) ==
  IF name \in DOMAIN BuiltInNames THEN BuiltInNames[name]
  ELSE IF NamedRecords(recs, name) # {} THEN recs[Min(NamedRecords(recs, name))].type_id
  ELSE Unknown

\* the diagnostic resolve_type_token adds
Unresolved(recs, name, at) ==
  SeqIf(name # None /\ name \notin DOMAIN BuiltInNames /\ NamedRecords(recs, name) = {},
        Error("unknown type name", at))

\* an entry that has the name is left alone
Joined(sc, name, entry) ==
  [n \in DOMAIN sc \cup {name} |-> IF n \in DOMAIN sc THEN sc[n] ELSE entry]

\* Mistake: a later definition replaces the earlier one (ConstructorsKept).
ScopeDefineOver(sc, name, entry, at) ==
  [scope |-> (name :> entry) @@ sc,
   errors |-> SeqIf(name \in DOMAIN sc, Error("symbol already defined in scope", at))]

\* scope_define
ScopeDefine(sc, name, entry, at) ==
  [scope |-> Joined(sc, name, entry),
   errors |-> SeqIf(name \in DOMAIN sc, Error("symbol already defined in scope", at))]

\* unify_types
Unify(a, b) == IF a = Unknown THEN b ELSE IF b = Unknown \/ a = b THEN a ELSE Unknown
Mismatch(a, b, at) ==
  SeqIf(a # b /\ Unknown \notin {a, b}, Error("type mismatch", at))

\* Mistake: an arm for a variant already seen counts again
\* (ExhaustivenessInPlace).
CoveredByArms(variants, arms) ==
  Cardinality({va \in (DOMAIN variants) \X (DOMAIN arms) :
                 variants[va[1]].name = arms[va[2]].name})

\* check_match_exhaustiveness: the variants some arm names
Covered(variants, arms) ==
  Cardinality({v \in DOMAIN variants :
                 \E a \in DOMAIN arms : variants[v].name = arms[a].name})

-----------------------------------------------------------------------------
\* nova_semantic_context_init
Start ==
  /\ types = BuiltIn /\ records = <<>> /\ capacity = 0 /\ block = 0
  /\ scope = <<>> /\ diagnostics = <<>>
  /\ pass = "types" /\ next = 1

Init == program \in Seq(Decls) /\ Start

\* May the array stay where it is, may it move?
Blocks ==
  IF Len(records) < capacity THEN {block}
  ELSE IF capacity = 0 THEN {block + 1}
  ELSE {block} \cup (IF ReallocMoves THEN {block + 1} ELSE {})

\* type_record_add: the array doubles
NewCapacity ==
  IF Len(records) < capacity THEN capacity
  ELSE IF capacity = 0 THEN FirstCapacity ELSE 2 * capacity

\* One variant of a sum type: resolve its payload, define its constructor.  st
\* holds what register_type_decl has built so far.
DeclareVariant(recs, record, id, st, variant) ==
  LET params == [p \in DOMAIN variant.payload |->
                   IF variant.payload[p] = None THEN Unknown
                   ELSE Resolve(recs, variant.payload[p])]
      unknown == FlattenSeq([p \in DOMAIN variant.payload |->
                               Unresolved(recs, variant.payload[p], next)])
      pool == IF params = <<>> THEN st.types
              ELSE Append(st.types, [kind |-> "function", params |-> params,
                                     result |-> id, effects |-> {}])
      defined == ScopeDefine(st.scope, variant.name,
                   [type |-> IF params = <<>> THEN id ELSE Len(pool), effects |-> {},
                    record |-> record],
                   next)
  IN [types |-> pool, scope |-> defined.scope,
      diagnostics |-> st.diagnostics \o unknown \o defined.errors]

\* the variants in turn, from what st holds before the first
DeclareVariants(recs, record, id, st, variants) ==
  LET built[v \in 0..Len(variants)] ==
        IF v = 0 THEN st ELSE DeclareVariant(recs, record, id, built[v - 1], variants[v])
  IN built[Len(variants)]

TupleWarnings(fields) ==
  IF fields = <<>> THEN <<Error("tuple type has no fields", next)>>
  ELSE FlattenSeq([i \in DOMAIN fields |->
         SeqIf(fields[i] = None, Error("tuple field missing type annotation", next))])

\* Mistake: the pool points one record too far (RecordPointersValid).
NewRecordAfter(b) == Pointer(b, Len(records) + 2)
NewRecord(b) == Pointer(b, Len(records) + 1)

\* register_type_decl
RegisterType ==
  /\ pass = "types" /\ next \in DOMAIN program /\ IsType(next)
  /\ LET d == program[next]
         id == Len(types) + 1
         recs == Append(records, [name |-> d.name, type_id |-> id, variants |-> d.variants])
     IN \E b \in Blocks :
          LET record == NewRecord(b)
              built == DeclareVariants(recs, record, id,
                         [types |-> Append(types, [kind |-> "custom", record |-> record]),
                          scope |-> scope, diagnostics |-> diagnostics],
                         d.variants)
          IN /\ records' = recs /\ block' = b
             /\ types' = built.types /\ scope' = built.scope
             /\ diagnostics' = built.diagnostics \o
                  (IF d.kind = "tuple" THEN TupleWarnings(d.fields) ELSE <<>>)
  /\ capacity' = NewCapacity
  /\ next' = next + 1
  /\ UNCHANGED <<program, pass>>

\* The loops of nova_semantic_analyze_program: each passes over the
\* declarations of the other kind, and the second starts where the first ends.
NextDeclaration ==
  /\ \/ /\ next \in DOMAIN program
        /\ (pass = "types") # IsType(next)
        /\ pass \in {"types", "functions"}
        /\ next' = next + 1 /\ UNCHANGED pass
     \/ /\ next \notin DOMAIN program
        /\ \/ pass = "types" /\ pass' = "functions" /\ next' = 1
           \/ pass = "functions" /\ pass' = "done" /\ UNCHANGED next
  /\ UNCHANGED <<program, types, records, capacity, block, scope, diagnostics>>

-----------------------------------------------------------------------------
(* Properties.  They read the source program, not the registry's tables.   *)

VariantNames(d) == {program[d].variants[v].name : v \in DOMAIN program[d].variants}

\* realloc never moved the array, as when it grows in place or when all the
\* types of the program fit its first capacity.
InPlace == block <= 1

Reports(message, d) == \E i \in DOMAIN diagnostics : diagnostics[i] = Error(message, d)

Pointers == [block : 1..block, index : DOMAIN records]

\* The tables have their types, and no record lies beyond the capacity of the
\* array or a type beyond the pool.
RegistryTypeOK ==
  /\ types \in Seq(ToSet(BuiltIn) \cup FunctionsAndLists(DOMAIN types)
                     \cup [kind : {"custom"}, record : Pointers])
  /\ records \in Seq(UNION {[name : {d.name}, type_id : DOMAIN types, variants : {d.variants}] :
                             d \in {program[t] : t \in {t \in DOMAIN program : IsType(t)}}})
  /\ capacity \in Nat /\ block \in Nat /\ Len(records) <= capacity
  /\ \A n \in DOMAIN scope :
       scope[n] \in [type : DOMAIN types, effects : SUBSET EffectMarks, record : {None} \cup Pointers]
  /\ diagnostics \in Seq([message : Messages, at : DOMAIN program])
  /\ pass \in {"types", "functions", "done", "crashed"}
  /\ next \in 1..(Len(program) + 1)

\* Every pointer to a type record that the pool or the scope keeps leads from a
\* type to its own record and from a constructor to a record that has it, a
\* live one as long as the array stays in place (the pointers that
\* check_match_exhaustiveness, analyze_match and the hover of nova-lsp follow).
RecordPointersValid ==
  /\ \A id \in DOMAIN types : types[id].kind = "custom" =>
       /\ InPlace => types[id].record.block = block
       /\ types[id].record.index \in DOMAIN records
       /\ records[types[id].record.index].type_id = id
  /\ \A n \in DOMAIN scope : scope[n].record # None =>
       /\ InPlace => scope[n].record.block = block
       /\ \E v \in ToSet(records[scope[n].record.index].variants) : v.name = n

\* A constructor keeps the meaning of its first declaration, whatever later
\* types and functions are called, and every later one is reported
\* (scope_define).
ConstructorsKept ==
  pass = "done" => \A t \in DOMAIN program : IsType(t) =>
    \A name \in VariantNames(t) :
      IF \A c \in 1..(t - 1) : IsType(c) => name \notin VariantNames(c)
      THEN /\ scope[name].record # None
           /\ records[scope[name].record.index].variants = program[t].variants
      ELSE Reports("symbol already defined in scope", t)

\* the first type of its name
FirstNamed(t) ==
  IsType(t) /\ \A c \in 1..(t - 1) : IsType(c) => program[c].name # program[t].name

\* A payload may name the types declared before it and its own: exactly the
\* other names are reported (resolve_type_token during register_type_decl).
\* When all types are declared, a name stands for the first type so named, with
\* the variants of its declaration (type_record_find).
TypeNamesResolved ==
  pass = "done" => \A t \in DOMAIN program : IsType(t) =>
    /\ Reports("unknown type name", t) <=>
         \E v \in ToSet(program[t].variants) : \E name \in ToSet(v.payload) :
           /\ name \notin {None} \cup DOMAIN BuiltInNames
           /\ ~\E c \in 1..t : IsType(c) /\ program[c].name = name
    /\ FirstNamed(t) /\ program[t].name \notin DOMAIN BuiltInNames =>
         LET id == Resolve(records, program[t].name)
         IN /\ types[id].kind = "custom"
            /\ records[types[id].record.index].variants = program[t].variants
=============================================================================
