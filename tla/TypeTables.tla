----------------------------- MODULE TypeTables -----------------------------
(***************************************************************************)
(* What the analyzer promises of its tables of types, constructors and     *)
(* names, whatever the expressions of the program are: types are declared  *)
(* as NovaTypeRegistry says, and the analysis of a let or fun declaration  *)
(* adds to the tables and changes nothing that is in them.  NovaAnalyzer   *)
(* implements this specification, and NovaTypeRegistryProofs proves of it  *)
(* what the tables hold for every program.                                 *)
(***************************************************************************)
EXTENDS NovaTypeRegistry

\* t is s with members of S after it.
Extends(s, t, S) ==
  LET added == SubSeq(t, Len(s) + 1, Len(t)) IN t = s \o added /\ added \in Seq(S)

\* All that analyze_let and analyze_fun do to the tables: the types of literals,
\* lambdas and the function itself join the pool, the name joins the scope unless
\* it is taken, and what is reported is reported of this declaration.  Types are
\* neither declared nor changed.
AnalyzeDeclaration ==
  /\ pass = "functions" /\ next \in DOMAIN program /\ ~IsType(next)
  /\ Extends(types, types', FunctionsAndLists(DOMAIN types'))
  /\ \E entry \in [type : DOMAIN types', effects : SUBSET EffectMarks, record : {None}] :
       scope' = Joined(scope, program[next].name, entry)
  /\ Extends(diagnostics, diagnostics', [message : Messages, at : {next}])
  /\ next' = next + 1
  /\ UNCHANGED <<program, records, capacity, block, pass>>

\* Following a pointer into a freed block may also end the program.
Crash ==
  /\ pass = "functions" /\ next \in DOMAIN program /\ ~IsType(next)
  /\ ~InPlace
  /\ pass' = "crashed"
  /\ UNCHANGED <<program, types, records, capacity, block, scope, diagnostics, next>>

Next == RegisterType \/ NextDeclaration \/ AnalyzeDeclaration \/ Crash

Spec == Init /\ [][Next]_vars
=============================================================================
