------------------------------ MODULE ExprInfo ------------------------------
(***************************************************************************)
(* What the later phases rely on when they ask the semantic context about  *)
(* an expression (nova_semantic_lookup_expr, src/include/nova/semantic.h): *)
(* a partial map from expressions to what was last recorded about them.    *)
(* A record may fail for lack of memory; it then changes nothing.          *)
(***************************************************************************)
CONSTANTS Exprs, Infos, Null

VARIABLE info

Init == info = [e \in Exprs |-> Null]

Record(e, i) == info' = [info EXCEPT ![e] = i]

Next == \E e \in Exprs, i \in Infos : Record(e, i)

Spec == Init /\ [][Next]_info

\* Nothing recorded is ever forgotten.
NothingForgotten == [][\A e \in Exprs : info[e] # Null => info'[e] # Null]_info
=============================================================================
