-------------------------- MODULE MCNovaExprIndex --------------------------
(***************************************************************************)
(* Four nodes whose addresses collide at every capacity the table takes    *)
(* (2, 4 and 8 slots): a first capacity of 2 instead of 32 makes it move   *)
(* its keys twice.                                                         *)
(***************************************************************************)
EXTENDS NovaExprIndex, TLC

CONSTANTS e1, e2, e3, e4, number, string

FourExprs == {e1, e2, e3, e4}
Types == {number, string}
\* e1 and e2 collide in every table, e3 with them up to 4 slots, e4 wraps round
Colliding ==
  [e \in FourExprs |-> CASE e = e1 -> 7 [] e = e2 -> 15 [] e = e3 -> 3
                         [] e = e4 -> 6]
\* Types are only ever copied.
Symmetry == Permutations(Types)
=============================================================================
