------------------------------ MODULE MCNovaGC ------------------------------
(***************************************************************************)
(* Small heaps for NovaGC: two or three addresses, two client variables,   *)
(* and objects of 400 bytes against a first threshold of 800, so that the  *)
(* third object needs a cycle first (its end raises the threshold).        *)
(***************************************************************************)
EXTENDS NovaGC, TLC

CONSTANTS o1, o2, o3, s1, s2

TwoObjects   == {o1, o2}
ThreeObjects == {o1, o2, o3}
TwoSlots     == {s1, s2}

\* The model never compares two objects or two slots except for equality.
Symmetry == Permutations(Objects) \cup Permutations(Slots)

\* A client with liberties ends up holding a pointer to freed memory; what a
\* C++ program does once it uses one is undefined, so exploration stops there.
BeforeDangling == ReachableStaysLive

=============================================================================
