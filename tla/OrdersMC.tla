------------------------------ MODULE OrdersMC -------------------------------
(* A small instance of Orders: three requests of one ticket on two pairs.  *)
EXTENDS Orders, TLC

CONSTANTS r1, r2, r3, k1, k2, k3, p1, p2

Symmetry == Permutations(Request) \cup Permutations(Key) \cup Permutations(Pair)
=============================================================================
