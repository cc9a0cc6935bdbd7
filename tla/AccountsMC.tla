----------------------------- MODULE AccountsMC ------------------------------
(* A small instance of Accounts. *)
EXTENDS Accounts, TLC

CONSTANTS u1, s1, s2, k1, k2, r1, r2

MCSymmetry ==
  Permutations({r1, r2}) \cup Permutations({k1, k2}) \cup Permutations({s1, s2})
=============================================================================
