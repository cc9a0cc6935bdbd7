------------------------ MODULE LiquidationEngineMC -------------------------
(* A small instance of LiquidationEngine: the longs of two users, the      *)
(* second liquidated below the first, and marks that cross neither or both. *)
EXTENDS LiquidationEngine, TLC

CONSTANTS p1, p2, u1, u2

TwoOwners == p1 :> u1 @@ p2 :> u2
BothLong == p1 :> "long" @@ p2 :> "long"
Staggered == p1 :> 95 @@ p2 :> 85

=============================================================================
