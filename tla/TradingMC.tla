----------------------------- MODULE TradingMC ------------------------------
(***************************************************************************)
(* Small instances of Trading for TLC.  One cent is one unit, a price      *)
(* quantum is a dollar's worth, and the fee is 1/8 of the notional, so     *)
(* that a debit is the collateral plus 1.                                  *)
(***************************************************************************)
EXTENDS Trading, TLC

CONSTANTS k1, k2, btc, eth, t1, t2, t3, t4, p1, p2, u1

(* Two orders that cost 5 and 3, and one that shares its key with the      *)
(* second and its pair with the first.                                     *)
Orders ==
  {[key |-> k1, pair |-> btc, side |-> "long",  leverage |-> 2, collateral |-> 4],
   [key |-> k2, pair |-> eth, side |-> "short", leverage |-> 2, collateral |-> 2],
   [key |-> k2, pair |-> btc, side |-> "short", leverage |-> 2, collateral |-> 4]}

OneOrder == {o \in Orders : o.key = k1}

TwoOrders == OneOrder \cup {o \in Orders : o.pair = eth}

Prices == {2, 4}

Symmetry == Permutations(Task) \cup Permutations(Pid)
=============================================================================
