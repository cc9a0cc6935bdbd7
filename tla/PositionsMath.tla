---------------------------- MODULE PositionsMath ----------------------------
(***************************************************************************)
(* The pure position arithmetic of backend/app/positions_math.py.          *)
(*                                                                         *)
(* The code computes with Decimal values quantized to fixed quanta; here a *)
(* quantity is the integer number of its quanta:                           *)
(*   money  in cents           (CENT,          0.01)                       *)
(*   price  in price quanta    (PRICE_QUANTUM, 1e-8)                       *)
(*   size   in size quanta     (SIZE_QUANTUM,  1e-10)                      *)
(* A size times a price is then counted in units of which Scale make one   *)
(* cent (10^16 with the quanta above; a small number when TLC enumerates). *)
(* The 28 significant digits Decimal keeps between two roundings are taken *)
(* as exact.                                                               *)
(***************************************************************************)
EXTENDS Integers, FiniteSetsExt

CONSTANTS
  Scale,    \* size quanta * price quanta in one cent
  MmrNum,   \* maintenance_margin_rate = MmrNum / MmrDen
  MmrDen,
  FeeBps    \* taker_fee_bps

ASSUME MathAssumption ==
  /\ Scale \in Nat \ {0}
  /\ MmrNum \in Nat
  /\ MmrDen \in Nat \ {0}
  /\ FeeBps \in Nat

Side == {"long", "short"}

(* n / d rounded to the nearest integer, ties away from zero: Decimal's    *)
(* ROUND_HALF_UP.                                                          *)
HalfUp(n, d) ==
  IF n >= 0 THEN (2 * n + d) \div (2 * d) ELSE -((d - 2 * n) \div (2 * d))

Notional(collateral, leverage) == collateral * leverage

(* Slip: rounded to the nearest size quantum, like the money. *)
PositionSizeNearest(collateral, leverage, entry) ==
  HalfUp(Notional(collateral, leverage) * Scale, entry)

(* ROUND_DOWN: the leftover dust is ignored. *)
PositionSize(collateral, leverage, entry) ==
  (Notional(collateral, leverage) * Scale) \div entry

UnrealizedPnl(side, size, entry, mark) ==
  HalfUp(size * (IF side = "long" THEN mark - entry ELSE entry - mark), Scale)

MaintenanceMargin(collateral, leverage) ==
  HalfUp(Notional(collateral, leverage) * MmrNum, MmrDen)

PositionEquity(collateral, pnl) == collateral + pnl

(* Slip: the same sign of mmr for both sides. *)
LiquidationPriceOneSign(side, entry, leverage) ==
  LET den == leverage * MmrDen
      num == IF side = "long"
             THEN entry * (den + leverage * MmrNum - MmrDen)
             ELSE entry * (den + leverage * MmrNum + MmrDen)
  IN  IF num < den THEN 1 ELSE HalfUp(num, den)

(* entry * (1 +- mmr -+ 1/leverage), at least one price quantum. *)
LiquidationPrice(side, entry, leverage) ==
  LET den == leverage * MmrDen
      num == IF side = "long"
             THEN entry * (den + leverage * MmrNum - MmrDen)
             ELSE entry * (den - leverage * MmrNum + MmrDen)
  IN  IF num < den THEN 1 ELSE HalfUp(num, den)

(* Slip: the comparison of the long for both sides. *)
IsLiquidatableOneSide(side, mark, liquidation) == mark <= liquidation

IsLiquidatable(side, mark, liquidation) ==
  IF side = "long" THEN mark <= liquidation ELSE mark >= liquidation

(* Isolated margin: the house absorbs a loss beyond the collateral. *)
SettlementCash(collateral, pnl, fee) ==
  IF collateral + pnl - fee > 0 THEN collateral + pnl - fee ELSE 0

OpenFee(collateral, leverage) ==
  HalfUp(Notional(collateral, leverage) * FeeBps, 10000)

(* worth(p) is the collateral plus P&L of an open position p. *)
AccountEquity(cash, positions, worth(_)) ==
  cash + MapThenSumSet(worth, positions)
=============================================================================
