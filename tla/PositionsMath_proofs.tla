------------------------ MODULE PositionsMath_proofs ------------------------
(***************************************************************************)
(* Facts about the arithmetic of PositionsMath for every input and every   *)
(* scale.                                                                  *)
(***************************************************************************)
EXTENDS PositionsMath, TLAPS

(* Floor division by a positive integer: the quotient is the integer       *)
(* between a/b - 1 and a/b.                                                *)
LEMMA Division ==
  ASSUME NEW a \in Int, NEW b \in Nat \ {0}
  PROVE  /\ a \div b \in Int
         /\ b * (a \div b) <= a
         /\ a < b * (a \div b) + b
         /\ a >= 0 => a \div b >= 0
  OBVIOUS

LEMMA DivisionByDouble ==
  ASSUME NEW a \in Int, NEW d \in Nat \ {0}
  PROVE  /\ a \div (2 * d) \in Int
         /\ (2 * d) * (a \div (2 * d)) <= a
         /\ a < (2 * d) * (a \div (2 * d)) + 2 * d
         /\ a >= 0 => a \div (2 * d) >= 0
  <1> DEFINE b == 2 * d
  <1>1. b \in Nat \ {0}
    OBVIOUS
  <1> HIDE DEF b
  <1>2. /\ a \div b \in Int
        /\ b * (a \div b) <= a
        /\ a < b * (a \div b) + b
        /\ a >= 0 => a \div b >= 0
    BY <1>1, Division
  <1> QED BY <1>2 DEF b

(* ROUND_HALF_UP yields an integer within half a unit of the quotient, of  *)
(* its sign.                                                               *)
LEMMA HalfUpNearest ==
  ASSUME NEW n \in Int, NEW d \in Nat \ {0}
  PROVE  /\ HalfUp(n, d) \in Int
         /\ 2 * (d * HalfUp(n, d)) <= 2 * n + d
         /\ 2 * n - d <= 2 * (d * HalfUp(n, d))
         /\ n >= 0 => HalfUp(n, d) >= 0
  <1>1. CASE n >= 0
    <2> DEFINE q == (2 * n + d) \div (2 * d)
    <2>1. /\ q \in Int
          /\ (2 * d) * q <= 2 * n + d
          /\ 2 * n + d < (2 * d) * q + 2 * d
          /\ q >= 0
      <3>1. 2 * n + d \in Int /\ 2 * n + d >= 0
        BY <1>1
      <3> DEFINE a == 2 * n + d
      <3> HIDE DEF a
      <3>2. /\ a \div (2 * d) \in Int
            /\ (2 * d) * (a \div (2 * d)) <= a
            /\ a < (2 * d) * (a \div (2 * d)) + 2 * d
            /\ a \div (2 * d) >= 0
        BY <3>1, DivisionByDouble DEF a
      <3> QED BY <3>2 DEF a
    <2>2. (2 * d) * q = 2 * (d * q)
      BY <2>1
    <2>3. HalfUp(n, d) = q
      BY <1>1 DEF HalfUp
    <2> HIDE DEF q
    <2> QED BY <2>1, <2>2, <2>3
  <1>2. CASE n < 0
    <2> DEFINE q == (d - 2 * n) \div (2 * d)
    <2>1. /\ q \in Int
          /\ (2 * d) * q <= d - 2 * n
          /\ d - 2 * n < (2 * d) * q + 2 * d
      <3>1. d - 2 * n \in Int
        OBVIOUS
      <3> DEFINE a == d - 2 * n
      <3> HIDE DEF a
      <3>2. /\ a \div (2 * d) \in Int
            /\ (2 * d) * (a \div (2 * d)) <= a
            /\ a < (2 * d) * (a \div (2 * d)) + 2 * d
        BY <3>1, DivisionByDouble DEF a
      <3> QED BY <3>2 DEF a
    <2>2. /\ (2 * d) * q = 2 * (d * q)
          /\ d * (-q) = -(d * q)
          /\ -q \in Int
      BY <2>1
    <2>3. HalfUp(n, d) = -q
      BY <1>2 DEF HalfUp
    <2> HIDE DEF q
    <2> QED BY <1>2, <2>1, <2>2, <2>3
  <1> QED BY <1>1, <1>2

(* Ties go away from zero on both sides of it: rounding commutes with      *)
(* negation.                                                               *)
LEMMA HalfUpOdd ==
  ASSUME NEW n \in Int, NEW d \in Nat \ {0}
  PROVE  HalfUp(-n, d) = -HalfUp(n, d)
  <1>1. CASE n > 0
    <2>1. HalfUp(-n, d) = -((d - 2 * (-n)) \div (2 * d))
      BY <1>1 DEF HalfUp
    <2>2. HalfUp(n, d) = (2 * n + d) \div (2 * d)
      BY <1>1 DEF HalfUp
    <2>3. d - 2 * (-n) = 2 * n + d
      OBVIOUS
    <2> QED BY <2>1, <2>2, <2>3
  <1>2. CASE n < 0
    <2>1. HalfUp(-n, d) = (2 * (-n) + d) \div (2 * d)
      BY <1>2 DEF HalfUp
    <2>2. HalfUp(n, d) = -((d - 2 * n) \div (2 * d))
      BY <1>2 DEF HalfUp
    <2>3. /\ 2 * (-n) + d = d - 2 * n
          /\ (d - 2 * n) \div (2 * d) \in Int
      BY Division
    <2> QED BY <2>1, <2>2, <2>3
  <1>3. CASE n = 0
    <2>1. HalfUp(0, d) = d \div (2 * d)
      BY DEF HalfUp
    <2>2. d \div (2 * d) = 0
      <3>1. /\ d \div (2 * d) \in Int
            /\ (2 * d) * (d \div (2 * d)) <= d
            /\ d \div (2 * d) >= 0
        BY Division
      <3> DEFINE q == d \div (2 * d)
      <3>2. q >= 1 => (2 * d) * q >= 2 * d
        BY <3>1
      <3> QED BY <3>1, <3>2
    <2> QED BY <1>3, <2>1, <2>2
  <1> QED BY <1>1, <1>2, <1>3

-----------------------------------------------------------------------------
(* The fee of an open or a close is a whole number of cents, never less    *)
(* than zero.                                                              *)
LEMMA OpenFeeNat ==
  ASSUME NEW c \in Nat, NEW l \in Nat
  PROVE  OpenFee(c, l) \in Nat
  <1>1. Notional(c, l) * FeeBps \in Nat
    BY MathAssumption DEF Notional
  <1> QED BY <1>1, HalfUpNearest DEF OpenFee

(* SPEC.md invariant 9 and the docstring of position_size: rounded down to *)
(* a size quantum, so that the notional bought never exceeds collateral *  *)
(* leverage, and one quantum more would.                                   *)
THEOREM SizeWithinNotional ==
  ASSUME NEW c \in Nat, NEW l \in Nat, NEW m \in Nat \ {0}
  PROVE  /\ PositionSize(c, l, m) \in Nat
         /\ m * PositionSize(c, l, m) <= Notional(c, l) * Scale
         /\ Notional(c, l) * Scale < m * PositionSize(c, l, m) + m
  <1> DEFINE a == Notional(c, l) * Scale
  <1>1. a \in Nat
    BY MathAssumption DEF Notional
  <1>2. PositionSize(c, l, m) = a \div m
    BY DEF PositionSize
  <1> HIDE DEF a
  <1>3. /\ a \div m \in Int
        /\ m * (a \div m) <= a
        /\ a < m * (a \div m) + m
        /\ a \div m >= 0
    BY <1>1, Division
  <1> QED BY <1>2, <1>3 DEF a

LEMMA PnlInt ==
  ASSUME NEW s \in Side, NEW size \in Nat, NEW e \in Nat, NEW m \in Nat
  PROVE  UnrealizedPnl(s, size, e, m) \in Int
  <1>1. size * (IF s = "long" THEN m - e ELSE e - m) \in Int
    OBVIOUS
  <1> QED BY <1>1, HalfUpNearest, MathAssumption DEF UnrealizedPnl

(* What a long gains a short of the same size loses, to the cent.          *)
THEOREM SidesMirror ==
  ASSUME NEW size \in Nat, NEW e \in Nat, NEW m \in Nat
  PROVE  UnrealizedPnl("short", size, e, m) = -UnrealizedPnl("long", size, e, m)
  <1>1. size * (e - m) = -(size * (m - e))
    OBVIOUS
  <1>2. size * (m - e) \in Int
    OBVIOUS
  <1> QED BY <1>1, <1>2, HalfUpOdd, MathAssumption DEF UnrealizedPnl

(* ck_positions_liquidation_price_positive: whatever the leverage, the     *)
(* stored liquidation price is at least one price quantum.                 *)
THEOREM LiquidationPositive ==
  ASSUME NEW s \in Side, NEW e \in Nat \ {0}, NEW l \in Nat \ {0}
  PROVE  LiquidationPrice(s, e, l) \in Nat \ {0}
  <1> DEFINE den == l * MmrDen
             num == IF s = "long" THEN e * (den + l * MmrNum - MmrDen)
                                  ELSE e * (den - l * MmrNum + MmrDen)
  <1>1. den \in Nat \ {0}
    BY MathAssumption
  <1>2. num \in Int
    BY <1>1, MathAssumption
  <1>3. LiquidationPrice(s, e, l) = IF num < den THEN 1 ELSE HalfUp(num, den)
    BY DEF LiquidationPrice
  <1>4. ASSUME NEW n \in Int, NEW d \in Nat \ {0}, n >= d
        PROVE  HalfUp(n, d) \in Nat \ {0}
    <2>1. /\ HalfUp(n, d) \in Int
          /\ 2 * n - d <= 2 * (d * HalfUp(n, d))
          /\ HalfUp(n, d) >= 0
      BY <1>4, HalfUpNearest
    <2>2. HalfUp(n, d) # 0
      BY <1>4, <2>1
    <2> QED BY <2>1, <2>2
  <1> HIDE DEF den, num
  <1> QED BY <1>1, <1>2, <1>3, <1>4

(* Isolated margin: a settlement never takes cash from the account.        *)
LEMMA SettlementNat ==
  ASSUME NEW c \in Int, NEW pnl \in Int, NEW fee \in Int
  PROVE  SettlementCash(c, pnl, fee) \in Nat
  BY DEF SettlementCash

(* A long is not opened at or beyond its own liquidation price, provided   *)
(* its margin above maintenance is worth more than half a price quantum    *)
(* and the exact liquidation price at least one.                           *)
THEOREM LongNotBornLiquidatable ==
  ASSUME NEW e \in Nat \ {0}, NEW l \in Nat \ {0},
         e * (l * MmrDen + l * MmrNum - MmrDen) >= l * MmrDen,
         2 * (e * (MmrDen - l * MmrNum)) > l * MmrDen
  PROVE  ~IsLiquidatable("long", e, LiquidationPrice("long", e, l))
  <1> DEFINE den == l * MmrDen
             num == e * (den + l * MmrNum - MmrDen)
             liq == HalfUp(num, den)
  <1>1. den \in Nat \ {0} /\ l * MmrNum \in Nat
    BY MathAssumption
  <1>2. num \in Int
    BY <1>1, MathAssumption
  <1>3. /\ liq \in Int
        /\ 2 * (den * liq) <= 2 * num + den
    BY <1>1, <1>2, HalfUpNearest
  <1>4. num = den * e - e * (MmrDen - l * MmrNum)
    <2>1. \A x, y, z \in Int : e * (x + y - z) = x * e - e * (z - y)
      OBVIOUS
    <2> QED BY <1>1, <2>1, MathAssumption
  <1>5. 2 * (den * liq) < 2 * (den * e)
    <2>1. den * e \in Int /\ e * (MmrDen - l * MmrNum) \in Int /\ den * liq \in Int
      BY <1>1, <1>3, MathAssumption
    <2> HIDE DEF num, liq
    <2> QED BY <1>1, <1>2, <1>3, <1>4, <2>1
  <1>6. liq < e
    <2> HIDE DEF num, liq, den
    <2>1. ASSUME liq >= e PROVE den * liq >= den * e
      BY <1>1, <1>3, <2>1
    <2>2. den * e \in Int /\ den * liq \in Int
      BY <1>1, <1>3
    <2> QED BY <1>3, <1>5, <2>1, <2>2
  <1>7. LiquidationPrice("long", e, l) = liq
    BY <1>1, <1>2 DEF LiquidationPrice
  <1> QED BY <1>3, <1>6, <1>7 DEF IsLiquidatable
=============================================================================
