----------------------- MODULE PositionsMathMC_proofs -----------------------
(***************************************************************************)
(* The liquidation pre-check against the equity at every mark, and the     *)
(* size, for every collateral, leverage, entry, mark, rate and scale that  *)
(* PresetsAssumption admits.                                               *)
(*                                                                         *)
(* Both sides are one case: delta is the price's move in the position's    *)
(* favour, and margin, in units of 1/MmrDen of the notional, is what lies  *)
(* between the collateral and the maintenance margin.  The liquidation     *)
(* price is where delta would use it up; each rounding costs half a unit.  *)
(***************************************************************************)
EXTENDS PositionsMathMC, PositionsMath_proofs

(* A common positive factor does not matter to an inequality. *)
LEMMA Cancel ==
  ASSUME NEW f \in Nat \ {0}, NEW a \in Int, NEW b \in Int, f * a <= f * b
  PROVE  a <= b
<1>1. SUFFICES ASSUME b + 1 <= a PROVE FALSE
  OBVIOUS
<1>2. f * (b + 1) <= f * a
  BY <1>1
<1>3. f * (b + 1) = f * b + f /\ f * b \in Int /\ f * a \in Int
  OBVIOUS
<1> QED
  BY <1>2, <1>3

(* Multiplication by a natural number keeps an inequality. *)
LEMMA Scaled ==
  ASSUME NEW f \in Nat, NEW a \in Int, NEW b \in Int, a <= b
  PROVE  f * a <= f * b
OBVIOUS

(* What a move of delta beyond the liquidation price leaves of a position: *)
(* the cost of the size is within the notional, so the loss is within the  *)
(* margin.                                                                 *)
LEMMA LossWithinMargin ==
  ASSUME NEW c \in Nat, NEW l \in Nat \ {0}, NEW e \in Nat \ {0}, NEW size \in Nat,
         NEW d \in Nat \ {0}, NEW margin \in Nat, NEW s \in Nat \ {0}, NEW delta \in Int,
         e * size <= (c * l) * s,
         -(e * margin) <= (l * d) * delta
  PROVE  -(s * (c * margin)) <= d * (size * delta)
<1>1. size * (-(e * margin)) <= size * ((l * d) * delta)
  BY Scaled
<1>2. margin * (e * size) <= margin * ((c * l) * s)
  BY Scaled
<1>3. /\ size * (-(e * margin)) = -(margin * (e * size))
      /\ size * ((l * d) * delta) = l * (d * (size * delta))
      /\ -(margin * ((c * l) * s)) = l * (-(s * (c * margin)))
  OBVIOUS
<1>4. /\ margin * (e * size) \in Int /\ margin * ((c * l) * s) \in Int
      /\ d * (size * delta) \in Int /\ -(s * (c * margin)) \in Int
  OBVIOUS
<1>5. l * (-(s * (c * margin))) <= l * (d * (size * delta))
  BY <1>1, <1>2, <1>3, <1>4
<1> QED
  BY <1>4, <1>5, Cancel

(* What rounding equity and margin makes of it: at most the cent.          *)
LEMMA RoundedSolvent ==
  ASSUME NEW c \in Nat, NEW l \in Nat \ {0}, NEW d \in Nat \ {0}, NEW n \in Nat,
         NEW s \in Nat \ {0}, NEW gain \in Int,
         -(s * (c * (d - l * n))) <= d * gain
  PROVE  c + HalfUp(gain, s) >= HalfUp((c * l) * n, d) - 1
<1> DEFINE p == HalfUp(gain, s)
           g == HalfUp((c * l) * n, d)
<1>1. p \in Int /\ 2 * gain - s <= 2 * (s * p)
  BY HalfUpNearest
<1>2. g \in Int /\ 2 * (d * g) <= 2 * ((c * l) * n) + d
  <2>1. (c * l) * n \in Int
    OBVIOUS
  <2> QED
    BY <2>1, HalfUpNearest
<1> HIDE DEF p, g
<1>3. d * (2 * gain - s) <= d * (2 * (s * p))
  BY <1>1, Scaled
<1>4. s * (2 * (d * g)) <= s * (2 * ((c * l) * n) + d)
  BY <1>2, Scaled
<1>5. /\ d * (2 * gain - s) = 2 * (d * gain) - d * s
      /\ d * (2 * (s * p)) = (d * s) * (2 * p)
      /\ s * (2 * (d * g)) = (d * s) * (2 * g)
      /\ s * (2 * ((c * l) * n) + d) = 2 * (s * ((c * l) * n)) + d * s
      /\ -(s * (c * (d - l * n))) = s * ((c * l) * n) - (d * s) * c
  BY <1>1, <1>2
<1>6. /\ d * gain \in Int /\ d * s \in Nat \ {0} /\ (d * s) * (2 * p) \in Int
      /\ (d * s) * (2 * g) \in Int /\ s * ((c * l) * n) \in Int /\ (d * s) * c \in Int
  BY <1>1, <1>2
<1>7. (d * s) * (2 * g) <= (d * s) * (2 * p) + 2 * ((d * s) * c) + 2 * (d * s)
  BY <1>3, <1>4, <1>5, <1>6
<1>8. (d * s) * (2 * p) + 2 * ((d * s) * c) + 2 * (d * s) = (d * s) * (2 * p + 2 * c + 2)
  BY <1>1, <1>6
<1>9. 2 * g <= 2 * p + 2 * c + 2
  BY <1>1, <1>2, <1>6, <1>7, <1>8, Cancel
<1> QED
  BY <1>1, <1>2, <1>9 DEF p, g

-----------------------------------------------------------------------------
(* The price's move in the position's favour, and the margin.              *)
Delta(s, from, to) == IF s = "long" THEN to - from ELSE from - to
Room(l) == MmrDen - l * MmrNum

(* The stored price is within half a quantum of the exact one, or one      *)
(* quantum if the exact one is less.                                       *)
LEMMA LiquidationNear ==
  ASSUME NEW s \in Side, NEW e \in Nat \ {0}, NEW l \in Nat \ {0},
         NEW liq, liq = LiquidationPrice(s, e, l), NEW den, den = l * MmrDen,
         NEW exact, exact = IF s = "long" THEN e * den - e * Room(l) ELSE e * den + e * Room(l)
  PROVE  /\ liq \in Nat \ {0} /\ den \in Nat \ {0} /\ exact \in Int /\ Room(l) \in Int
         /\ \/ exact < den /\ liq = 1
            \/ /\ den <= exact /\ 2 * (den * liq) <= 2 * exact + den
               /\ 2 * exact - den <= 2 * (den * liq)
<1>1. den \in Nat \ {0} /\ Room(l) \in Int /\ exact \in Int /\ l * MmrNum \in Nat
  BY MathAssumption DEF Room
<1>2. liq \in Nat \ {0}
  BY LiquidationPositive
<1>3. exact = IF s = "long" THEN e * (l * MmrDen + l * MmrNum - MmrDen)
              ELSE e * (l * MmrDen - l * MmrNum + MmrDen)
  <2>1. \A x, y, z \in Int : /\ e * (x + y - z) = e * x - e * (z - y)
                             /\ e * (x - y + z) = e * x + e * (z - y)
    OBVIOUS
  <2> QED
    BY <1>1, <2>1, MathAssumption DEF Room
<1>4. liq = IF exact < den THEN 1 ELSE HalfUp(exact, den)
  BY <1>3 DEF LiquidationPrice
<1>5. CASE exact < den
  BY <1>1, <1>2, <1>4, <1>5
<1>6. CASE den <= exact
  <2>1. liq = HalfUp(exact, den)
    BY <1>1, <1>4, <1>6
  <2>2. 2 * (den * liq) <= 2 * exact + den /\ 2 * exact - den <= 2 * (den * liq)
    BY <1>1, <2>1, HalfUpNearest
  <2> QED
    BY <1>1, <1>2, <1>6, <2>2
<1> QED
  BY <1>1, <1>5, <1>6

(* A position passed over has not moved against itself by its room.        *)
LEMMA SparedMove ==
  ASSUME NEW s \in Side, NEW e \in Nat \ {0}, NEW l \in Nat \ {0}, NEW m \in Nat \ {0},
         ~IsLiquidatable(s, m, LiquidationPrice(s, e, l))
  PROVE  -(e * Room(l)) <= (l * MmrDen) * Delta(s, e, m)
<1> DEFINE liq == LiquidationPrice(s, e, l)
           den == l * MmrDen
           exact == IF s = "long" THEN e * den - e * Room(l) ELSE e * den + e * Room(l)
<1>1. /\ liq \in Nat \ {0} /\ den \in Nat \ {0} /\ exact \in Int /\ Room(l) \in Int
      /\ \/ exact < den /\ liq = 1
         \/ /\ den <= exact /\ 2 * (den * liq) <= 2 * exact + den
            /\ 2 * exact - den <= 2 * (den * liq)
  BY LiquidationNear
<1>2. IF s = "long" THEN liq + 1 <= m ELSE m + 1 <= liq
  BY <1>1 DEF IsLiquidatable
<1>3. exact = IF s = "long" THEN e * den - e * Room(l) ELSE e * den + e * Room(l)
  OBVIOUS
<1> HIDE DEF liq, den, exact
<1>4. /\ den * liq \in Int /\ den * m \in Int /\ e * den \in Int /\ e * Room(l) \in Int
      /\ den * (liq + 1) = den * liq + den /\ den * (m + 1) = den * m + den
      /\ den * (m - e) = den * m - e * den /\ den * (e - m) = e * den - den * m
  BY <1>1
<1>5. CASE s = "long"
  <2>1. den * liq + den <= den * m
    BY <1>1, <1>2, <1>4, <1>5, Scaled
  <2>2. exact <= den * m
    BY <1>1, <1>4, <2>1
  <2>3. -(e * Room(l)) <= den * (m - e)
    BY <1>1, <1>3, <1>4, <1>5, <2>2
  <2> QED
    BY <1>5, <2>3 DEF Delta, den
<1>6. CASE s = "short"
  <2>1. den * m + den <= den * liq
    BY <1>1, <1>2, <1>4, <1>6, Scaled
  <2>2. liq # 1
    BY <1>1, <1>2, <1>6
  <2>3. den * m <= exact
    BY <1>1, <1>4, <2>1, <2>2
  <2>4. -(e * Room(l)) <= den * (e - m)
    BY <1>1, <1>3, <1>4, <1>6, <2>3
  <2> QED
    BY <1>6, <2>4 DEF Delta, den
<1> QED
  BY <1>5, <1>6 DEF Side

(* The docstring of is_liquidatable: a position the pre-check passes over  *)
(* still has its maintenance margin, up to one cent of rounding.           *)
THEOREM SparedKeepsMargin ==
  ASSUME NEW s \in Side, NEW c \in Nat, NEW l \in Nat \ {0}, NEW e \in Nat \ {0},
         NEW m \in Nat \ {0}, l * MmrNum <= MmrDen,
         ~IsLiquidatable(s, m, LiquidationPrice(s, e, l))
  PROVE  PositionEquity(c, UnrealizedPnl(s, PositionSize(c, l, e), e, m))
           >= MaintenanceMargin(c, l) - 1
<1> DEFINE size == PositionSize(c, l, e)
           delta == Delta(s, e, m)
<1>1. size \in Nat /\ e * size <= (c * l) * Scale
  BY SizeWithinNotional DEF Notional
<1>2. delta \in Int /\ -(e * Room(l)) <= (l * MmrDen) * delta
  BY SparedMove DEF Delta
<1>3. Room(l) \in Nat /\ Scale \in Nat \ {0} /\ MmrDen \in Nat \ {0} /\ MmrNum \in Nat
  BY MathAssumption DEF Room
<1>4. UnrealizedPnl(s, size, e, m) = HalfUp(size * delta, Scale)
  BY DEF UnrealizedPnl, Delta
<1> HIDE DEF size, delta
<1>5. -(Scale * (c * Room(l))) <= MmrDen * (size * delta)
  BY <1>1, <1>2, <1>3, LossWithinMargin
<1>6. size * delta \in Int
  BY <1>1, <1>2
<1>7. c + HalfUp(size * delta, Scale) >= HalfUp((c * l) * MmrNum, MmrDen) - 1
  BY <1>3, <1>5, <1>6, RoundedSolvent DEF Room
<1> QED
  BY <1>4, <1>7 DEF PositionEquity, MaintenanceMargin, Notional, size

-----------------------------------------------------------------------------
(* A position picked has moved against itself by its room, up to a quantum,*)
(* and so far the stored price lies from the entry.                        *)
LEMMA PickedMove ==
  ASSUME NEW s \in Side, NEW e \in Nat \ {0}, NEW l \in Nat \ {0}, NEW m \in Nat,
         l * MmrNum <= MmrDen, NEW liq, liq = LiquidationPrice(s, e, l),
         IsLiquidatable(s, m, liq)
  PROVE  /\ (l * MmrDen) * Delta(s, e, m) <= (l * MmrDen) - e * Room(l)
         /\ e * Room(l) <= (l * MmrDen) * (1 - Delta(s, e, liq))
<1> DEFINE den == l * MmrDen
           exact == IF s = "long" THEN e * den - e * Room(l) ELSE e * den + e * Room(l)
<1>1. /\ liq \in Nat \ {0} /\ den \in Nat \ {0} /\ exact \in Int /\ Room(l) \in Int
      /\ \/ exact < den /\ liq = 1
         \/ /\ den <= exact /\ 2 * (den * liq) <= 2 * exact + den
            /\ 2 * exact - den <= 2 * (den * liq)
  BY LiquidationNear
<1>2. /\ IF s = "long" THEN m <= liq ELSE liq <= m
      /\ exact = IF s = "long" THEN e * den - e * Room(l) ELSE e * den + e * Room(l)
  BY DEF IsLiquidatable
<1>3. 0 <= e * Room(l) /\ e * Room(l) <= e * den /\ den <= e * den
  <2>1. Room(l) \in Nat /\ MmrDen <= den
    BY MathAssumption DEF Room
  <2>2. Room(l) <= den
    BY <2>1, MathAssumption DEF Room
  <2> QED
    BY <1>1, <2>1, <2>2, Scaled
<1> HIDE DEF den, exact
<1>4. /\ den * liq \in Int /\ den * m \in Int /\ e * den \in Int /\ e * Room(l) \in Int
      /\ den * (m - e) = den * m - e * den /\ den * (e - m) = e * den - den * m
      /\ den * (1 - (liq - e)) = den - den * liq + e * den
      /\ den * (1 - (e - liq)) = den - e * den + den * liq
      /\ den * 1 = den
  BY <1>1
<1>5. CASE s = "long"
  <2>1. den * m <= den * liq
    BY <1>1, <1>2, <1>5, Scaled
  <2>2. /\ den * (m - e) <= den - e * Room(l)
        /\ e * Room(l) <= den * (1 - (liq - e))
    BY <1>1, <1>2, <1>3, <1>4, <1>5, <2>1
  <2> QED
    BY <1>5, <2>2 DEF Delta, den
<1>6. CASE s = "short"
  <2>1. den * liq <= den * m
    BY <1>1, <1>2, <1>6, Scaled
  <2>2. /\ den * (e - m) <= den - e * Room(l)
        /\ e * Room(l) <= den * (1 - (e - liq))
    BY <1>1, <1>2, <1>3, <1>4, <1>6, <2>1
  <2> QED
    BY <1>6, <2>2 DEF Delta, den
<1> QED
  BY <1>5, <1>6 DEF Side

(* Such a move has cost the margin, up to one quantum on the whole size    *)
(* and the dust.                                                           *)
LEMMA LossCostsMargin ==
  ASSUME NEW c \in Nat, NEW l \in Nat \ {0}, NEW e \in Nat \ {0}, NEW size \in Nat,
         NEW d \in Nat \ {0}, NEW margin \in Nat, NEW s \in Nat \ {0}, NEW delta \in Int,
         NEW dust \in Int,
         (c * l) * s < e * size + e,
         (l * d) * delta <= l * d - e * margin,
         e * margin <= (l * d) * dust
  PROVE  d * (size * delta) <= d * (size + dust) - s * (c * margin)
<1>1. size * ((l * d) * delta) <= size * (l * d - e * margin)
  BY Scaled
<1>2. margin * ((c * l) * s) <= margin * (e * size + e)
  BY Scaled
<1>3. /\ size * ((l * d) * delta) = l * (d * (size * delta))
      /\ size * (l * d - e * margin) = l * (d * size) - margin * (e * size)
      /\ margin * (e * size + e) = margin * (e * size) + e * margin
      /\ margin * ((c * l) * s) = l * (s * (c * margin))
      /\ (l * d) * dust = l * (d * dust)
  OBVIOUS
<1>4. /\ margin * (e * size) \in Int /\ l * (s * (c * margin)) \in Int /\ e * margin \in Int
      /\ d * (size * delta) \in Int /\ s * (c * margin) \in Int /\ d * size \in Int
      /\ d * dust \in Int /\ l * (d * size) \in Int /\ l * (d * dust) \in Int
      /\ l * (d * (size * delta)) \in Int
  OBVIOUS
<1>5. l * (d * (size * delta)) <= l * (d * size) + l * (d * dust) - l * (s * (c * margin))
  BY <1>1, <1>2, <1>3, <1>4
<1>6. /\ l * (d * size) + l * (d * dust) - l * (s * (c * margin))
           = l * (d * size + d * dust - s * (c * margin))
      /\ d * size + d * dust = d * (size + dust)
      /\ d * (size + dust) - s * (c * margin) \in Int
  BY <1>4
<1> QED
  BY <1>4, <1>5, <1>6, Cancel

(* What rounding makes of it: at most the cent. *)
LEMMA RoundedSpent ==
  ASSUME NEW c \in Nat, NEW l \in Nat \ {0}, NEW d \in Nat \ {0}, NEW n \in Nat,
         NEW s \in Nat \ {0}, NEW gain \in Int, NEW rest \in Int,
         d * gain <= d * rest - s * (c * (d - l * n))
  PROVE  s * (c + HalfUp(gain, s) - HalfUp((c * l) * n, d) - 1) <= rest
<1> DEFINE p == HalfUp(gain, s)
           g == HalfUp((c * l) * n, d)
<1>1. p \in Int /\ 2 * (s * p) <= 2 * gain + s
  BY HalfUpNearest
<1>2. g \in Int /\ 2 * ((c * l) * n) - d <= 2 * (d * g)
  <2>1. (c * l) * n \in Int
    OBVIOUS
  <2> QED
    BY <2>1, HalfUpNearest
<1> HIDE DEF p, g
<1>3. d * (2 * (s * p)) <= d * (2 * gain + s)
  BY <1>1, Scaled
<1>4. s * (2 * ((c * l) * n) - d) <= s * (2 * (d * g))
  BY <1>2, Scaled
<1>5. /\ d * (2 * gain + s) = 2 * (d * gain) + d * s
      /\ d * (2 * (s * p)) = 2 * ((d * s) * p)
      /\ s * (2 * (d * g)) = 2 * ((d * s) * g)
      /\ s * (2 * ((c * l) * n) - d) = 2 * (s * ((c * l) * n)) - d * s
      /\ s * (c * (d - l * n)) = (d * s) * c - s * ((c * l) * n)
  BY <1>1, <1>2
<1>6. /\ d * gain \in Int /\ d * s \in Nat \ {0} /\ (d * s) * p \in Int
      /\ (d * s) * g \in Int /\ s * ((c * l) * n) \in Int /\ (d * s) * c \in Int
      /\ d * rest \in Int /\ s * (c + p - g - 1) \in Int
  BY <1>1, <1>2
<1>7. (d * s) * c + (d * s) * p - (d * s) * g - d * s <= d * rest
  BY <1>3, <1>4, <1>5, <1>6
<1>8. (d * s) * c + (d * s) * p - (d * s) * g - d * s = d * (s * (c + p - g - 1))
  BY <1>1, <1>2
<1>9. s * (c + p - g - 1) <= rest
  BY <1>6, <1>7, <1>8, Cancel
<1> QED
  BY <1>9 DEF p, g

(* ... and one it picks is down to that margin, up to the cent, a quantum  *)
(* of price on the whole size, and the dust the size left out.             *)
THEOREM PickedHasSpentMargin ==
  ASSUME NEW s \in Side, NEW c \in Nat, NEW l \in Nat \ {0}, NEW e \in Nat \ {0},
         NEW m \in Nat, l * MmrNum <= MmrDen, NEW liq, liq = LiquidationPrice(s, e, l),
         IsLiquidatable(s, m, liq)
  PROVE  LET size == PositionSize(c, l, e)
             equity == PositionEquity(c, UnrealizedPnl(s, size, e, m))
         IN  Scale * (equity - MaintenanceMargin(c, l) - 1) <= size + (1 - Delta(s, e, liq))
<1> DEFINE size == PositionSize(c, l, e)
           delta == Delta(s, e, m)
           dust == 1 - Delta(s, e, liq)
<1>1. size \in Nat /\ (c * l) * Scale < e * size + e
  BY SizeWithinNotional DEF Notional
<1>2. /\ delta \in Int /\ dust \in Int
      /\ (l * MmrDen) * delta <= (l * MmrDen) - e * Room(l)
      /\ e * Room(l) <= (l * MmrDen) * dust
  BY PickedMove, LiquidationPositive DEF Delta
<1>3. Room(l) \in Nat /\ Scale \in Nat \ {0} /\ MmrDen \in Nat \ {0} /\ MmrNum \in Nat
  BY MathAssumption DEF Room
<1>4. UnrealizedPnl(s, size, e, m) = HalfUp(size * delta, Scale)
  BY DEF UnrealizedPnl, Delta
<1> HIDE DEF size, delta, dust
<1>5. MmrDen * (size * delta) <= MmrDen * (size + dust) - Scale * (c * Room(l))
  BY <1>1, <1>2, <1>3, LossCostsMargin
<1>6. size * delta \in Int /\ size + dust \in Int
  BY <1>1, <1>2
<1>7. Scale * (c + HalfUp(size * delta, Scale) - HalfUp((c * l) * MmrNum, MmrDen) - 1)
        <= size + dust
  BY <1>3, <1>5, <1>6, RoundedSpent DEF Room
<1> DEFINE equity == PositionEquity(c, UnrealizedPnl(s, size, e, m))
           margin == MaintenanceMargin(c, l)
<1>8. equity = c + HalfUp(size * delta, Scale) /\ margin = HalfUp((c * l) * MmrNum, MmrDen)
  BY <1>4 DEF PositionEquity, MaintenanceMargin, Notional
<1> HIDE DEF equity, margin
<1>9. HalfUp(size * delta, Scale) \in Int /\ HalfUp((c * l) * MmrNum, MmrDen) \in Int
  <2>1. (c * l) * MmrNum \in Int
    BY <1>3
  <2> QED
    BY <1>3, <1>6, <2>1, HalfUpNearest
<1>10. Scale * (equity - margin - 1) <= size + dust
  BY <1>3, <1>6, <1>7, <1>8, <1>9
<1> QED
  BY <1>10 DEF size, dust, equity, margin

-----------------------------------------------------------------------------
(* Every position of Spec meets marks that are prices. *)
Priced ==
  /\ side \in Side /\ collateral \in Nat /\ mark \in Nat \ {0}
  /\ leverage \in Leverage /\ leverage \in Nat \ {0}
  /\ entry \in Entries /\ entry \in Nat \ {0, 1}
  /\ 2 * (entry * (MmrDen - leverage * MmrNum)) > leverage * MmrDen

(* The leverages of PresetsAssumption leave a margin above maintenance. *)
LEMMA PresetsHaveRoom ==
  ASSUME Priced
  PROVE  leverage * MmrNum <= MmrDen
<1>1. Room(leverage) \in Int /\ entry \in Nat \ {0} /\ leverage * MmrDen \in Nat
      /\ leverage * MmrNum \in Nat
  BY MathAssumption DEF Priced, Room
<1>2. 2 * (entry * Room(leverage)) > 0
  BY <1>1 DEF Priced, Room
<1>3. ASSUME Room(leverage) <= 0
      PROVE  entry * Room(leverage) <= 0
  BY <1>1, <1>3
<1> QED
  BY <1>1, <1>2, <1>3, MathAssumption DEF Room

(* All positions and marks of the run, and of any other instance. *)
THEOREM MarksArePrices == Spec => []Priced
<1>1. Init => Priced
  BY PresetsAssumption DEF Init, Priced
<1>2. Priced /\ [Tick]_vars => Priced'
  BY PresetsAssumption DEF Priced, Tick, vars
<1> QED
  BY <1>1, <1>2, PTL DEF Spec

(* The size is the greatest that stays within the notional. *)
THEOREM SizesAreGreatest == Spec => []SizeIsGreatest
<1>1. Priced => SizeIsGreatest
  <2> SUFFICES ASSUME Priced PROVE SizeIsGreatest
    OBVIOUS
  <2>1. /\ Size \in Nat /\ entry \in Nat \ {0}
        /\ entry * Size <= Notional(collateral, leverage) * Scale
        /\ Notional(collateral, leverage) * Scale < entry * Size + entry
    BY SizeWithinNotional DEF Priced, Size
  <2>2. Size * entry = entry * Size /\ (Size + 1) * entry = entry * Size + entry
    BY <2>1
  <2>3. Notional(collateral, leverage) * Scale \in Int /\ entry * Size \in Int
    BY <2>1, MathAssumption DEF Priced, Notional
  <2> QED
    BY <2>1, <2>2, <2>3 DEF SizeIsGreatest
<1> QED
  BY <1>1, MarksArePrices, PTL

(* A spared position is solvent to the cent. *)
THEOREM SparedAreSolvent == Spec => []SparedIsSolvent
<1>1. Priced => SparedIsSolvent
  BY PresetsHaveRoom, SparedKeepsMargin
     DEF Priced, SparedIsSolvent, Liquidatable, Liquidation, Equity, Margin, Size
<1> QED
  BY <1>1, MarksArePrices, PTL

(* A picked one is spent. *)
THEOREM PickedAreSpent == Spec => []PickedIsSpent
<1>1. Priced => PickedIsSpent
  <2> SUFFICES ASSUME Priced, Liquidatable
               PROVE  Scale * (Equity - Margin - 1)
                        <= Size + ((IF side = "long" THEN entry - Liquidation
                                    ELSE Liquidation - entry) + 1)
    BY DEF PickedIsSpent
  <2>1. Scale * (Equity - Margin - 1) <= Size + (1 - Delta(side, entry, Liquidation))
    BY PresetsHaveRoom, PickedHasSpentMargin
       DEF Priced, Liquidatable, Liquidation, Equity, Margin, Size
  <2>2. Liquidation \in Nat
    BY LiquidationPositive DEF Priced, Liquidation
  <2>3. 1 - Delta(side, entry, Liquidation)
          = (IF side = "long" THEN entry - Liquidation ELSE Liquidation - entry) + 1
    BY <2>2 DEF Delta, Priced
  <2> QED
    BY <2>1, <2>3
<1> QED
  BY <1>1, MarksArePrices, PTL

(* No preset opens a position its own entry price would liquidate. *)
THEOREM NoneBornLiquidatable == Spec => []BornSafe
<1>1. Priced => BornSafe
  <2> SUFFICES ASSUME Priced, IsLiquidatable(side, entry, Liquidation)
               PROVE  FALSE
    BY DEF BornSafe
  <2> DEFINE den == leverage * MmrDen
             liq == Liquidation
             exact == IF side = "long" THEN entry * den - entry * Room(leverage)
                      ELSE entry * den + entry * Room(leverage)
  <2>1. /\ liq \in Nat \ {0} /\ den \in Nat \ {0} /\ exact \in Int /\ Room(leverage) \in Int
        /\ \/ exact < den /\ liq = 1
           \/ /\ den <= exact /\ 2 * (den * liq) <= 2 * exact + den
              /\ 2 * exact - den <= 2 * (den * liq)
    BY LiquidationNear DEF Priced, Liquidation
  <2>2. /\ side \in Side /\ entry \in Nat \ {0, 1}
        /\ 2 * (entry * Room(leverage)) > den
        /\ IF side = "long" THEN entry <= liq ELSE liq <= entry
        /\ exact = IF side = "long" THEN entry * den - entry * Room(leverage)
                   ELSE entry * den + entry * Room(leverage)
    BY DEF Priced, Room, IsLiquidatable
  <2> HIDE DEF den, exact, liq
  <2>3. entry * den \in Int /\ den * liq \in Int /\ entry * Room(leverage) \in Int
    BY <2>1, <2>2
  <2>4. CASE side = "long"
    <3>1. den * entry <= den * liq /\ den * entry = entry * den /\ liq # 1
      BY <2>1, <2>2, <2>4, Scaled
    <3> QED
      BY <2>1, <2>2, <2>3, <2>4, <3>1
  <2>5. CASE side = "short"
    <3>1. den * liq <= den * entry /\ den * entry = entry * den
      BY <2>1, <2>2, <2>5, Scaled
    <3>2. den <= entry * den
      BY <2>1, <2>2
    <3> QED
      BY <2>1, <2>2, <2>3, <2>5, <3>1, <3>2
  <2> QED
    BY <2>2, <2>4, <2>5 DEF Side
<1> QED
  BY <1>1, MarksArePrices, PTL
=============================================================================
