--------------------------- MODULE PositionsMathMC ---------------------------
(***************************************************************************)
(* One position, opened at any of a set of inputs, and the marks it meets: *)
(* what the stored liquidation price, computed once at open, says of the   *)
(* equity computed anew at every mark, all roundings included.             *)
(***************************************************************************)
EXTENDS PositionsMath

CONSTANTS Collateral, Leverage, Entries, LastMark

(* The margin above maintenance is worth more than half a price quantum:   *)
(* with the presets and the rate of config.py, at every price of more than *)
(* a few quanta.                                                           *)
ASSUME PresetsAssumption ==
  /\ Collateral \subseteq Nat /\ LastMark \in Nat
  /\ Leverage \subseteq Nat \ {0} /\ Entries \subseteq Nat \ {0, 1}
  /\ \A l \in Leverage : \A e \in Entries : 2 * (e * (MmrDen - l * MmrNum)) > l * MmrDen

VARIABLES side, collateral, leverage, entry, mark

vars == <<side, collateral, leverage, entry, mark>>

Init ==
  /\ side \in Side
  /\ collateral \in Collateral
  /\ leverage \in Leverage
  /\ entry \in Entries
  /\ mark = entry

(* The price moves. *)
Tick ==
  /\ mark' \in 1..LastMark
  /\ UNCHANGED <<side, collateral, leverage, entry>>

Spec == Init /\ [][Tick]_vars

Size == PositionSize(collateral, leverage, entry)
Liquidation == LiquidationPrice(side, entry, leverage)
Equity == PositionEquity(collateral, UnrealizedPnl(side, Size, entry, mark))
Margin == MaintenanceMargin(collateral, leverage)
Liquidatable == IsLiquidatable(side, mark, Liquidation)

-----------------------------------------------------------------------------
(* SPEC.md invariant 9: the size is the greatest one whose cost at entry   *)
(* stays within the notional.                                              *)
SizeIsGreatest ==
  \A s \in {Size, Size + 1} : (s * entry <= Notional(collateral, leverage) * Scale) <=> s = Size

(* docstring of is_liquidatable ("cheap pre-check") and liquidation_price: *)
(* a position the pre-check passes over has not lost its maintenance       *)
(* margin, give or take the cent that rounding equity and margin may cost. *)
SparedIsSolvent == ~Liquidatable => Equity >= Margin - 1

(* ... and one it picks is down to that margin, up to the cent, one price  *)
(* quantum on the whole size, and the dust the size left out.              *)
PickedIsSpent ==
  Liquidatable =>
    LET dust == (IF side = "long" THEN entry - Liquidation ELSE Liquidation - entry) + 1
    IN  Scale * (Equity - Margin - 1) <= Size + dust

(* No preset opens a position that its own entry price would liquidate.    *)
BornSafe == ~IsLiquidatable(side, entry, Liquidation)
=============================================================================
