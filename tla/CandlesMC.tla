----------------------------- MODULE CandlesMC ------------------------------
(* A small instance of Candles: one task that asks again and again, over   *)
(* two rolls of the bar.                                                   *)
EXTENDS Candles

CONSTANTS r1
=============================================================================
