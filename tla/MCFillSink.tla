----------------------------- MODULE MCFillSink -----------------------------
(* Model checking of FillSink: a buy and sells of one unit each.           *)
EXTENDS FillSink, TLC

Perms == Permutations(Sinks)

(* The first sell is at a loss, the second at a profit, the third at a     *)
(* loss again.                                                             *)
MCSide == [f \in Fills |-> IF f = 1 THEN "buy" ELSE "sell"]
MCQty == [f \in Fills |-> IF f = 1 THEN 2 ELSE 1]
MCPrice == [f \in Fills |-> CASE f = 1 -> 12 [] f = 2 -> 6 [] f = 3 -> 24 [] f = 4 -> 6]
MCVenuePnl == [f \in Fills |-> CASE f = 1 -> 0 [] f = 2 -> -5 [] f = 3 -> 11 [] f = 4 -> -5]
=============================================================================
