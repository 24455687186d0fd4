------------------------- MODULE MCFillReconcile -------------------------
(* Model checking of FillReconcile. *)
EXTENDS FillReconcile

(* Two orders: the older with up to two trades, the newer with one. *)
OrderOfTwo == [t \in Trades |-> IF t = "b1" THEN 2 ELSE 1]

(* The trades of the older order are as far apart as the overlap of 3, and *)
(* the newer overtakes the first and has the second at its very edge.      *)
TsEdge == [t \in Trades |-> CASE t = "a1" -> 5 [] t = "a2" -> 8 [] t = "b1" -> 10]

(* The newer overtakes both. *)
TsFar == [t \in Trades |-> CASE t = "a1" -> 5 [] t = "a2" -> 8 [] t = "b1" -> 11]
=============================================================================
