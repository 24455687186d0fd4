---------------------------- MODULE MCPaperPath ----------------------------
(* Model checking of PaperPath: a buy and a sale of one unit, with cash for *)
(* the buy at the lower price only, so that an order may pass the gate and *)
(* be refused by the books.                                                *)
EXTENDS PaperPath, TLC

CONSTANTS b1, s1, main, other

MCSide == b1 :> "buy" @@ s1 :> "sell"
MCQty == [i \in Intents |-> 1]
=============================================================================
