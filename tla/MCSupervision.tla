--------------------------- MODULE MCSupervision ---------------------------
(* Model checking of Supervision: the paper executor and the live consumer, *)
(* of which one is wanted at a time, and a change of symbols that wants the *)
(* same services as before.                                                *)
EXTENDS Supervision

MCManaged == <<"executor", "intent_consumer">>
MCWanted == [m \in Modes |-> IF m = "live" THEN {"intent_consumer"} ELSE {"executor"}]
=============================================================================
