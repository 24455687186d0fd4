---------------------------- MODULE MCLiveSubmit ----------------------------
(* Model checking of LiveSubmit: intents and consumers are interchangeable. *)
EXTENDS LiveSubmit, TLC

Perms == Permutations(Intents) \cup Permutations(Consumers)
=============================================================================
