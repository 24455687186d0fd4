--------------------------- MODULE MCOrderBudget ---------------------------
(* Model checking of OrderBudget and InstanceLock. *)
EXTENDS OrderBudget, TLC

Perms == Permutations(Procs) \cup Permutations(Executors)
=============================================================================
