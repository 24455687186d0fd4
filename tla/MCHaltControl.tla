--------------------------- MODULE MCHaltControl ---------------------------
(* Model checking of HaltControl: the processes are interchangeable. *)
EXTENDS HaltControl, TLC

Perms == Permutations(Procs)

AllOps == {"disable", "resume", "ceremony", "wizard_on", "wizard_off", "issue",
           "halt", "promote", "kill_on", "kill_off", "edit", "automation"}

(* Every step of every table leads to a step of a table or to a rest. *)
ASSUME TablesClosed ==
  Program \in [Steps -> [file : STRING, val : STRING, next : Labels, fail : Labels]]
=============================================================================
