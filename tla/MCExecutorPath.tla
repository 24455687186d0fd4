--------------------------- MODULE MCExecutorPath ---------------------------
(* Model checking of ExecutorPath: the service alone, with two failures and *)
(* room for a second order; and the service beside a second reconciler.    *)
EXTENDS ExecutorPath

AloneOrBeside ==
  { [orders |-> 2, tools |-> FALSE, age |-> TRUE, faults |-> 2],
    [orders |-> 1, tools |-> TRUE, age |-> FALSE, faults |-> 1] }
=============================================================================
