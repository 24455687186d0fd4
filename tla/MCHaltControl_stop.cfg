CONSTANTS
  Procs = {p1, p2}
  Watchdog = w
  Consumers = {c}
  Executors = {}
  Ops <- AllOps
  AutoStop = FALSE
  MaxOps = 2
  MaxFaults = 1
SPECIFICATION Spec
SYMMETRY Perms
INVARIANTS
  StopHolds
  OneLateOrder
  FailedResumeCloses
CHECK_DEADLOCK FALSE
