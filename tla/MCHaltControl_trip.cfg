CONSTANTS
  Procs = {p1}
  Watchdog = w
  Consumers = {}
  Executors = {e}
  Ops <- AllOps
  AutoStop = TRUE
  MaxOps = 2
  MaxFaults = 1
SPECIFICATION FairSpec
PROPERTY TripSticks
CHECK_DEADLOCK FALSE
