CONSTANTS
  Managed <- MCManaged
  Modes = {"paper", "live", "symbols"}
  Wanted <- MCWanted
  Scripts = {"script"}
  NPids = 5
  MaxIncidents = 4
SPECIFICATION FairSpec
INVARIANTS
  Tracked
  StopStops
PROPERTIES
  Converges
CHECK_DEADLOCK FALSE
