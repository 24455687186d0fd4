CONSTANTS
  Procs = {p1, p2, p3}
  MaxCrashes = 2
  Executors = {e1}
  MaxTrades = 2
  MaxClaims = 2
  LastDay = 2
  MaxLost = 1
  MaxSends = 5
SPECIFICATION Spec
SYMMETRY Perms
INVARIANTS
  HolderOwnsLock
  ClaimCap
  BoundaryCap
CHECK_DEADLOCK FALSE
