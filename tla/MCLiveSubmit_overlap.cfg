CONSTANTS
  Intents = {i1}
  Consumers = {c1, c2}
  NoIntent = NoIntent
  BatchLimit = 1
  MinObs = 2
  MaxInserts = 2
  MaxCrashes = 1
  MaxRestores = 0
SPECIFICATION Spec
SYMMETRY Perms
INVARIANTS
  AtMostOneOrder
  RefusedHasNoOrder
  SubmittedHasOrder
  LedgerBacked
PROPERTY FollowsLifecycle
CHECK_DEADLOCK FALSE
