CONSTANTS
  Intents = {i1}
  Consumers = {c1}
  NoIntent = NoIntent
  BatchLimit = 1
  MinObs = 2
  MaxInserts = 1
  MaxCrashes = 2
  MaxRestores = 1
SPECIFICATION FairSpec
INVARIANTS
  AtMostOneOrder
  GivenUpHasNoOrder
PROPERTY Settles
CHECK_DEADLOCK FALSE
