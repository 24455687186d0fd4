CONSTANTS
  Intents = {i1}
  Workers = {svc, tool}
  Submitters = {svc}
  Size = 2
  MaxOrders = 2
  Budgets <- AloneOrBeside
SPECIFICATION FairSpec
INVARIANTS
  SecondOrderNeedsLoss
  TerminalAccounted
  RecordedWithinVenue
PROPERTY EndedSettles
CHECK_DEADLOCK FALSE
