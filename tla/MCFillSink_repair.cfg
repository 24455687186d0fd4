CONSTANTS
  Side <- MCSide
  Qty <- MCQty
  Price <- MCPrice
  VenuePnl <- MCVenuePnl
  Fills = {1, 2, 3, 4}
  Old = {1}
  OldPnl = 7
  Sinks = {s1, s2}
  PnlSinks = {s1, s2}
  NoFill = NoFill
  LossLimit = 2
  AllowNullPnl = FALSE
  MaxDeliveries = 3
  MaxCrashes = 1
  MaxRepairs = 2
SPECIFICATION Spec
INVARIANTS
  FailureBlocks
  LossesInJournalOrder
SYMMETRY Perms
CHECK_DEADLOCK FALSE
