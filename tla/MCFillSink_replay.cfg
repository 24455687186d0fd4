CONSTANTS
  Side <- MCSide
  Qty <- MCQty
  Price <- MCPrice
  VenuePnl <- MCVenuePnl
  Fills = {1, 2, 3}
  Old = {1}
  OldPnl = 7
  Sinks = {s1, s2}
  PnlSinks = {}
  NoFill = NoFill
  LossLimit = 1
  AllowNullPnl = FALSE
  MaxDeliveries = 4
  MaxCrashes = 1
  MaxRepairs = 1
SPECIFICATION Spec
INVARIANTS
  AccountsAgree
  AckedAccounted
PROPERTY ImplementsContract
SYMMETRY Perms
CHECK_DEADLOCK FALSE
