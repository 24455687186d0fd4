CONSTANTS
  Orders = {1, 2}
  Trades = {"a1", "a2", "b1"}
  NoTrade = NoTrade
  Overlap = 3
  Ends = {"closed", "rejected"}
  Unconfirmed = {1}
  Others = {"b1"}
  MaxFaults = 1
  MaxCrashes = 0
  MaxHalts = 1
  MaxAges = 1
  OrderOf <- OrderOfTwo
  Ts <- TsEdge
SPECIFICATION Spec
INVARIANTS
  VenueDecides
  LedgerBehind
  FilledJournaled
  FilledAccounted
  
  UnaccountedReachable
