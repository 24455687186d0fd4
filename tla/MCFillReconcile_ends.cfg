CONSTANTS
  Orders = {1, 2}
  Trades = {"a1", "b1"}
  NoTrade = NoTrade
  Overlap = 3
  Ends = {"closed", "canceled", "expired"}
  Unconfirmed = {1}
  Others = {}
  MaxFaults = 1
  MaxCrashes = 1
  MaxHalts = 0
  MaxAges = 0
  OrderOf <- OrderOfTwo
  Ts <- TsFar
SPECIFICATION FairSpec
PROPERTIES
  RowsEnd
  HaltCompletes
