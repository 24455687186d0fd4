CONSTANTS
  b1 = b1
  s1 = s1
  main = main
  other = other
  Intents = {b1, s1}
  Side <- MCSide
  Qty <- MCQty
  Prices = {4, 10}
  Fee = 1
  StartCash = 10
  Procs = {main, other}
  Main = main
  Stolen = TRUE
  NoIntent = NoIntent
  MaxIncidents = 2
SPECIFICATION FairSpec
INVARIANTS
  TypeOK
  BooksMatchFills
  RefusedHasNoFill
  FilledIsJournaled
PROPERTIES
  PaperSettles
