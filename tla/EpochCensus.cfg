\* A search and a census of one coin, on a chain whose newest block may go.
CONSTANTS
  MaxHeight = 3
  MaxRun = 1
  MaxReorg = 1
  Timestamps = {1, 2}
  Starts = {2}
  NoTimestamp = NoTimestamp
  Coins = {1}
  pa = pa
  Parents = {pa}
  Suspects = {}
  ClaimedHeights = {}
  o = o
  Owners = {o}
  r = r
  Roots = {r}
  Epochs = {1}
  Amounts = {2}
  MaxRecords = 1
  FinalityDepth = 1
  MaxSpends = 1
  MaxLocked = 5
  MaxEpoch = 2
  Coinbase = Coinbase
  Garbled = Garbled
  NotAMirror = NotAMirror
SPECIFICATION MCSpec
INVARIANTS
  FinalStaysIdeal
  FinalIsOfItsEpoch
CHECK_DEADLOCK FALSE
