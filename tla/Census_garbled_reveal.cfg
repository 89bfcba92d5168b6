\* A mirror coin of one spend, for which the source answers what does not decode.
CONSTANTS
  Coins = {1, 2, 3}
  p = p
  q = q
  s = s
  x = x
  Parents = {p, q, s, x}
  Suspects = {x}
  ClaimedHeights = {0}
  Owners = {o1, o2}
  r1 = r1
  r2 = r2
  Roots = {r1, r2}
  Epochs = {1}
  Amounts = {1, 2, 3}
  MaxHeight = 1
  MaxRecords = 1
  FinalityDepth = 1
  MaxReorg = 0
  MaxSpends = 2
  MaxLocked = 4
  MaxEpoch = 2
  Coinbase = Coinbase
  Garbled = Garbled
  NotAMirror = NotAMirror
SPECIFICATION MCSpec
INVARIANT NoMirrorDeleted
CHECK_DEADLOCK FALSE
