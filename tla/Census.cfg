\* Every rule of the census, in every order a source may list three coins, and a
\* source that lies about the coins of one spend.
CONSTANTS
  Coins = {1, 2, 3}
  p = p
  q = q
  s = s
  x = x
  Parents = {p, q, s, x}
  Suspects = {x}
  ClaimedHeights = {0}
  Owners = {o1, o2}
  r1 = r1
  r2 = r2
  Roots = {r1, r2}
  Epochs = {0, 1, 2}
  Amounts = {1, 2, 3}
  MaxHeight = 2
  MaxRecords = 2
  FinalityDepth = 1
  MaxReorg = 0
  MaxSpends = 2
  MaxLocked = 5
  MaxEpoch = 2
  Coinbase = Coinbase
  Garbled = Garbled
  NotAMirror = NotAMirror
SPECIFICATION MCSpec
INVARIANTS
  TypeOK
  FinalIsIdeal
  NothingLost
  SpendsExecutedOnce
  RepresentativesAreIdeal
  OwnersAreProven
  RefusalsJustified
CHECK_DEADLOCK FALSE
