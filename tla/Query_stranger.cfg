\* The inventory of an owner who shares the mirror puzzle hash with a stranger.
CONSTANTS
  Coins = {1, 2}
  p1 = p1
  p2 = p2
  Parents = {p1, p2}
  Owners = {1, 2}
  Stores = {0}
  Roots = {0}
  Epochs = {1}
  Memos <- MCMemos
  MaxRecords = 3
  MaxCandidates = 2
  PeerBytes = 0
  NotText = NotText
  NoPeer = NoPeer
  Undecodable = Undecodable
  NoAdvert = NoAdvert
SPECIFICATION MCSpec
INVARIANT NoStrangerJams
CHECK_DEADLOCK FALSE
