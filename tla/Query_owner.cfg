\* The claims of a call that names one owner, from a source that adds records.
CONSTANTS
  Coins = {1, 2}
  p1 = p1
  p2 = p2
  Parents = {p1, p2}
  Owners = {1, 2}
  Stores = {0}
  Roots = {0}
  Epochs = {1}
  Memos <- MCMemos
  MaxRecords = 3
  MaxCandidates = 2
  PeerBytes = 0
  NotText = NotText
  NoPeer = NoPeer
  Undecodable = Undecodable
  NoAdvert = NoAdvert
SPECIFICATION MCSpec
INVARIANT ClaimsAreOwners
CHECK_DEADLOCK FALSE
