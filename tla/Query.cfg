\* Two coins, listed up to three times in all, of which two records are examined.
CONSTANTS
  Coins = {1, 2}
  p1 = p1
  p2 = p2
  Parents = {p1, p2}
  Owners = {1, 2}
  Stores = {0}
  Roots = {0}
  Epochs = {1}
  Memos <- MCMemos
  MaxRecords = 3
  MaxCandidates = 2
  PeerBytes = 0
  NotText = NotText
  NoPeer = NoPeer
  Undecodable = Undecodable
  NoAdvert = NoAdvert
SPECIFICATION MCSpec
INVARIANTS
  TypeOK
  CompleteIsWhole
  OwnCoinsAccounted
  ClaimsAreBonds
  OwnerAnswers
  EmptyIsAnAnswer
  ErrorMeansUnanswered
CHECK_DEADLOCK FALSE
