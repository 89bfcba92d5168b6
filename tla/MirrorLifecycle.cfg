\* Three bundles of two wallets, in up to three blocks that may be undone.
CONSTANTS
  PeerBytes = 1
  NotText = NotText
  Undecodable = Undecodable
  NoAdvert = NoAdvert
  NoPeer = NoPeer
  Wallets = {1, 2}
  Genesis <- MCGenesis
  Mirror = Mirror
  NoHint = NoHint
  Adverts <- MCAdverts
  Memos <- MCMemos
  Fees = {0, 1}
  MaxBundles = 3
  MaxBlocks = 3
SPECIFICATION Spec
INVARIANTS
  TypeOK
  CollateralKept
  FeesBuyWork
  PublishedIsDeclared
  CreditIsUnambiguous
  AlwaysReclaimable
CHECK_DEADLOCK FALSE
