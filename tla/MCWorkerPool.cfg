\* Three workers, the stale flag shared with a retired generation.
SPECIFICATION FairSpec
CONSTANTS
  NumWorkers = 3
  NonceSpace <- MCNonceSpace
  Solutions <- MCSolutions
  MinerID = 1
  TotalMiners = 2
  SlotsPerMiner = 3
  SharedFlag = TRUE
  Base = 4
  Width = 4
  MaxSize = 6
  PastBlocks = 3
INVARIANTS
  TypeOK
  NoPanic
  FoundNotLost
  FastCheckAgrees
PROPERTIES
  Refines
  CancelDrains
  StaleEndsCall
  NoLeak
\* The call ends.
CHECK_DEADLOCK FALSE
