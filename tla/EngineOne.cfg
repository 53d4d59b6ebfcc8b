\* One generation, with a GPU.
SPECIFICATION FairSpec
CONSTANTS
  MaxGen = 1
  MaxHeight = 1
  MaxBranch = 1
  MaxTemplates = 2
  WithGPU = TRUE
  RPCErrors = TRUE
INVARIANTS
  TypeOK
  StaleCoversSnapshot
  MixedOnlyWhenStale
PROPERTIES
  NeverRemines
  WorksAsPromised
  OutdatedMiningEnds
  CancelDrains
\* After q every goroutine ends.
CHECK_DEADLOCK FALSE
