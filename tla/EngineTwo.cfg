\* Two generations with a GPU: keys, modes and cancelled goroutines.
SPECIFICATION FairSpec
CONSTANTS
  MaxGen = 2
  MaxHeight = 0
  MaxBranch = 0
  MaxTemplates = 1
  WithGPU = TRUE
  RPCErrors = TRUE
INVARIANTS
  LiveLoopMatchesMode
PROPERTIES
  CancelDrains
\* After q every goroutine ends.
CHECK_DEADLOCK FALSE
