\* Two miners with different threads.
SPECIFICATION Spec
CONSTANTS
  Threads <- MCThreads
  WithGPU <- AllMiners
  TotalMiners = 2
  Batch = 2
  NonceSpace = 16
  MaxBatches = 2
  RpcMode = FALSE
  MayReset = FALSE
  MayAdjust = FALSE
  MoreThreads = {1}
INVARIANTS
  Disjoint
\* The bounds end every behaviour.
CHECK_DEADLOCK FALSE
