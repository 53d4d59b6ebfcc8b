\* Two miners, their threads adjusted, GPUs that fail, bench mode.
SPECIFICATION Spec
CONSTANTS
  Threads <- MCThreads
  WithGPU <- AllMiners
  TotalMiners = 2
  Batch = 2
  NonceSpace = 18
  MaxBatches = 2
  RpcMode = FALSE
  MayReset = TRUE
  MayAdjust = TRUE
  MoreThreads = {}
INVARIANTS
  TypeOK
  SameSlotsDisjoint
  CalmDisjoint
  NoGap
  GpuCountsNewHashes
\* The bounds end every behaviour.
CHECK_DEADLOCK FALSE
