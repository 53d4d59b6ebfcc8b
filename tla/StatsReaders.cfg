\* A CPU and a GPU loop, one restart, a channel of two messages.
SPECIFICATION FairSpec
CONSTANTS
  Loops = {cpu, gpu}
  GpuLoops = {gpu}
  Capacity = 2
  MaxRounds = 1
  MaxRestarts = 1
  MaxHashes = 1
INVARIANTS
  TypeOK
  NoUnderflow
  NeverOverstated
PROPERTIES
  AllRead
