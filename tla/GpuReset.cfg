\* Both backends, a key that starts a second loop, a device that fails and
\* recovers.
SPECIFICATION FairSpec
CONSTANTS
  NumLoops = 2
  Backends = {"cuda", "opencl"}
  MaxBatch = 2
  DefaultBatch = 4
  GroupSize = 2
  Faults = TRUE
INVARIANTS
  TypeOK
  ReadyWhenAvailable
  NoCrash
  HashesOwn
  ReleasedOnce
PROPERTIES
  Recovers
\* A loop that is fatal to the program, or whose GPU was down, has ended.
CHECK_DEADLOCK FALSE
