\* One generation, CPU only: the block that is submitted.
SPECIFICATION Spec
CONSTANTS
  MaxGen = 1
  MaxHeight = 2
  MaxBranch = 0
  MaxTemplates = 3
  WithGPU = FALSE
  RPCErrors = FALSE
INVARIANTS
  SubmitsWhatItFound
\* After q every goroutine ends.
CHECK_DEADLOCK FALSE
