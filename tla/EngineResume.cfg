\* One generation, CPU only: what follows a submission.
SPECIFICATION FairSpec
CONSTANTS
  MaxGen = 1
  MaxHeight = 2
  MaxBranch = 0
  MaxTemplates = 3
  WithGPU = FALSE
  RPCErrors = FALSE
PROPERTIES
  MiningResumes
\* After q every goroutine ends.
CHECK_DEADLOCK FALSE
