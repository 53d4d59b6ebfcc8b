\* Two generations, CPU only, failing calls: the template follows the chain.
SPECIFICATION FairSpec
CONSTANTS
  MaxGen = 2
  MaxHeight = 1
  MaxBranch = 0
  MaxTemplates = 4
  WithGPU = FALSE
  RPCErrors = TRUE
PROPERTIES
  Settles
\* After q every goroutine ends.
CHECK_DEADLOCK FALSE
