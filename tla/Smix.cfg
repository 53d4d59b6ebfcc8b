\* The three backends, two sizes of each memory, three workers.
SPECIFICATION Spec
CONSTANTS
  Backends = {"c", "pure", "pooled"}
  BoxSizes = {6, 12}
  VSizes = {4, 16}
  MaxWord = 15
  Workers = 3
  MaxOther = 1
  BitAnd <- MCAnd
INVARIANTS
  TypeOK
  MixesEarlier
  ReadsOwnMemory
