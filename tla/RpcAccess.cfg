\* One daemon that crashes, one miner, two appends.
SPECIFICATION Spec
CONSTANTS
  Words <- MCWords
  Numerals <- MCNumerals
  NumCPU = 4
  Cores = 4
  PubKeyHashes = {"pkh"}
  Word = 16
  Settings <- MCSettings
  FirstFiles <- MCFirstFiles
  Secrets <- MCSecrets
  MaxEdits = 2
  Launches <- MCLaunches
  EnvDir = ""
  NodeDirs = {"", "~/.legacycoin"}
  Missing = Missing
  NoClient = NoClient
INVARIANTS
  TypeOK
  AuthorisedStays
PROPERTIES
  FreshClientAccepted
  AppendTakesEffect
