SPECIFICATION BootSpec
CONSTANTS
  ReadyPolls = 2
  AnswerPolls = 2
  InitTries = 2
  WordModulus = 8
  HighAddress = TRUE
  FileBytes = 7
  SectorBytes = 2
  ClusterSectors = 2
  EndOfChain = 12
  Scanned <- Directory
  RootDirectory <- Entries
  Chain <- InARow
  FirstPhases = {"sd"}
  Headers = {"wild"}
PROPERTY ReachesIdle
