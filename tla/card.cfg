SPECIFICATION PartSpec
CONSTANTS
  ReadyPolls = 2
  AnswerPolls = 3
  InitTries = 3
  WordModulus = 8
  HighAddress = TRUE
  FileBytes = 7
  SectorBytes = 2
  ClusterSectors = 2
  EndOfChain = 12
  Scanned <- Directory
  RootDirectory <- Entries
  Chain <- InARow
  FirstPhases = {"sd", "loader"}
  Headers = {"room", "end", "wild"}
  Settings = {s1}
  Factory = s1
  MaxCount = 3
  MaxSuccess = 1
  ReadFaults = TRUE
  WriteFaults = TRUE
  Bad = Bad
INVARIANTS
  CardTypeOK
  ReadyUnlessSilent HealthyCardComesUp
  HeapBalanced LoadSound
  OneGoodCopy
PROPERTIES
  CallsReturn
  SwitchEarned
