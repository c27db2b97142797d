SPECIFICATION PartSpec
CONSTANTS
  HistorySize = 2
  ElapsedModulus = 16000
  IterationMs <- MCIterationMs
  Sources <- MCSources
  SdOutcomes = {TRUE, FALSE}
  UsbOutcomes = {TRUE, FALSE}
  LedLevels = {TRUE, FALSE}
  MaxRetries = 3
CHECK_DEADLOCK FALSE
INVARIANTS TypeOK HistoryIsPath  LoadsSound
PROPERTIES LegalTransitions RecoveryReturnsWithoutFailureRule BootSettles
