SPECIFICATION BootSpec
CONSTANTS
  HistorySize = 1
  ElapsedModulus = 15000
  IterationMs <- MCQuickMs
  Sources <- MCDefaultOnly
  SdOutcomes = {TRUE}
  UsbOutcomes = {TRUE}
  LedLevels = {TRUE}
  MaxRetries = 3
CHECK_DEADLOCK FALSE
PROPERTIES BootSucceeds
