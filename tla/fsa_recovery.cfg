SPECIFICATION FairSpec
CONSTANTS
  HistorySize = 2
  ElapsedModulus = 16000
  IterationMs <- MCIterationMs
PROPERTIES RecoveryReturns
