SPECIFICATION SdSpec
CONSTANTS
  ReadyPolls = 2
  AnswerPolls = 3
  InitTries = 3
  WordModulus = 8
  HighAddress = TRUE
INVARIANT InitDetectsCard
