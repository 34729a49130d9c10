SPECIFICATION FairSpec
CONSTANTS
  Requests = {2, 3}
  NumPrompt <- MCPrompt
  mm_features <- MCFeatures
  CacheSize = 3
  EncoderBudget = 3
  MaxNumScheduledTokens = 3
  DisableChunkedMmInput = TRUE
  Shift = 1
  Policy = "fcfs"
  KvPressure = FALSE
  MaxAborts = 0
  MaxResets = 1
PROPERTY AllFinish
CHECK_DEADLOCK FALSE
