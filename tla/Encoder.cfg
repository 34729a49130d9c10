SPECIFICATION Spec
CONSTANTS
  Requests = {1, 2, 3}
  NumPrompt <- MCPrompt
  mm_features <- MCFeatures
  CacheSize = 3
  EncoderBudget = 2
  MaxNumScheduledTokens = 4
  DisableChunkedMmInput = FALSE
  Shift = 1
  Policy = "fcfs"
  KvPressure = TRUE
  MaxAborts = 1
  MaxResets = 1
INVARIANTS TypeOK SlotsExact NoOrphanReference WorkerAgrees NoEncoderMiss
CHECK_DEADLOCK FALSE
