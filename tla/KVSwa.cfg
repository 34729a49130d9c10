SPECIFICATION Spec
CONSTANTS
  r1 = r1
  r2 = r2
  Requests = {r1, r2}
  Tokens <- MCSwaTokens
  NumPrompt <- MCSwaPrompt
  Hashes <- MCSwaHashes
  NumBlocks = 6
  EnableCaching = TRUE
  MaxModelLen = 7
  BlockSize = 1
  SlidingWindow = 3
  NumSpec = 1
  NumLookahead = 1
  UseEagle = TRUE
  ReserveFullISL = TRUE
  WatermarkBlocks = 1
  ReportFull = FALSE
  SkipReading = {}
  MaxBatchedTokens = 2
  MaxConcurrentBatches = 2
  MaxPreemptions = 1
INVARIANTS BlockAccounting AttendsOwnPrefix
CHECK_DEADLOCK FALSE
