SPECIFICATION Spec
CONSTANTS
  r1 = r1
  r2 = r2
  Requests = {r1, r2}
  Tokens <- MCTokens
  NumPrompt <- MCPrompt
  Hashes <- MCHashes
  NumBlocks = 5
  EnableCaching = TRUE
  MaxModelLen = 7
  BlockSize = 2
  SlidingWindow = 0
  NumSpec = 1
  NumLookahead = 1
  UseEagle = FALSE
  ReserveFullISL = TRUE
  WatermarkBlocks = 1
  ReportFull = TRUE
  SkipReading = {}
  MaxBatchedTokens = 3
  MaxConcurrentBatches = 2
  MaxPreemptions = 1
INVARIANTS TypeOK CacheMapConsistent CacheTruth PrefixClosed EventsSound
CHECK_DEADLOCK FALSE
