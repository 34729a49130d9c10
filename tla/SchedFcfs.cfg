SPECIFICATION FairSpec
CONSTANTS
  Requests = {"a", "b", "g"}
  NumPrompt <- MCPrompt
  MaxTokens <- MCMaxTokens
  Rank <- MCRank
  Structured = {"g"}
  Policy = "fcfs"
  RequiresKvDelivery = TRUE
  MaxNumScheduledTokens = 4
  MaxNumRunningReqs = 2
  MaxModelLen = 6
  NumSpecTokens = 1
  NumLookaheadTokens = 1
  BlockSize = 2
  NumBlocks = 4
  ReserveFullIsl = TRUE
  MaxHit = 0
  PpSize = 1
  MaxAborts = 1
  MaxResets = 0
INVARIANTS RequestPlaced
PROPERTY AllFinish
CHECK_DEADLOCK FALSE
