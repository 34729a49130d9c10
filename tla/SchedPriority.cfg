SPECIFICATION Spec
CONSTANTS
  Requests = {"a", "b", "g"}
  NumPrompt <- MCPrompt
  MaxTokens <- MCMaxTokens
  Rank <- MCRank
  Structured = {"g"}
  Policy = "priority"
  RequiresKvDelivery = FALSE
  MaxNumScheduledTokens = 4
  MaxNumRunningReqs = 2
  MaxModelLen = 6
  NumSpecTokens = 1
  NumLookaheadTokens = 1
  BlockSize = 2
  NumBlocks = 5
  ReserveFullIsl = FALSE
  MaxHit = 2
  PpSize = 2
  MaxAborts = 1
  MaxResets = 1
INVARIANTS TypeOK BudgetExact NoExtraStep AccountingExact DeliveredInOrder
PROPERTY AdmitsMostUrgent
CHECK_DEADLOCK FALSE
