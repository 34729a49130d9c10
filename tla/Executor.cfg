SPECIFICATION Spec
CONSTANTS
  NWorkers <- MCNWorkers
  Async = TRUE
  BatchQueueSize = 2
  MaxChunks = 1
  Methods <- MCMethods
  MaxCalls = 2
INVARIANTS TypeOK OwnReplies
PROPERTIES NoHang DeathNoticed
CHECK_DEADLOCK FALSE
