SPECIFICATION FairSpec
CONSTANTS
  NReaders = 2
  MaxChunks = 2
  MaxMsgs = 3
  Timed <- MCTimed
PROPERTIES Broadcast Delivered ShutdownWakes
CHECK_DEADLOCK FALSE
