CONSTANTS
  r1 = r1  r2 = r2  b1 = b1  b2 = b2
  Requests <- MCRequests
  Blocks <- MCBlocks
  MaxConcurrentBatches = 2
  MaxNewBlocks = 1
  MaxSteps = 3
SPECIFICATION FairSpec
INVARIANTS RefCntExact InFlightBlocksHeld LoadsUndisturbed
PROPERTY DeferredDrained
