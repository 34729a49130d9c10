SPECIFICATION FairSpec
CONSTANTS
  N <- MCN
  Yields = 3
INVARIANTS YieldAlone HookRun
PROPERTIES AllFinish
CHECK_DEADLOCK FALSE
