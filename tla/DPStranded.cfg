SPECIFICATION Spec
CONSTANTS
  c1 = c1
  Clients <- MCClients
  NEngines = 2
  SyncInterval = 2
  MaxStep = 2
  MaxRequests = 2
  MaxAborts = 1
  MaxPauses = 1
  Stress <- MCEarlyAbort
INVARIANTS NoneStranded
CHECK_DEADLOCK FALSE
