CONSTANTS
  Clients = {c1}
  Controller = main
  Worker = worker
  NoThread = NoThread
  Delays = {0, 1}
  MaxTime = 1
  MaxTasks = 2
  MaxStarts = 2
  ClientsRaceStop = FALSE
SPECIFICATION FairSpec
INVARIANTS
  StopLeavesNothing SignalsLiveCond
PROPERTIES
  StopReturns TaskSettles
CHECK_DEADLOCK FALSE
