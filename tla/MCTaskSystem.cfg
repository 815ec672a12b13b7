CONSTANTS
  Clients = {c1}
  Controller = main
  Worker = worker
  NoThread = NoThread
  Delays = {0, 1}
  MaxTime = 2
  MaxTasks = 3
  MaxStarts = 2
  ClientsRaceStop = TRUE
SPECIFICATION Spec
INVARIANTS
  TypeOK LockDiscipline QueueOrdered TasksConserved NoLostWakeup
PROPERTIES
  ImplementsScheduler
CHECK_DEADLOCK FALSE
