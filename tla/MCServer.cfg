CONSTANTS
  NumCPU = 3
  Configs <- Passed
  MaxWorkers = 3
SPECIFICATION Spec
INVARIANTS
  TypeOK
  ReturnsClean
  ListenerOutlivesWorker
PROPERTY RunReturns
CHECK_DEADLOCK FALSE
