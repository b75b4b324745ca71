CONSTANTS
  MaxConns = 1
  AcceptBatch = 1
  HookWorkers = 1
  JobsCap = 1
  IdleTicks = 1
  SweepEvery = 1
  MaxFD = 2
  Decisions <- UsualDecisions
  MaxId = 2
  BatchMax = 1
SPECIFICATION Spec
PROPERTIES
  ClosingEnds
  StopDrains
