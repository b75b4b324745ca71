CONSTANTS
  MaxConns = 1
  AcceptBatch = 2
  HookWorkers = 1
  JobsCap = 1
  IdleTicks = 1
  SweepEvery = 2
  MaxFD = 3
  Decisions <- UsualDecisions
  MaxId = 2
  BatchMax = 2
SPECIFICATION SafeSpec
INVARIANT BuffersOutliveOps
