CONSTANTS
  MaxConns = 2
  AcceptBatch = 2
  HookWorkers = 2
  JobsCap = 2
  IdleTicks = 0
  SweepEvery = 1
  MaxFD = 4
  Decisions <- UsualDecisions
  MaxId = 2
  BatchMax = 2
SPECIFICATION SafeSpec
INVARIANTS
  TypeOK
  ConnCap
  RingNeverBlocked
  CompletedIsClean
