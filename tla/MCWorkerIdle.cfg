CONSTANTS
  MaxConns = 1
  AcceptBatch = 2
  HookWorkers = 1
  JobsCap = 1
  IdleTicks = 1
  SweepEvery = 2
  MaxFD = 3
  Decisions <- AllDecisions
  MaxId = 2
  BatchMax = 2
SPECIFICATION SafeSpec
INVARIANTS
  
  StatsPartition
  TeardownAccounted
  DescriptorsOwned
  EveryConnHasWork
  BlockedOnlyByGone
PROPERTY NoPostAfterClose
