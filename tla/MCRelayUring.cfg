CONSTANTS
  Configs <- AllModes
  JobsCap = 2
  CQMax = 2
SPECIFICATION Spec
INVARIANTS
  CapHolds
  DescriptorsOwned
  WorkPending
  ResultFindsConn
  BuffersNotShared
  CopiesStayHome
