CONSTANTS
  Reqs <- MCReqs
  SQEntries = 2
  CQEntries = 2
  IndexMod = 4
  MaxPosts = 3
  ShortSubmits = FALSE
SPECIFICATION Spec
INVARIANTS
  NeverBlocksForever
PROPERTY ImplementsIoQueue
