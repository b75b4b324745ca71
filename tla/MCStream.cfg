CONSTANTS
  InitialReqLen = 2
  MaxReqLen = 5
  BufSize = 2
  ReplyMax = 2
  RepliesMax = 3
  StreamMax = 6
SPECIFICATION Spec
INVARIANTS
  BuffersFit
  StreamsIntact
PROPERTY RelayedBytesArrive
CHECK_DEADLOCK FALSE
