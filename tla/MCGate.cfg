CONSTANTS
  Conns <- OneConn
  SockCap = 1
  MaxWedged = 1
  Runs <- TwoRuns
  Stops = {s1, s2}
  Workers = {w1}
  Tunnels <- OneConn
  MaxChunks = 6
SPECIFICATION Spec
INVARIANTS
  StopCanReach
  ResultIsFinal
  TwoFdSound
PROPERTIES
  StopEnds
  ConnsReleased
  EchoDelivered
CHECK_DEADLOCK FALSE
