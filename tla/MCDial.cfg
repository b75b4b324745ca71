CONSTANTS
  Hosts <- TwoHosts
  PortCounts = {1, 2}
  Window = 4
  Hooks = {g1, g2}
  MaxDials = 9
SPECIFICATION Spec
INVARIANTS
  GridEven
  DialsSettle
CHECK_DEADLOCK FALSE
