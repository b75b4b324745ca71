CONSTANTS
  Configs <- TwoSplices
  JobsCap = 2
  CQMax = 2
SPECIFICATION Spec
INVARIANT OpsStayHome
