SPECIFICATION Spec
CONSTANTS
  Calls = {c1, c2, c3, c4}
  FailMax = 2
  SuccessThreshold = 2
  ResetTimeout = 2
PROPERTIES
  HalfOpensOnTime
SYMMETRY Callers
