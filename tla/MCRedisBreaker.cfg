SPECIFICATION Spec
CONSTANTS
  p1 = p1
  p2 = p2
  c1 = c1
  c2 = c2
  c3 = c3
  NoPod = NoPod
  Pods = {p1, p2}
  Calls = {c1, c2, c3}
  Operators = {p1}
  Exposed = {p1}
  PodOf <- TwoOnFirst
  Skew <- SecondAhead
  Spread = 1
  FailMax = 2
  SuccessThreshold = 2
  ResetTimeout = 2
INVARIANTS
  TypeOK
PROPERTIES
  SharedImplementsContract
  FallbacksKeepContract
  ConfirmedOutcomesCount
SYMMETRY SameCallers
