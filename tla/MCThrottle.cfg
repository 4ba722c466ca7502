SPECIFICATION FairSpec
CONSTANTS
  p1 = p1
  p2 = p2
  c1 = c1
  c2 = c2
  c3 = c3
  Pods = {p1, p2}
  Calls = {c1, c2, c3}
  PodOf <- TwoOnFirst
  Exposed = {p1}
  Limit = 2
  Window = 2
  ProbeInterval = 2
INVARIANTS
  LimitHolds
  
PROPERTIES
  DeniesOnlyWhenFull
  RecoversInCall
