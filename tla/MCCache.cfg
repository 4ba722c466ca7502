SPECIFICATION Spec
CONSTANTS
  p1 = p1
  p2 = p2
  c1 = c1
  c2 = c2
  Pods = {p1, p2}
  Calls <- MCCalls
  PodOf <- OneEach
  Uses <- AllOnFirst
  Exposed = {p1}
  Ttls = {0, 2}
  CounterTtl = 2
  MaxCount = 2
INVARIANTS
  StaleOnlyUntilTtl
  AcknowledgedIsCounted
  CounterExpires
