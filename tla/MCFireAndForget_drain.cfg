SPECIFICATION Spec
CONSTANTS
  MaxEvents = 3
  QueueSize = 2
  BatchMax = 2
INVARIANTS
  PendingCountedAsDropped
CHECK_DEADLOCK FALSE
