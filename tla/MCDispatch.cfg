SPECIFICATION DispatchSpec
CONSTANTS
  MaxEvents = 5
  QueueSize = 2
  BatchMax = 2
  MaxAttempts = 3
INVARIANTS
  TypeOK
  JoinWaitsForTheWork
  EveryEventAccounted
  HandedInOrder
  FlushedIsStoredOrCounted
  TasksRunOnce
PROPERTIES
  AcloseReturns
  NoEventWaitsForever
CHECK_DEADLOCK FALSE
