SPECIFICATION FairSpec
CONSTANTS
  Calls = {c1, c2, c3, c4}
  FailMax = 2
  SuccessThreshold = 2
  ResetTimeout = 2
INVARIANTS
  TypeOK
  FieldsMatchState
PROPERTIES
  LeavesOpenOnlyCooledDown
  ImplementsContract
  OutcomesCount
  OpenEnds
  ClosesAfterFailuresStop
