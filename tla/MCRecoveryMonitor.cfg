SPECIFICATION FairSpec
CONSTANTS
  Backends = {b1, b2}
  Tasks = {t1, t2}
  Stoppers = {s1, s2}
  NoTask = NoTask
  Overlapping = FALSE
INVARIANTS
  OnlyTheTrackedTaskRuns
  RunsWhileWanted
PROPERTIES
  NoDroppedRecovery
  
