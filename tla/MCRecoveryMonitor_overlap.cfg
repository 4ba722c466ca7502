SPECIFICATION Spec
CONSTANTS
  Backends = {b1}
  Tasks = {t1, t2}
  Stoppers = {s1}
  NoTask = NoTask
  Overlapping = TRUE
INVARIANTS
  OneTaskRuns
