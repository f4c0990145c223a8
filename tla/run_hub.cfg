SPECIFICATION FairSpec
CONSTANTS
  Run = {r1, r2}
  Viewer = {v1}
  MaxEvents = 2
  MaxQueued = 1
  MaxRuns = 1
  MaxEmits = 3
  MaxCuts = 1
CHECK_DEADLOCK FALSE
INVARIANTS PageLosesNothing TextInPlace
PROPERTIES PagesSettle
