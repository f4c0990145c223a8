SPECIFICATION Spec
CONSTANTS
  None = None
  Sandbox = {s1}
  Caller = {c1, c2}
  Sweeper = sweeper
  Exec = {e1, e2}
  Archiving = FALSE
  LossyReplies = FALSE
  MaxReconnects = 1
  MaxCalls = 2
  MaxDestroys = 0
  MaxCrashes = 1
  MaxFaults = 1
SYMMETRY CallersAndExecs
CHECK_DEADLOCK FALSE
INVARIANTS HolderKeepsRow GateExclusive ReadyMeansIdle ResultsAreTrue
PROPERTIES LifecycleSpec
