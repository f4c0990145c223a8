SPECIFICATION Spec
CONSTANTS
  None = None
  Sandbox = {s1}
  Caller = {c1}
  Sweeper = sweeper
  Exec = {e1}
  Archiving = TRUE
  LossyReplies = FALSE
  MaxReconnects = 1
  MaxCalls = 1
  MaxDestroys = 1
  MaxCrashes = 1
  MaxFaults = 0
SYMMETRY CallersAndExecs
CHECK_DEADLOCK FALSE
INVARIANTS EveryRunIsAccounted
PROPERTIES LossIsForced ReconcileAgrees AgentsKeepPromise
