SPECIFICATION FairSpec
CONSTANTS
  None = None
  Sandbox = {s1}
  Caller = {c1}
  Sweeper = sweeper
  Exec = {e1}
  Archiving = TRUE
  LossyReplies = FALSE
  MaxReconnects = 1
  MaxCalls = 1
  MaxDestroys = 0
  MaxCrashes = 0
  MaxFaults = 1
CHECK_DEADLOCK FALSE
PROPERTIES TtlReclaims ExecReturnsOrAbortLost
