CONSTANTS
  Run = {r1, r2}
  Theirs = {c1}
  None = None
  GitTries = 2
  PushTries = 2
  ApiRetries = 1
  MaxWrites = 1
SPECIFICATION FairSpec
INVARIANTS SuccessIsReal LastRunWins
PROPERTIES OverwriteNeedsReturn RunsEnd
CHECK_DEADLOCK FALSE
