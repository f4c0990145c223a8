CONSTANTS
  Run = {r1}
  Theirs = {c1}
  None = None
  GitTries = 2
  PushTries = 2
  ApiRetries = 1
  MaxWrites = 1
SPECIFICATION Spec
INVARIANTS NoOutputNoPush
CHECK_DEADLOCK FALSE
