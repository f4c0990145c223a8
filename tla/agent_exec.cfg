SPECIFICATION FairSpec
CONSTANTS
  None = None
  Exec = {e1, e2}
  Job = {j1}
CHECK_DEADLOCK FALSE
INVARIANTS OneAtATime EndIsReal KillAnswerKept NoOrphan
PROPERTIES SlotComesBack ViewSpec
