SPECIFICATION Spec
CONSTANTS
  None = None
  Exec = {e1, e2}
  Job = {j1}
SYMMETRY Execs
CHECK_DEADLOCK FALSE
INVARIANTS TreeIsDead
