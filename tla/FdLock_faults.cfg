SPECIFICATION Spec
CONSTANTS
  Procs = {1, 2}
  Uninit = TRUE
  MaxOps = 4
  MaxFaults = 2
INVARIANTS TypeOK LockKept Informed
CHECK_DEADLOCK FALSE
