SPECIFICATION FairSpec
CONSTANTS
  Procs = {1, 2, 3}
  Uninit = FALSE
  MaxOps = 3
  MaxFaults = 0
INVARIANTS AnswersComing ReleasesComing
PROPERTIES LockGranted
CHECK_DEADLOCK FALSE
