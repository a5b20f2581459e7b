SPECIFICATION FairSpec
CONSTANTS
  p1 = p1
  p2 = p2
  p3 = p3
  Nobody = Nobody
  NoVal = "-"
  Vals = {"a"}
  Procs <- Everyone
  Want <- OneOfEach
  Engine <- QuickGame
  Server = FALSE
  RecoverRatio = 2
  MaxRecover = 2
  MaxCrash = 1
  MaxLen = 3
INVARIANTS CurrentViews
PROPERTIES WatcherCatchesUp
CHECK_DEADLOCK FALSE
