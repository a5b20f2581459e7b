SPECIFICATION FairSpec
CONSTANTS
  p1 = p1
  p2 = p2
  p3 = p3
  Nobody = Nobody
  NoVal = "-"
  Vals = {"a", "b"}
  Procs <- Players
  Want <- TwoPlayers
  Engine <- TinyGame
  Server = TRUE
  RecoverRatio = 2
  MaxRecover = 3
  MaxCrash = 1
  MaxLen = 4
PROPERTIES SharesOneGame DeathReported
CHECK_DEADLOCK FALSE
