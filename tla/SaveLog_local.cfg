SPECIFICATION Spec
CONSTANTS
  p1 = p1
  p2 = p2
  p3 = p3
  Nobody = Nobody
  NoVal = "-"
  Vals = {"a", "b"}
  Procs <- Players
  Want <- TwoPlayers
  Engine <- QuickGame
  Server = FALSE
  RecoverRatio = 2
  MaxRecover = 3
  MaxCrash = 2
  MaxLen = 4
SYMMETRY Swap
INVARIANTS TypeOK Replayable DoneMeansOver TruncationInside CurrentViews SavesTruthful OneEndPerCount
CHECK_DEADLOCK FALSE
