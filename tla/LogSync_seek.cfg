SPECIFICATION FairSpec
CONSTANTS
  Player = Player
  Viewer = Viewer
  Fifty = 2
  Steps = {0, 1, 3}
  MaxLines = 4
  MaxCuts = 1
INVARIANTS TypeOK BackupBehind ChainWhole
PROPERTIES SyncReachesTarget SyncEnds
CHECK_DEADLOCK FALSE
