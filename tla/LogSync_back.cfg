SPECIFICATION FairSpec
CONSTANTS
  Player = Player
  Viewer = Viewer
  Fifty = 2
  Steps = {0, 1, 3}
  MaxLines = 4
  MaxCuts = 0
PROPERTIES BackKeysStop
CHECK_DEADLOCK FALSE
