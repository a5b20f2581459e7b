SPECIFICATION Spec
CONSTANTS
  Objs = {1, 2, 3}
  Levels = {1, 2}
  Firsts <- MCFirsts
  Stages = {0, 1, 2}
  Close = 2
  RotTime = 2
  MaxTime = 2
INVARIANT NoGhosts
CHECK_DEADLOCK FALSE
