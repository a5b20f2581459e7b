SPECIFICATION FairSpec
CONSTANTS
  Retries = 1
  MaxConns = 2
  MaxCalls = 3
  MaxCancels = 1
INVARIANTS
  TypeOK
  Served
  InStep
  NoMutualWait
PROPERTY CallsEnd
CHECK_DEADLOCK FALSE
