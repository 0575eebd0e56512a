CONSTANTS
  N = 3
  ClientKind = "dv"
  RnrRetry = 1
  MaxFaults = 0
  Timely = TRUE
SPECIFICATION FairSpec
CHECK_DEADLOCK FALSE
INVARIANTS
  PongsWhole
PROPERTIES
  BothSucceed
