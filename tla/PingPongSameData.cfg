CONSTANTS
  N = 2
  ClientKind = "verb"
  RnrRetry = 1
  MaxFaults = 0
  Timely = TRUE
SPECIFICATION Spec
CHECK_DEADLOCK FALSE
INVARIANTS
  PongSameData
