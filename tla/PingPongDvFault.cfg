CONSTANTS
  N = 2
  ClientKind = "dv"
  RnrRetry = 1
  MaxFaults = 1
  Timely = TRUE
SPECIFICATION Spec
CHECK_DEADLOCK FALSE
INVARIANTS
  DoneMeansDelivered
