CONSTANTS
  N = 3
  ClientKind = "verb"
  RnrRetry = 1
  MaxFaults = 1
  Timely = FALSE
SPECIFICATION FairSpec
CHECK_DEADLOCK FALSE
INVARIANTS
  TypeOK
  DoneMeansDelivered
  OwnCompletions
PROPERTIES
  FinishOrOrphan
