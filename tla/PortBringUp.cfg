CONSTANT
  MaxFaults = 1
SPECIFICATION FairSpec
CHECK_DEADLOCK FALSE
INVARIANTS
  TypeOK
  ReadyIsReal
PROPERTIES
  BringUpEnds
