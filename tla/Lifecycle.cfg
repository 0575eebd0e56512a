CONSTANT
  NBufs = 3
SPECIFICATION FairSpec
CHECK_DEADLOCK FALSE
INVARIANTS
  TypeOK
  NeedsMet
  
PROPERTIES
  ReleasesHeld
  FailureExits
