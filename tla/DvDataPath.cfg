CONSTANTS
  N = 4
  SqWqeCnt = 4
  RqWqeCnt = 4
  NCqe = 4
  DbMod = 8
  CiMod = 8
  CtrMod = 8
  MaxRewinds = 2
SPECIFICATION FairSpec
CHECK_DEADLOCK FALSE
INVARIANTS
  
  RoomAlways
PROPERTIES
  ImplementsChannel
  TrafficEnds
