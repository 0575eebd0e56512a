CONSTANTS
  WqeCnt = 3
  DbMod = 6
  CtrMod = 12
  MaxWr = 14
SPECIFICATION FairSpec
INVARIANTS
  TypeOK
  AnnouncedIntact
PROPERTIES
  ImplementsChannel
  EveryReceiveOffered
CHECK_DEADLOCK FALSE
