CONSTANTS
  WqeCnt = 2
  MaxPost = 2
  PpMaxWr = 2
  DbMod = 4
  CtrMod = 8
  MaxWr = 9
  MaxRewinds = 1
SPECIFICATION FairSpec
INVARIANTS
  TypeOK
  AnnouncedIntact
PROPERTIES
  ImplementsChannel
  EveryRequestExecuted
