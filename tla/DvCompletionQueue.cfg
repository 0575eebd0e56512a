CONSTANTS
  NCqe = 2
  CtrMod = 8
  CiMod = 4
  MaxNe = 2
  MaxWr = 10
SPECIFICATION FairSpec
INVARIANTS
  TypeOK
  OwnedIffPending
  CiCoversUnread
  NoOverrun
PROPERTIES
  TakesNextIntact
  ImplementsChannel
  EveryRequestReported
