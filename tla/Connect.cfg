CONSTANTS
  Servers = {s1}
  Clients = {c1, c2}
  DvClients = {c2}
  Lengths = {1, 6, 12}
  None = None
  MaxDeaths = 1
SPECIFICATION FairSpec
CHECK_DEADLOCK FALSE
INVARIANTS
  Paired
  OnePeer
PROPERTIES
  ExchangeEnds
