CONSTANTS
  SendWrs = {1, 2, 3, 7, 33, 63, 64, 3276, 6553}
  RecvWrs = {1, 3, 4, 5, 33, 64, 32768}
  Sges = {1, 2, 3, 8}
  Inlines = {0, 1, 12, 13, 60, 64, 65}
  Numbers = {141, 16777215}
  Stack = {0, 1000, 100000}
  PageSize = 4096
  PpMaxWr = 64
  LogCqSize = 8
SPECIFICATION QpSpec
CHECK_DEADLOCK FALSE
INVARIANTS
  RingsHoldRequests
  RingsApart
  DeviceAgrees
  
