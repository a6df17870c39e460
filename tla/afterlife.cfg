SPECIFICATION LifeSpec
CONSTANTS
  Vids <- MCOneDevice
  MaxPairs = 1
  SockCap = 3
  MaxPorts = 2
  Guest <- MCGuest
  NofThreads = 1
  MayFail = TRUE
CHECK_DEADLOCK FALSE
INVARIANT NothingUsedAfterItsEnd
