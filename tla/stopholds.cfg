SPECIFICATION StopSpec
CONSTANTS
  Vids <- MCOneDevice
  MaxPairs = 1
  SockCap = 2
  MaxPorts = 2
  Guest <- MCReturning
  NofThreads = 2
  MayFail = FALSE
CHECK_DEADLOCK FALSE
INVARIANT StopHolds
