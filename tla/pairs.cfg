SPECIFICATION Spec
CONSTANTS
  Vids <- MCOneDevice
  MaxPairs = 2
  SockCap = 2
  MaxPorts = 2
  Guest <- MCAnyGuest
  NofThreads = 1
  MayFail = FALSE
CHECK_DEADLOCK FALSE
INVARIANT UpIsSeen
PROPERTY ServesOnce
PROPERTY DownIsSeen
