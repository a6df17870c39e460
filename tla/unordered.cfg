SPECIFICATION Spec
CONSTANTS
  Vids <- MCOneDevice
  MaxPairs = 2
  SockCap = 2
  MaxPorts = 1
  Guest <- MCUnordered
  NofThreads = 2
  MayFail = FALSE
CHECK_DEADLOCK FALSE
INVARIANT PairsServed
