SPECIFICATION Spec
CONSTANTS
  Vids <- MCTwoDevices
  MaxPairs = 1
  SockCap = 2
  MaxPorts = 2
  Guest <- MCOrderly
  NofThreads = 1
  MayFail = FALSE
CHECK_DEADLOCK FALSE
INVARIANT PortRecordsRing
