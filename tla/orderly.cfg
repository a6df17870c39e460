SPECIFICATION Spec
CONSTANTS
  Vids <- MCTwoDevices
  MaxPairs = 2
  SockCap = 2
  MaxPorts = 2
  Guest <- MCOrderly
  NofThreads = 2
  MayFail = FALSE
CHECK_DEADLOCK FALSE
INVARIANT PairsServed
INVARIANT PairSlots
PROPERTY EventuallyServed
