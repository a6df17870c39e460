SPECIFICATION LifeSpec
CONSTANTS
  Vids <- MCOneDevice
  MaxPairs = 2
  SockCap = 3
  MaxPorts = 2
  Guest <- MCGuest
  NofThreads = 1
  MayFail = TRUE
CHECK_DEADLOCK FALSE
INVARIANT LifeTypeOK
INVARIANT CallbacksHaveController
INVARIANT NoDoubleFree
INVARIANT OneGeneration
PROPERTY MainReturns
PROPERTY ServesOnceToTheEnd
