SPECIFICATION Spec
CONSTANTS
  Vids <- MCTwoDevices
  MaxPairs = 1
  SockCap = 3
  MaxPorts = 3
  Guest <- MCAnyGuest
  NofThreads = 1
  MayFail = TRUE
CHECK_DEADLOCK FALSE
INVARIANT TypeOK
INVARIANT UpIsSeen
INVARIANT StopFollowsStart
INVARIANT RecordedUpIsUp
 
INVARIANT OneGeneration
PROPERTY PortBinding
PROPERTY ServesOnce
PROPERTY StopTakesEffect
INVARIANT WorkersHaveRing
