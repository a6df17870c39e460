SPECIFICATION Spec
CONSTANTS
  Others <- MCOthers
  Signals <- MCBothSignals
  MaxLines = 1
CHECK_DEADLOCK FALSE
INVARIANT TypeOK
INVARIANT HolderReleases
PROPERTY CaughtForGood
PROPERTY WritesInOrder
PROPERTY LinesReachTheFile
PROPERTY DestructorEnds
