SPECIFICATION Spec
CONSTANTS
  Procs <- MCProcs
  Words <- MCWords
  LongNames <- MCLongNames
  CommandLines <- MCCommandLines
CHECK_DEADLOCK FALSE
INVARIANT TypeOK
INVARIANT CommandLinesUnderstood
INVARIANT RequiredUnderstood
INVARIANT HolderMeetsItself
PROPERTY HolderIsHeard
PROPERTY PipeFromOthers
PROPERTY OnlyTheKilledLeaveFiles
