SPECIFICATION Spec
CONSTANTS
  Procs <- MCProcs
  Words <- MCWords
  LongNames <- MCLongNames
  CommandLines <- MCNamedLines
CHECK_DEADLOCK FALSE
INVARIANT NotificationsStayHome
