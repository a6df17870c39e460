SPECIFICATION Spec
CONSTANTS
  Others <- MCOthers
  Signals <- MCOneSignal
  MaxLines = 1
CHECK_DEADLOCK FALSE
PROPERTY GracefulExit
