SPECIFICATION Spec
CONSTANTS
  MaxSockets = 2
  MaxBreaks = 1
  MaxOthers = 0
  StartMayFail = FALSE
PROPERTY AdoptsNewer
CHECK_DEADLOCK FALSE
