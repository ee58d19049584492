SPECIFICATION FairSpec
CONSTANTS
  MaxSockets = 7
  MaxBreaks = 2
  MaxOthers = 1
  StartMayFail = TRUE
INVARIANTS
  OneOwner
  ReadyFindsSocket
  NoSocketForgotten
PROPERTIES
  ClientServed
  NothingLeftBehind
CHECK_DEADLOCK FALSE
