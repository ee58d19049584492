SPECIFICATION FairSpec
CONSTANTS
  Client = Client
  Server = Server
  a = a
  b = b
  x = x
  y = y
  NoData = NoData
  Data <- MCData
  Script <- MCClientScript
  HandOff = TRUE
  MaxConn = 2
  MaxLoss = 0
INVARIANTS
  NothingForgotten
  NoGap
  NoStrandedWrites
  WatchdogArmed
PROPERTIES
  EventuallySettled
CHECK_DEADLOCK FALSE
