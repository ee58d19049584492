SPECIFICATION Spec
CONSTANTS
  Client = Client
  Server = Server
  a = a
  b = b
  x = x
  y = y
  NoData = NoData
  Data <- MCData
  Script <- MCServerScript
  HandOff = FALSE
  MaxConn = 2
  MaxLoss = 1
INVARIANTS
  GenuineInFlight
  InOrderOnce
  AckPromised
PROPERTIES
  ImplementsFifo
CHECK_DEADLOCK FALSE
