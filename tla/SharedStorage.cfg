SPECIFICATION FairSpec
CONSTANTS
  w1 = w1
  w2 = w2
  k1 = k1
  k2 = k2
  v1 = v1
  v2 = v2
  Window <- MCWindow
  Key <- OneKey
  Value <- TwoValues
  NoValue = NoValue
  MaxWrites = 2
  MaxMainWrites = 1
  MaxOpens = 3
INVARIANTS
  AgreeWhenQuiet
PROPERTIES
  Converges
CHECK_DEADLOCK FALSE
