SPECIFICATION Spec
CONSTANTS
  w1 = w1
  w2 = w2
  k1 = k1
  k2 = k2
  v1 = v1
  v2 = v2
  Window <- OneWindow
  Key <- OneKey
  Value <- TwoValues
  NoValue = NoValue
  MaxWrites = 3
  MaxMainWrites = 0
  MaxOpens = 1
INVARIANTS
  LastStoreKept
CHECK_DEADLOCK FALSE
