SPECIFICATION Spec
CONSTANTS
  k1 = k1
  k2 = k2
  v1 = v1
  v2 = v2
  Key <- MCKey
  Value <- OneValue
  NoValue = NoValue
  DoesNotExist = TRUE
  MaxWrites = 2
  MaxFailures = 0
INVARIANTS
  FlushedMeansStored
CHECK_DEADLOCK FALSE
