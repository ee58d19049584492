SPECIFICATION FairSpec
CONSTANTS
  k1 = k1
  k2 = k2
  v1 = v1
  v2 = v2
  Key <- MCKey
  Value <- MCValue
  NoValue = NoValue
  DoesNotExist = FALSE
  MaxWrites = 3
  MaxFailures = 2
INVARIANTS
  NothingDropped
  WaitedMeansStored
  ClosedMeansStored
PROPERTIES
  EventuallyStored
  WaitersAreServed
CHECK_DEADLOCK FALSE
