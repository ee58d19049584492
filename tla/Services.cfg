SPECIFICATION ServiceSpec
CONSTANTS
  MaxTyped = 3
  file1 = file1
  file2 = file2
  cell1 = cell1
  cell2 = cell2
  notebook = notebook
  Model <- Texts
  ComparisonKey <- KeyOfText
  Plans <- AllPlans
  MaxAsked = 3
  MaxFlows = 2
  MaxReplaced = 1
  RemoteCalls = {r1, r2}
  MaxEvents = 2
  Call = {c1}
  Listenable = {e1}
  MaxListens = 2
  MaxFired = 2
  Listener = {l1, l2, l3}
  MaxEmitted = 3
  MaxChanges = 5
INVARIANTS
  ServiceTypesOK
  BackupFollows
  NothingLost
  InOrderButForTwo
  LocksAreHeld
  WholeMoves
  CancelIsHeard
  WatchIsRight
  OneSubscriptionEach
  HeardInOrder
  SameTree
PROPERTIES
  RemoteCallsSettle
  CallsSettle
CHECK_DEADLOCK FALSE
