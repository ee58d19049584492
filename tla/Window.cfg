SPECIFICATION WindowSpec
CONSTANTS
  management = management
  extensionHost = extensionHost
  Connection <- BothConnections
  Fatal <- ManagementIsFatal
  ZeroGraceTime = TRUE
  MaxAttempts = 2
  MaxLosses = 2
  MaxContent = 3
  MaxWrites = 2
  MaxVersions = 2
  Chances <- CopyChances
  SaveOptions <- MCSaveOptions
INVARIANTS
  
  
  NeverTwoSaves
  CleanMeansStored
PROPERTIES
  
  SavesEnd
CHECK_DEADLOCK FALSE
