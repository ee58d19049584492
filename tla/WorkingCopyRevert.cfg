SPECIFICATION FairCopySpec
CONSTANTS
  MaxContent = 2
  MaxWrites = 1
  MaxVersions = 2
  Chances <- RevertOnly
  SaveOptions <- MCSaveOptions
PROPERTY RevertReadsFile
CHECK_DEADLOCK FALSE
