SPECIFICATION FairSpec
CONSTANTS
  NPages = 3
  DestPages = 2
  PagesPerStep = 1
  NTimeoutLimit = 2
  MaxWrites = 1
  MaxFaults = 1
  MaxCrashes = 2
INVARIANTS
  TypeOK
  CopyInStep
  BackupTellsTruth
  ReleasedOnReturn
PROPERTIES
  ImplementsAtomicCopy
  Returns
CHECK_DEADLOCK FALSE
