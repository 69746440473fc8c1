SPECIFICATION Spec
CONSTANTS
  NPages = 2
  DestPages = 2
  PagesPerStep <- AllPages
  NTimeoutLimit = 1
  MaxWrites = 1
  MaxFaults = 0
  MaxCrashes = 0
INVARIANT RestoreTellsTruth
CHECK_DEADLOCK FALSE
