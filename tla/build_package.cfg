SPECIFICATION FairSpec
CONSTANTS
  Replacement <- ThreeNatives
  Transformed = {"product-info.json"}
  FilteredOut = {"bin/libdbm.so"}
  JbrPaths <- Jbr
  JdkEntries <- Jdk
  Bundled = {"libjnidispatch.so"}
  MaxFaults = 1
  Tars <- AllTars
  HasUrl = TRUE
  MaxKills = 1
INVARIANTS
  TypeOK
  ArchiveRight
  DebRight
  NothingLeft
PROPERTIES
  BuildRepeats
CHECK_DEADLOCK FALSE
