SPECIFICATION FairSpec
CONSTANTS
  Nil = Nil
  NoName = NoName
  Capacity = 13
  Wds <- TwelveWds
  Paths <- AndLinked
  InitDirs <- OneLevel
  NameExt <- None
  Links <- LinkToR
  MaxOps = 3
  Pinned <- RandB
  Disks <- None
  RenameOver = TRUE
  QueueMax = 20
  WatchLimit = 13
  RootLists <- ManyRoots
  Mounts <- MountAtB
  MaxCommands = 2
  MaxFaults = 0
  Eof = TRUE
INVARIANTS
  CoverageAtRest
  MountsStayUnwatched
PROPERTIES
  RootsAnswered
  RegisterSkipsMounts
  RootsEventuallyWatched
CHECK_DEADLOCK FALSE
