SPECIFICATION FsSpec
CONSTANTS
  Nil = Nil
  NoName = NoName
  Capacity = 13
  Wds <- TwelveWds
  Paths <- AndOutside
  InitDirs <- RandA
  NameExt <- None
  Links <- NoLinks
  MaxOps = 4
  Pinned <- JustR
  Disks <- None
  RenameOver = FALSE
  QueueMax = 20
  WatchLimit = 13
  RootLists <- OneRoot
  Mounts <- None
  MaxCommands = 1
  MaxFaults = 0
  Eof = FALSE
INVARIANTS
  FsTypeOK
  CoverageAtRest
  NodePathsTrue
  NoLeakedWatches
CHECK_DEADLOCK FALSE
