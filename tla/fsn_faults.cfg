SPECIFICATION FsSpec
CONSTANTS
  Nil = Nil
  NoName = NoName
  Capacity = 4
  Wds <- TwelveWds
  Paths <- TwoLevels
  InitDirs <- JustR
  NameExt <- None
  Links <- NoLinks
  MaxOps = 3
  Pinned <- None
  Disks <- JustR
  RenameOver = FALSE
  QueueMax = 2
  WatchLimit = 3
  RootLists <- NestedRoots
  Mounts <- None
  MaxCommands = 1
  MaxFaults = 1
  Eof = TRUE
INVARIANTS
  Forest
  NoLeakedWatches
  ExitFreesAll
PROPERTIES
  ImplementsWatchTree
CHECK_DEADLOCK FALSE
