SPECIFICATION FsSpec
CONSTANTS
  Nil = Nil
  NoName = NoName
  Capacity = 13
  Wds <- TwelveWds
  Paths <- OneLevel
  InitDirs <- RandA
  NameExt <- AIsPrefixOfB
  Links <- NoLinks
  MaxOps = 3
  Pinned <- JustR
  Disks <- None
  RenameOver = FALSE
  QueueMax = 20
  WatchLimit = 13
  RootLists <- OneRoot
  Mounts <- None
  MaxCommands = 1
  MaxFaults = 0
  Eof = FALSE
INVARIANTS
  CoverageAtRest
CHECK_DEADLOCK FALSE
