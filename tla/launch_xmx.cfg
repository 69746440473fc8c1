SPECIFICATION Spec
CONSTANTS
  Configs <- MCConfigs
  UserEnvs <- MCUserEnvs
  ArgLists <- MCArgLists
  Usize <- MCUsize
  MaxLaunches = 1
INVARIANT RamPercentageWins
CHECK_DEADLOCK FALSE
