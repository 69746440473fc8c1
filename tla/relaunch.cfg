SPECIFICATION FairSpec
CONSTANTS
  Configs <- MCConfigs
  UserEnvs <- MCUserEnvs
  ArgLists <- MCArgLists
  Usize <- MCUsize
  MaxLaunches = 2
INVARIANTS TypeOK UserOptionsWin FailureTold EnvPreserved CommandsChecked
PROPERTY StartDecided
CHECK_DEADLOCK FALSE
