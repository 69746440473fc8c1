SPECIFICATION Spec
CONSTANTS
  Fds <- EightFds
  Waiters = {"w1", "w2"}
  Codes = {1, 9}
INVARIANTS
  TypeOK
  ExecDescriptors
  EchoOff
  WaitTold
CHECK_DEADLOCK FALSE
