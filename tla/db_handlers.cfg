SPECIFICATION Spec
CONSTANTS
  t1 = t1
  t2 = t2
  c1 = c1
  c2 = c2
  x1 = x1
  x2 = x2
  x3 = x3
  s1 = s1
  Nil = Nil
  Threads <- TwoThreads
  Conns <- TwoConns
  Contexts <- ThreeContexts
  Stmts <- OneStmt
  Rows = 2
SYMMETRY Symmetric
INVARIANTS
  TypeOK
  ContextsInUseLive
  NoContextLeak
  SilentAfterClose
  CloseReported
  BatchLeavesReset
CHECK_DEADLOCK FALSE
