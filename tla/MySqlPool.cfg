\* Three threads, up to two connections, dropped connections, close().
CONSTANTS
  Threads = {t1, t2, t3}
  NoThread = NoThread
  Spurious = TRUE
  Conns = {c1, c2}
  NoConn = NoConn
  PoolSizes = {1, 2}
  MaxCalls = 2
SPECIFICATION FairSpec
INVARIANTS
  TypeOK
PROPERTIES
  LendsExclusively
  EveryCallReturns
CHECK_DEADLOCK FALSE
