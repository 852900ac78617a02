\* Three threads, up to two connections, which handlers may drop or return
\* twice, and close().
CONSTANTS
  Threads = {t1, t2, t3}
  NoThread = NoThread
  Spurious = TRUE
  Conns = {c1, c2}
  NoConn = NoConn
  PoolSizes = {0, 1, 2}
  MaxCalls = 2
  MaxTwice = 1
SPECIFICATION FairSpec
INVARIANTS
  TypeOK
  ExclusiveLoan
  NoEmptyPop
  CloseWakesAll
  NoLostWakeup
PROPERTIES
  LendsExclusively
  EveryCallReturns
CHECK_DEADLOCK FALSE
