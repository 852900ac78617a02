\* Three threads on two pools of two connections, failing pings, one close().
CONSTANTS
  Threads = {t1, t2, t3}
  NoThread = NoThread
  Spurious = TRUE
  NoConn = NoConn
  PoolSize = 2
  MaxConnects = 2
  MaxCloses = 1
  MaxCalls = 4
SPECIFICATION FairSpec
INVARIANT
  TypeOK
PROPERTIES
  NullOnlyIfBusy
  EveryCallReturns
CHECK_DEADLOCK FALSE
