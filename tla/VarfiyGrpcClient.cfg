\* Three threads, the pool of four stubs the client creates, nine calls.
CONSTANTS
  Threads = {t1, t2, t3}
  NoThread = NoThread
  Spurious = TRUE
  Null = 0
  PoolSize = 4
  MaxCalls = 3
  Int32Bits = 2
  Int64Bits = 3
  Strings = {"", "a", "bad"}
  Malformed = {"bad"}
SPECIFICATION FairSpec
INVARIANTS
  TypeOK
  NoLostWakeup
  NullsShrinkThePool
PROPERTY EveryCallReturns
CHECK_DEADLOCK FALSE
