\* Four threads, two stubs, stop().
CONSTANTS
  Threads = {t1, t2, t3, t4}
  NoThread = NoThread
  Spurious = TRUE
  Stubs = {s1, s2}
  NoStub = NoStub
  MaxCalls = 2
SPECIFICATION FairSpec
INVARIANTS
  TypeOK
  AtMostOneStranded
PROPERTIES
  LendsExclusively
  EveryCallReturns
CHECK_DEADLOCK FALSE
