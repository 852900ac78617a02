\* Two kinds of message, up to four pushed before, during and after stop().
CONSTANTS
  LogThread = LogThread
  Threads = {LogThread}
  NoThread = NoThread
  Spurious = TRUE
  Messages = {m1, m2}
  MaxPushes = 4
SPECIFICATION FairSpec
INVARIANTS
  TypeOK
  Fifo
  StopFlushes
PROPERTIES
  WritesInOrder
  EventuallyWritten
  StopReturns
CHECK_DEADLOCK FALSE
