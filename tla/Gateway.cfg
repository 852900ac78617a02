\* Two workers, two clients, every failure.
CONSTANTS
  Size = 2
  Main = main
  Conns = {1, 2, 3}
  Classes = {"AsioIOServicePool", "LogicalSystem", "MySqlMgr"}
  Fragile = {"MySqlMgr"}
  Faults = {"accept_error", "accept_throw"}
  MysqlSize = 1
SPECIFICATION FairSpec
INVARIANTS
  TypeOK
  OneListener
  ConstructedOnce
PROPERTIES
  AcceptedIsServed
  RequestEnds
  ShutdownEnds
CHECK_DEADLOCK FALSE
