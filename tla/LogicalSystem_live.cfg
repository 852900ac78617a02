\* Every request and every failure, more requests than the pools survive.
CONSTANTS
  Workers = {w1, w2}
  Emails = {e1}
  Passwds = {p1}
  Codes = {k1}
  NoUser = NoUser
  NoCode = NoCode
  Null = Null
  Kinds = {"get_varify_code", "user_register", "user_login", "get_varify_code_forget_passwd", "submit_forget_passwd", "get_user_icon"}
  Faults = {"redis_throw", "mysql_throw", "mysql_fail", "proc_fail", "no_row", "rpc_fail"}
  RedisConns = 1
  MysqlSize = 1
  StubSize = 1
  VarifySize = 2
  MaxRequests = 4
SPECIFICATION FairSpec
INVARIANTS
  StubConservation
  MysqlNotInflated
  WaitsOnlyOnLost
PROPERTY EveryRequestEnds
CHECK_DEADLOCK FALSE
