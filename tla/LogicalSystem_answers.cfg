\* Two workers, two accounts, every request, every failure.
CONSTANTS
  Workers = {w1, w2}
  Emails = {e1, e2}
  Passwds = {p1, p2}
  Codes = {k1, k2}
  NoUser = NoUser
  NoCode = NoCode
  Null = Null
  Kinds = {"get_varify_code", "user_register", "user_login", "get_varify_code_forget_passwd", "submit_forget_passwd", "get_user_icon"}
  Faults = {"redis_throw", "mysql_throw", "mysql_fail", "proc_fail", "no_row", "rpc_fail"}
  RedisConns = 1
  MysqlSize = 1
  StubSize = 1
  VarifySize = 2
  MaxRequests = 2
SPECIFICATION Spec
SYMMETRY Symmetry
INVARIANT TypeOK
PROPERTIES
  CodeGuardsAccounts
  ResetHonest
CHECK_DEADLOCK FALSE
