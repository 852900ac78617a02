\* A password is forgotten that never existed.
CONSTANTS
  Workers = {w1, w2}
  Emails = {e1}
  Passwds = {p1}
  Codes = {k1}
  NoUser = NoUser
  NoCode = NoCode
  Null = Null
  Kinds = {"get_varify_code_forget_passwd"}
  Faults = {}
  RedisConns = 1
  MysqlSize = 1
  StubSize = 1
  VarifySize = 2
  MaxRequests = 2
SPECIFICATION Spec
INVARIANT MysqlConserved
CHECK_DEADLOCK FALSE
