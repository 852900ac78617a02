\* An email is registered twice.
CONSTANTS
  Workers = {w1, w2}
  Emails = {e1}
  Passwds = {p1}
  Codes = {k1}
  NoUser = NoUser
  NoCode = NoCode
  Null = Null
  Kinds = {"user_register"}
  Faults = {}
  RedisConns = 1
  MysqlSize = 1
  StubSize = 1
  VarifySize = 2
  MaxRequests = 2
SPECIFICATION Spec
INVARIANT EmailTakenReported
CHECK_DEADLOCK FALSE
