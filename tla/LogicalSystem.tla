---------------------------- MODULE LogicalSystem ----------------------------
(***************************************************************************)
(* The request handlers of LogicalSystem (src/LogicalSystem.cpp), run by   *)
(* the worker threads, over the pools they share: Redis connections, MySQL *)
(* connections (inside MysqlDao), StatusService stubs and VarifyService    *)
(* stubs.  Taking from a pool waits until it is not empty; a pool that     *)
(* lends exclusively (ConnectionPool) is represented by a count.           *)
(*                                                                         *)
(* Redis, MySQL and the two RPC services are external.  An action runs     *)
(* from one wait or remote call to the next.                               *)
(***************************************************************************)
EXTENDS MysqlDao, StubVector, FiniteSets

CONSTANTS
  Workers,
  Codes,        \* verification codes
  NoCode,       \* Redis has no code for the email, or it has expired
  Kinds,        \* the requests clients send
  RedisConns,   \* connections the Redis pool starts with
  MysqlSize,    \* ... the MySQL pool
  StubSize,     \* ... the StatusService stub pool
  VarifySize,   \* ... the VarifyService stub pool
  MaxRequests   \* bound on the requests served

KnownKinds ==
  {"get_varify_code", "user_register", "user_login",
   "get_varify_code_forget_passwd", "submit_forget_passwd", "get_user_icon"}

ASSUME LogicalSystemAssumption ==
  /\ IsFiniteSet(Workers)
  /\ NoCode \notin Codes
  /\ Kinds \subseteq KnownKinds
  /\ {RedisConns, MysqlSize, VarifySize, MaxRequests} \subseteq Nat
  /\ StubSize \in Nat \ {0}

VARIABLES
  users,        \* the account table: the password of each email, or NoUser
  codes,        \* the code Redis holds for each email, or NoCode
  redisIdle,    \* connections in the Redis pool
  mysqlIdle,    \* ... in the MySQL pool
  stubIdle,     \* stubs in the StatusService pool
  varify,       \* the vector of VarifyService stubs
  pc,           \* what each worker waits for or has called
  call,         \* the MysqlDao operation it is about to make
  req,          \* the request it serves
  body,         \* the error codes written to the response, in order
  effect,       \* what the request has really found and brought about
  holds,        \* "redis" and "stub": what the handler has borrowed
  started,      \* requests begun
  crashed       \* the process is gone

pools == <<redisIdle, mysqlIdle, stubIdle, varify>>
vars == <<users, codes, pools, pc, call, req, body, effect, holds, started, crashed>>

Stub == "stub"     \* an element of varify that holds one

NoRequest ==
  [kind |-> "none", email |-> NoUser, uid |-> NoUser, passwd |-> NoUser,
   code |-> NoCode, is_email |-> TRUE]

\* The requests clients send, with the fields their handler reads.
Requests ==
  LET Of(kinds, passwds, presented, byEmail) ==
        [kind : Kinds \cap kinds, email : Emails, uid : Emails, passwd : passwds,
         code : presented, is_email : byEmail]
      Own(requests) == {r \in requests : r.uid = r.email}
  IN  Own(Of({"get_varify_code"}, {NoUser}, {NoCode}, {TRUE}))
      \cup Of({"get_varify_code_forget_passwd"}, {NoUser}, {NoCode}, {TRUE})
      \cup Own(Of({"user_register"}, Passwds, Codes, {TRUE}))
      \cup Of({"submit_forget_passwd"}, Passwds, Codes, {TRUE})
      \cup Of({"user_login"}, Passwds, {NoCode}, BOOLEAN)
      \cup Own(Of({"get_user_icon"}, {NoUser}, {NoCode}, BOOLEAN))

Init ==
  /\ users \in [Emails -> Passwds \cup {NoUser}]
  /\ codes \in [Emails -> Codes \cup {NoCode}]
  /\ redisIdle = RedisConns
  /\ mysqlIdle = MysqlSize
  /\ stubIdle = StubSize
  /\ varify = [i \in 1 .. VarifySize |-> Stub]
  /\ pc = [w \in Workers |-> "idle"]
  /\ call = [w \in Workers |-> "none"]
  /\ req = [w \in Workers |-> NoRequest]
  /\ body = [w \in Workers |-> <<>>]
  /\ effect = [w \in Workers |-> "none"]
  /\ holds = [w \in Workers |-> {}]
  /\ started = 0
  /\ crashed = FALSE

-----------------------------------------------------------------------------
\* How a handler goes on

Resting == {"idle", "answered", "aborted"}

Goto(w, label) == pc' = [pc EXCEPT ![w] = label]

\* Write one JSON object per code to the response and return.
Answer(w, written) ==
  /\ body' = [body EXCEPT ![w] = written]
  /\ Goto(w, "answered")

\* Wait for a MySQL connection to make this MysqlDao call.
Query(w, operation) ==
  /\ call' = [call EXCEPT ![w] = operation]
  /\ Goto(w, "mysql")

\* The MysqlDao operation the handler is in, and what it leaves behind.
Runs(w, operation) == pc[w] = "query" /\ call[w] = operation

\* Faulty variants, named Bug..., stand before the definitions they would
\* replace: each breaks one of the properties below.

Returned(outcome) ==
  /\ users' = outcome.users
  /\ mysqlIdle' = mysqlIdle + outcome.releases

Brought(w, what) == effect' = [effect EXCEPT ![w] = what]

Borrow(w, what) == holds' = [holds EXCEPT ![w] = @ \cup {what}]

\* Give up what the handler has borrowed, times of them going to the pool.
GiveRedis(w, times) ==
  /\ holds' = [holds EXCEPT ![w] = {}]
  /\ redisIdle' = redisIdle + times

GiveStub(w) ==
  /\ holds' = [holds EXCEPT ![w] = {}]
  /\ stubIdle' = stubIdle + 1

\* An exception leaves the handler and HttpConnection::start catches it: no
\* answer, and what the handler had borrowed is destroyed.
Throw(w) ==
  /\ Goto(w, "aborted")
  /\ holds' = [holds EXCEPT ![w] = {}]

-----------------------------------------------------------------------------
\* Every request

FirstStep(kind) ==
  CASE kind = "get_varify_code" -> "varify"
    [] kind \in {"user_register", "submit_forget_passwd"} -> "redis"
    [] OTHER -> "mysql"

FirstQuery(r) ==
  CASE r.kind = "user_login" -> "LoginUser"
    [] r.kind = "get_varify_code_forget_passwd" -> "ExistsUser"
    [] r.kind = "get_user_icon" -> IF r.is_email THEN "Get_user_uid" ELSE "Get_user_icon"
    [] OTHER -> "none"

\* A body that is not JSON is answered at once, with an empty body by
\* get_user_icon; a field of the wrong type throws.
Start(w) ==
  /\ pc[w] \in Resting
  /\ started < MaxRequests
  /\ started' = started + 1
  /\ effect' = [effect EXCEPT ![w] = "none"]
  /\ \E r \in Requests :
       /\ req' = [req EXCEPT ![w] = r]
       /\ call' = [call EXCEPT ![w] = FirstQuery(r)]
       /\ \/ Goto(w, FirstStep(r.kind)) /\ body' = [body EXCEPT ![w] = <<>>]
          \/ Answer(w, IF r.kind = "get_user_icon" THEN <<>> ELSE <<Error_Josn>>)
          \/ Goto(w, "aborted") /\ body' = [body EXCEPT ![w] = <<>>]
  /\ UNCHANGED <<users, codes, pools, holds, crashed>>

\* MySqlPool::getConnection, inside every MysqlDao operation.
MysqlTake(w) ==
  /\ pc[w] = "mysql"
  /\ mysqlIdle > 0
  /\ mysqlIdle' = mysqlIdle - 1
  /\ Goto(w, "query")
  /\ UNCHANGED <<users, codes, redisIdle, stubIdle, varify, call, req, body, effect,
                 holds, started, crashed>>

-----------------------------------------------------------------------------
\* The verification code: get_varify_code and get_varify_code_forget_passwd

\* An emptied element is answered like a code that was sent: the response of
\* GetVarifyCode is the default one, whose error is 0.
VarifyTake(w) ==
  /\ pc[w] = "varify"
  /\ varify # <<>>
  /\ varify' = AfterTake(varify)
  /\ \/ Head(varify) = Null /\ Answer(w, <<Success>>)
     \/ Head(varify) = Stub /\ Goto(w, "varify_rpc") /\ UNCHANGED body
  /\ UNCHANGED <<users, codes, redisIdle, mysqlIdle, stubIdle, call, req, effect, holds,
                 started, crashed>>

\* The service sends a code, reports an error of its own, or the call fails,
\* whether or not a code was stored; a failed call is answered Success.
VarifyRpc(w) ==
  /\ pc[w] = "varify_rpc"
  /\ varify' = Append(varify, Stub)
  /\ LET sent == {[codes EXCEPT ![req[w].email] = c] : c \in Codes}
     IN  \/ codes' \in sent /\ Brought(w, "sent") /\ Answer(w, <<Success>>)
         \/ UNCHANGED <<codes, effect>> /\ Answer(w, <<RedisError>>)
         \/ /\ "rpc_fail" \in Faults
            /\ codes' \in sent \cup {codes}
            /\ Answer(w, <<Success>>)
            /\ UNCHANGED effect
  /\ UNCHANGED <<users, redisIdle, mysqlIdle, stubIdle, call, req, holds, started, crashed>>

ExistsQuery(w) ==
  /\ Runs(w, "ExistsUser")
  /\ \E o \in ExistsUser(users, req[w].email, req[w].uid) :
       /\ Returned(o)
       /\ \/ o.result = 0 /\ Answer(w, <<UserNotExist>>)
          \/ o.result = 1 /\ Goto(w, "varify") /\ UNCHANGED body
  /\ UNCHANGED <<codes, redisIdle, stubIdle, varify, call, req, effect, holds, started,
                 crashed>>

\* Redis drops a code when its time is up.
Expire(e) ==
  /\ codes[e] # NoCode
  /\ codes' = [codes EXCEPT ![e] = NoCode]
  /\ UNCHANGED <<users, pools, pc, call, req, body, effect, holds, started, crashed>>

-----------------------------------------------------------------------------
\* user_register and submit_forget_passwd

RedisTake(w) ==
  /\ pc[w] = "redis"
  /\ redisIdle > 0
  /\ redisIdle' = redisIdle - 1
  /\ Borrow(w, "redis")
  /\ Goto(w, "code")
  /\ UNCHANGED <<users, codes, mysqlIdle, stubIdle, varify, call, req, body, effect,
                 started, crashed>>

\* What the handler sees of the code.  An absent one is read through an empty
\* optional: an uninitialised string, which may look like anything.
Seen(r) ==
  CASE codes[r.email] = NoCode -> {"empty", "differs", "equal", "crash"}
    [] codes[r.email] = r.code -> {"equal"}
    [] OTHER -> {"differs"}

CodeFails(w) ==
  /\ "redis_throw" \in Faults
  /\ pc[w] \in {"code", "exists"}
  /\ Throw(w)
  /\ UNCHANGED <<users, codes, pools, call, req, body, effect, started, crashed>>

\* What Redis really held, whatever the handler saw.
CodeFound(r) ==
  CASE codes[r.email] = NoCode -> "code_absent"
    [] codes[r.email] = r.code -> "code_matched"
    [] OTHER -> "none"

\* The branch of a code that differs does not return.
BugCodeRead(w) ==
  /\ pc[w] = "code"
  /\ \E seen \in Seen(req[w]) :
       /\ crashed' = (seen = "crash")
       /\ \/ /\ seen \in {"equal", "differs"}
             /\ Brought(w, CodeFound(req[w]))
             /\ IF req[w].kind = "user_register"
                  THEN Goto(w, "exists") /\ UNCHANGED call
                  ELSE Query(w, "Change_Passwd")
             /\ UNCHANGED <<redisIdle, holds, body>>
          \/ /\ seen = "empty"
             /\ Answer(w, <<VarifyEXpired>>)
             /\ GiveRedis(w, 1)
             /\ UNCHANGED <<call, effect>>
          \/ seen = "crash" /\ UNCHANGED <<redisIdle, holds, body, pc, call, effect>>
  /\ UNCHANGED <<users, codes, mysqlIdle, stubIdle, varify, req, started>>

CodeRead(w) ==
  /\ pc[w] = "code"
  /\ \E seen \in Seen(req[w]) :
       /\ crashed' = (seen = "crash")
       /\ \/ /\ seen = "equal"
             /\ Brought(w, CodeFound(req[w]))
             /\ IF req[w].kind = "user_register"
                  THEN Goto(w, "exists") /\ UNCHANGED call
                  ELSE Query(w, "Change_Passwd")
             /\ UNCHANGED <<redisIdle, holds, body>>
          \/ /\ seen \in {"empty", "differs"}
             /\ Answer(w, <<IF seen = "empty" THEN VarifyEXpired ELSE VarifyError>>)
             /\ GiveRedis(w, 1)
             /\ UNCHANGED <<call, effect>>
          \/ seen = "crash" /\ UNCHANGED <<redisIdle, holds, body, pc, call, effect>>
  /\ UNCHANGED <<users, codes, mysqlIdle, stubIdle, varify, req, started>>

\* The key <email>_usr is written by other programs.
UserCached(w) ==
  /\ pc[w] = "exists"
  /\ \/ Query(w, "RegUser") /\ UNCHANGED <<body, redisIdle, holds>>
     \/ Answer(w, <<UerExist>>) /\ GiveRedis(w, 1) /\ UNCHANGED call
  /\ UNCHANGED <<users, codes, mysqlIdle, stubIdle, varify, req, effect, started, crashed>>

\* The result of MysqlDao is put in the answer as it is.
BugRegisterReply(result) == IF result > 0 THEN <<Success>> ELSE <<result>>

\* The branch of -2 does not return: a second body, and the Redis connection
\* put into the pool twice.  An error code of MysqlDao passes for a uid.
RegisterReply(result) ==
  CASE result \in {0, -1} -> <<MySqlError>>
    [] result = -2 -> <<EmailIsRegister, Success>>
    [] OTHER -> <<Success>>

RegisterQuery(w) ==
  /\ Runs(w, "RegUser")
  /\ \E o \in RegUser(users, req[w].email, req[w].passwd) :
       /\ Returned(o)
       /\ Answer(w, RegisterReply(o.result))
       /\ GiveRedis(w, Len(RegisterReply(o.result)))
       /\ Brought(w, o.effect)
  /\ UNCHANGED <<codes, stubIdle, varify, call, req, started, crashed>>

\* What is no known failure is a success.
BugSubmitReply(result) ==
  CASE result = -2 -> <<UserNotExist>>
    [] result = -1 -> <<MySqlError>>
    [] result = -3 -> <<EmailIsNotMatch>>
    [] OTHER -> <<Success>>

\* A result the handler does not expect is answered with an empty body, and
\* the Redis connection is not returned.
SubmitReply(result) ==
  CASE result = -2 -> <<UserNotExist>>
    [] result = -1 -> <<MySqlError>>
    [] result = -3 -> <<EmailIsNotMatch>>
    [] result = 1 -> <<Success>>
    [] OTHER -> <<>>

SubmitQuery(w) ==
  /\ Runs(w, "Change_Passwd")
  /\ \E o \in Change_Passwd(users, req[w].email, req[w].uid, req[w].passwd) :
       /\ Returned(o)
       /\ Answer(w, SubmitReply(o.result))
       /\ GiveRedis(w, Len(SubmitReply(o.result)))
       /\ Brought(w, o.effect)
  /\ UNCHANGED <<codes, stubIdle, varify, call, req, started, crashed>>

-----------------------------------------------------------------------------
\* user_login

\* Any other result goes on as a login: 0, a NULL, and an unspecified one too.
LoginReply(result) ==
  CASE result = MySqlError -> <<MySqlError>>
    [] result = -1 -> <<UserPasswdError>>
    [] result = -2 -> <<UserNotExist>>
    [] OTHER -> <<>>

LoginQuery(w) ==
  /\ Runs(w, "LoginUser")
  /\ \E o \in LoginUser(users, IF req[w].is_email THEN req[w].email ELSE req[w].uid,
                        req[w].passwd) :
       /\ Returned(o)
       /\ IF LoginReply(o.result) # <<>>
            THEN Answer(w, LoginReply(o.result))
            ELSE Goto(w, "stub") /\ UNCHANGED body
  /\ UNCHANGED <<codes, redisIdle, stubIdle, varify, call, req, effect, holds, started,
                 crashed>>

\* gRPCServerPool::get_stub
StubTake(w) ==
  /\ pc[w] = "stub"
  /\ stubIdle > 0
  /\ stubIdle' = stubIdle - 1
  /\ Borrow(w, "stub")
  /\ Goto(w, "chat_rpc")
  /\ UNCHANGED <<users, codes, redisIdle, mysqlIdle, varify, call, req, body, effect,
                 started, crashed>>

\* A failed RPC forgets to release its stub.
BugLosingChatRpc(w) ==
  /\ pc[w] = "chat_rpc"
  /\ \/ Query(w, "Get_user_uid") /\ UNCHANGED <<holds, body>>
     \/ /\ "rpc_fail" \in Faults
        /\ Answer(w, <<RPCFail>>)
        /\ holds' = [holds EXCEPT ![w] = {}]
        /\ UNCHANGED call
  /\ UNCHANGED <<users, codes, redisIdle, mysqlIdle, stubIdle, varify, req, effect, started,
                 crashed>>

\* The handler asks for a second stub while it holds the first.
BugGreedyChatRpc(w) ==
  /\ pc[w] = "chat_rpc"
  /\ Goto(w, "stub")
  /\ UNCHANGED <<users, codes, pools, call, req, body, effect, holds, started, crashed>>

\* GetChatServer; the stub is still held while the uid is looked up.
ChatRpc(w) ==
  /\ pc[w] = "chat_rpc"
  /\ \/ Query(w, "Get_user_uid") /\ UNCHANGED <<stubIdle, holds, body>>
     \/ /\ "rpc_fail" \in Faults
        /\ Answer(w, <<RPCFail>>)
        /\ GiveStub(w)
        /\ UNCHANGED call
  /\ UNCHANGED <<users, codes, redisIdle, mysqlIdle, varify, req, effect, started, crashed>>

\* user_login answers; get_user_icon goes on to the icon.
UidQuery(w) ==
  /\ Runs(w, "Get_user_uid")
  /\ \E o \in Get_user_uid(users) : Returned(o)
  /\ \/ /\ req[w].kind = "user_login"
        /\ Answer(w, <<Success>>)
        /\ GiveStub(w)
        /\ UNCHANGED call
     \/ /\ req[w].kind = "get_user_icon"
        /\ Query(w, "Get_user_icon")
        /\ UNCHANGED <<stubIdle, holds, body>>
  /\ UNCHANGED <<codes, redisIdle, varify, req, effect, started, crashed>>

-----------------------------------------------------------------------------
\* get_user_icon

IconQuery(w) ==
  /\ Runs(w, "Get_user_icon")
  /\ \E o \in Get_user_icon(users) :
       /\ Returned(o)
       /\ Answer(w, <<IF o.result = 1 THEN Success ELSE MySqlError>>)
  /\ UNCHANGED <<codes, redisIdle, stubIdle, varify, call, req, effect, holds, started,
                 crashed>>

-----------------------------------------------------------------------------
\* A step of a handler that has begun.
Step(w) ==
  \/ MysqlTake(w)
  \/ VarifyTake(w) \/ VarifyRpc(w) \/ ExistsQuery(w)
  \/ RedisTake(w) \/ CodeFails(w) \/ CodeRead(w) \/ UserCached(w)
  \/ RegisterQuery(w) \/ SubmitQuery(w)
  \/ LoginQuery(w) \/ StubTake(w) \/ ChatRpc(w) \/ UidQuery(w)
  \/ IconQuery(w)

Next ==
  /\ ~crashed
  /\ \/ \E w \in Workers : Start(w) \/ Step(w)
     \/ \E e \in Emails : Expire(e)

Spec == Init /\ [][Next]_vars

\* Worker threads are scheduled, and a remote call answers or fails.
FairSpec == Spec /\ \A w \in Workers : WF_vars(~crashed /\ Step(w))
-----------------------------------------------------------------------------
\* Properties

Holders(what) == {w \in Workers : what \in holds[w]}
At(label) == {w \in Workers : pc[w] = label}
Waiting(w) ==
  \/ pc[w] = "redis" /\ redisIdle = 0
  \/ pc[w] = "mysql" /\ mysqlIdle = 0
  \/ pc[w] = "stub" /\ stubIdle = 0
  \/ pc[w] = "varify" /\ varify = <<>>
Reported(w) == body[w][Len(body[w])]     \* the last code of the response
AnsweredSuccess(w) == pc[w] = "answered" /\ body[w] # <<>> /\ Reported(w) = Success

\* Every variable stays in its type.
TypeOK ==
  /\ users \in [Emails -> Passwds \cup {NoUser}]
  /\ codes \in [Emails -> Codes \cup {NoCode}]
  /\ redisIdle \in Nat /\ mysqlIdle \in Nat /\ stubIdle \in Nat
  /\ varify \in Seq({Stub, Null})
  /\ pc \in [Workers -> Resting \cup {"redis", "code", "exists", "mysql", "query", "stub",
                                      "chat_rpc", "varify", "varify_rpc"}]
  /\ call \in [Workers -> {"none", "RegUser", "LoginUser", "ExistsUser", "Change_Passwd",
                           "Get_user_icon", "Get_user_uid"}]
  /\ req \in [Workers -> Requests \cup {NoRequest}]
  /\ body \in [Workers -> Seq(ErrorCodes)]
  /\ effect \in [Workers -> {"none", "sent", "code_matched", "code_absent", "registered",
                             "email_taken", "reset"}]
  /\ holds \in [Workers -> SUBSET {"redis", "stub"}]
  /\ started \in 0 .. MaxRequests
  /\ crashed \in BOOLEAN

\* No path of user_login, whatever fails, loses a StatusService stub or
\* returns one twice: Redis and MySQL connections have no such guarantee.
StubConservation == stubIdle + Cardinality(Holders("stub")) = StubSize

\* No path of a MysqlDao operation releases its connection twice.
MysqlNotInflated == mysqlIdle + Cardinality(At("query")) <= MysqlSize

\* A pool of which nothing is left, neither idle nor lent: handlers have lost
\* it for good.
PoolLost ==
  \/ mysqlIdle = 0 /\ At("query") = {}
  \/ redisIdle = 0 /\ Holders("redis") = {}
  \/ varify = <<>> /\ At("varify_rpc") = {}

\* Handlers never deadlock by holding one pool's connection while they wait
\* for another's: when every busy worker waits, a pool has been lost.
WaitsOnlyOnLost ==
  LET busy == {w \in Workers : pc[w] \notin Resting}
  IN  busy # {} /\ (\A w \in busy : Waiting(w)) => PoolLost

\* An account changes only by the query of a registration or a reset, only
\* the account of the email it names, only to the password it asks for, and
\* only when the code of the request was equal to the one Redis held for that
\* email (LogicalSystem.cpp:409), or when Redis held none: the handlers read
\* an absent code through an empty optional and may take it for any.
CodeGuardsAccounts ==
  [][users' # users =>
       \E w \in Workers :
         /\ Runs(w, "RegUser") \/ Runs(w, "Change_Passwd")
         /\ effect[w] \in {"code_matched", "code_absent"}
         /\ users' = [users EXCEPT ![req[w].email] = req[w].passwd]]_vars

\* A reset answered Success has left the account with the password asked for,
\* and one answered with an error code has changed no account.  An empty body
\* tells the client neither: it may hide a changed password.
ResetHonest ==
  [][\A w \in Workers : Runs(w, "Change_Passwd") /\ pc'[w] = "answered" =>
       /\ AnsweredSuccess(w)' => users'[req[w].email] = req[w].passwd
       /\ body'[w] # <<>> /\ ~AnsweredSuccess(w)' => users' = users]_vars

\* Every request that was begun ends, whatever fails, until a pool is lost.
EveryRequestEnds ==
  \A w \in Workers : pc[w] \notin Resting ~> pc[w] \in Resting \/ crashed \/ PoolLost

\* const.h:33 names a code for a failed RPC: a client told Success was sent a
\* verification code (GetVarifyCode and its two handlers).
RpcFailureReported ==
  \A w \in Workers : AnsweredSuccess(w) /\ req[w].kind = "get_varify_code" =>
    effect[w] = "sent"

\* const.h:39 names a code for a registered email: registering it again is
\* not answered Success.
EmailTakenReported ==
  \A w \in Workers : pc[w] = "answered" /\ effect[w] = "email_taken" => ~AnsweredSuccess(w)

\* MySqlDao.h:164 releases the connection on the path of a user that does not
\* exist: with no faults every MySQL connection is idle or in use.
MysqlConserved == mysqlIdle + Cardinality(At("query")) = MysqlSize

=============================================================================
