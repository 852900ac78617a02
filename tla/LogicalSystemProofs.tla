------------------------ MODULE LogicalSystemProofs ------------------------
(***************************************************************************)
(* Proofs about LogicalSystem, for any workers, accounts, pool sizes,      *)
(* failures and number of requests.                                        *)
(*                                                                         *)
(* What a handler has borrowed (HoldInv), for which kind of request it may *)
(* be where it is (RouteInv) and that it has checked the code before it    *)
(* writes an account (EffectInv) follow its label: the counts of the pools *)
(* and what may change an account rest on these.                           *)
(***************************************************************************)
EXTENDS LogicalSystem, FiniteSetTheorems, SequenceTheorems, TLAPS

\* In a MysqlDao operation, or waiting for its connection.
Asks(w, operation) == pc[w] \in {"mysql", "query"} /\ call[w] = operation

\* The labels and operations each kind of request passes through.
RouteInv == \A w \in Workers :
  /\ pc[w] \in {"redis", "code"} => req[w].kind \in {"user_register", "submit_forget_passwd"}
  /\ pc[w] = "exists" => req[w].kind = "user_register"
  /\ pc[w] \in {"stub", "chat_rpc"} => req[w].kind = "user_login"
  /\ pc[w] \in {"varify", "varify_rpc"} =>
       req[w].kind \in {"get_varify_code", "get_varify_code_forget_passwd"}
  /\ ~Asks(w, "none")
  /\ Asks(w, "RegUser") => req[w].kind = "user_register"
  /\ Asks(w, "Change_Passwd") => req[w].kind = "submit_forget_passwd"
  /\ Asks(w, "LoginUser") => req[w].kind = "user_login"
  /\ Asks(w, "ExistsUser") => req[w].kind = "get_varify_code_forget_passwd"
  /\ Asks(w, "Get_user_uid") => req[w].kind \in {"user_login", "get_user_icon"}
  /\ Asks(w, "Get_user_icon") => req[w].kind = "get_user_icon"

\* A Redis connection is held from the pool to the answer, a stub from the RPC
\* to the answer.
HoldInv == \A w \in Workers :
  /\ "redis" \in holds[w] <=>
       (pc[w] \in {"code", "exists"} \/ Asks(w, "RegUser") \/ Asks(w, "Change_Passwd"))
  /\ "stub" \in holds[w] <=>
       (pc[w] = "chat_rpc" \/ (Asks(w, "Get_user_uid") /\ req[w].kind = "user_login"))

\* Who may write an account has compared the code of its request with the one
\* Redis held, or found none there.
Checked == {"code_matched", "code_absent"}
Writes(w) == pc[w] = "exists" \/ Asks(w, "RegUser") \/ Asks(w, "Change_Passwd")
EffectInv == \A w \in Workers : Writes(w) => effect[w] \in Checked

IInv ==
  /\ TypeOK
  /\ RouteInv
  /\ HoldInv
  /\ EffectInv
  /\ StubConservation
  /\ MysqlNotInflated

-----------------------------------------------------------------------------
\* Requests and outcomes

Accounts == [Emails -> Passwds \cup {NoUser}]

LEMMA RequestKinds ==
  /\ NoRequest.kind = "none"
  /\ \A r \in Requests : r.kind \in KnownKinds
BY LogicalSystemAssumption DEF Requests, NoRequest

\* The fields a handler reads are those of its kind of request.
LEMMA RequestFields ==
  ASSUME NEW r \in Requests
  PROVE  /\ r.email \in Emails /\ r.uid \in Emails /\ r.is_email \in BOOLEAN
         /\ r.kind \in {"user_register", "submit_forget_passwd"} => r.passwd \in Passwds
BY DEF Requests

\* Every query releases its connection once or not at all; of those that write
\* an account, each writes the one it is asked to write, or none.
LEMMA RegUserOutcomes ==
  ASSUME NEW accounts \in Accounts, NEW email \in Emails, NEW pwd \in Passwds,
         NEW o \in RegUser(accounts, email, pwd)
  PROVE  /\ o.users \in {accounts, [accounts EXCEPT ![email] = pwd]} /\ o.users \in Accounts
         /\ o.releases \in {0, 1}
         /\ o.effect \in {"email_taken", "registered", "none"}
<1> DEFINE Written == {accounts, [accounts EXCEPT ![email] = pwd]}
<1>1. Written \subseteq Accounts
  BY DEF Accounts
<1>2. \E r \in {-2, -1, 0, 1, MySqlError, RPCFail}, n \in {0, 1}, u \in Written,
         e \in {"email_taken", "registered", "none"} : o = Outcome(r, n, u, e)
  BY DEF RegUser, Fault
<1>3. /\ o.users \in Written
      /\ o.releases \in {0, 1}
      /\ o.effect \in {"email_taken", "registered", "none"}
  BY <1>2 DEF Outcome
<1> QED
  BY <1>1, <1>3

LEMMA LoginUserOutcomes ==
  ASSUME NEW accounts, NEW account, NEW pwd, NEW o \in LoginUser(accounts, account, pwd)
  PROVE  o.users = accounts /\ o.releases \in {0, 1}
<1>1. \E r \in {-1, -2, 0, 1, MySqlError} \cup Unspecified, n \in {0, 1} :
        o = Outcome(r, n, accounts, "none")
  BY DEF LoginUser, Fault
<1> QED
  BY <1>1 DEF Outcome

LEMMA ExistsUserOutcomes ==
  ASSUME NEW accounts, NEW email, NEW uid, NEW o \in ExistsUser(accounts, email, uid)
  PROVE  o.users = accounts /\ o.releases \in {0, 1}
<1>1. \E r \in {0, 1}, n \in {0, 1} : o = Outcome(r, n, accounts, "none")
  BY DEF ExistsUser, Fault
<1> QED
  BY <1>1 DEF Outcome

\* Only a reset returns 1, and none that returns another code of its own (-1,
\* -2 or -3) has written an account.
LEMMA ChangePasswdOutcomes ==
  ASSUME NEW accounts \in Accounts, NEW email \in Emails, NEW uid, NEW pwd \in Passwds,
         NEW o \in Change_Passwd(accounts, email, uid, pwd)
  PROVE  /\ o.users \in {accounts, [accounts EXCEPT ![email] = pwd]} /\ o.users \in Accounts
         /\ o.releases \in {0, 1}
         /\ o.effect \in {"reset", "none"}
         /\ o.result = 1 => o.users[email] = pwd
         /\ o.result \in {-1, -2, -3} => o.users = accounts
<1> DEFINE after == [accounts EXCEPT ![email] = pwd]
           Written == {accounts, after}
<1>1. Written \subseteq Accounts /\ after[email] = pwd
  BY DEF Accounts
<1>2. \/ \E e \in {"reset", "none"} : o = Outcome(1, 1, after, e)
      \/ \E r \in {0, -1, -2, -3}, e \in {"reset", "none"} : o = Outcome(r, 1, accounts, e)
      \/ \E r \in {MySqlError, RPCFail}, n \in {0, 1}, u \in Written, e \in {"reset", "none"} :
           o = Outcome(r, n, u, e)
  BY DEF Change_Passwd, Fault
<1>3. /\ o.users \in Written
      /\ o.releases \in {0, 1}
      /\ o.effect \in {"reset", "none"}
  BY <1>2 DEF Outcome
<1>4. \/ o.result = 1 /\ o.users = after
      \/ o.result \in {0, -1, -2, -3} /\ o.users = accounts
      \/ o.result \in {MySqlError, RPCFail}
  BY <1>2 DEF Outcome
<1>5. o.result = 1 => o.users[email] = pwd
  <2>1. o.result = 1 => o.users = after
    BY <1>4 DEF MySqlError, RPCFail
  <2> QED
    BY <1>1, <2>1
<1>6. o.result \in {-1, -2, -3} => o.users = accounts
  BY <1>4 DEF MySqlError, RPCFail
<1> QED
  BY <1>1, <1>3, <1>5, <1>6

LEMMA IconAndUidOutcomes ==
  ASSUME NEW accounts, NEW o, o \in Get_user_icon(accounts) \/ o \in Get_user_uid(accounts)
  PROVE  o.users = accounts /\ o.releases \in {0, 1}
<1>1. \E r \in {0, 1}, n \in {0, 1} : o = Outcome(r, n, accounts, "none")
  BY DEF Get_user_icon, Get_user_uid, Fault
<1> QED
  BY <1>1 DEF Outcome

\* The replies of the handlers are lists of error codes.
LEMMA Replies ==
  ASSUME NEW result
  PROVE  /\ RegisterReply(result) \in Seq(ErrorCodes) /\ Len(RegisterReply(result)) \in Nat
         /\ SubmitReply(result) \in Seq(ErrorCodes) /\ Len(SubmitReply(result)) \in Nat
         /\ LoginReply(result) \in Seq(ErrorCodes)
         /\ \A c \in ErrorCodes : <<c>> \in Seq(ErrorCodes)
         /\ <<>> \in Seq(ErrorCodes)
<1>1. /\ {Success, MySqlError, EmailIsRegister, UserNotExist, EmailIsNotMatch,
         UserPasswdError} \subseteq ErrorCodes
  BY DEF ErrorCodes, Success, Error_Josn, MySqlError, EmailIsRegister, UserNotExist,
         EmailIsNotMatch, UserPasswdError
<1>2. <<>> \in Seq(ErrorCodes) /\ \A c \in ErrorCodes : <<c>> \in Seq(ErrorCodes)
  OBVIOUS
<1>3. <<EmailIsRegister, Success>> \in Seq(ErrorCodes)
  BY <1>1
<1>4. RegisterReply(result) \in {<<MySqlError>>, <<EmailIsRegister, Success>>, <<Success>>}
  BY DEF RegisterReply
<1>5. SubmitReply(result) \in {<<UserNotExist>>, <<MySqlError>>, <<EmailIsNotMatch>>,
                               <<Success>>, <<>>}
  BY DEF SubmitReply
<1>6. LoginReply(result) \in {<<MySqlError>>, <<UserPasswdError>>, <<UserNotExist>>, <<>>}
  BY DEF LoginReply
<1>7. RegisterReply(result) \in Seq(ErrorCodes)
  BY <1>1, <1>2, <1>3, <1>4
<1>8. SubmitReply(result) \in Seq(ErrorCodes)
  BY <1>1, <1>2, <1>5
<1>9. LoginReply(result) \in Seq(ErrorCodes)
  BY <1>1, <1>2, <1>6
<1> QED
  BY <1>2, <1>7, <1>8, <1>9, LenProperties

\* An operation ends: the accounts are those of its outcome, and the connection
\* may have gone back.
LEMMA ReturnedTypes ==
  ASSUME NEW o, o.users \in Accounts, o.releases \in {0, 1}, mysqlIdle \in Nat, Returned(o)
  PROVE  users' \in Accounts /\ mysqlIdle' \in {mysqlIdle, mysqlIdle + 1} /\ mysqlIdle' \in Nat
BY DEF Returned

LEMMA AfterTakeInSeq ==
  ASSUME NEW S, NEW v \in Seq(S), v # <<>>, Null \in S
  PROVE  AfterTake(v) \in Seq(S)
<1>1. Len(v) - 1 \in Nat /\ \A i \in 1 .. Len(v) : v[i] \in S
  BY EmptySeq, LenProperties, ElementOfSeq
<1>2. AfterTake(v) \in [1 .. Len(v) - 1 -> S]
  BY <1>1 DEF AfterTake
<1> QED
  BY <1>1, <1>2, IsASeq

\* A response is a list of error codes, and a handler that answers with one
\* code goes to rest.
LEMMA AnswerTypes ==
  ASSUME TypeOK, NEW w \in Workers, NEW c \in ErrorCodes, Answer(w, <<c>>)
  PROVE  body' \in [Workers -> Seq(ErrorCodes)] /\ pc' = [pc EXCEPT ![w] = "answered"]
<1>1. <<c>> \in Seq(ErrorCodes)
  OBVIOUS
<1> QED
  BY <1>1 DEF Answer, Goto, TypeOK

\* A handler at work serves a request of its clients.
LEMMA Serving ==
  ASSUME IInv, NEW w \in Workers, pc[w] \notin Resting
  PROVE  /\ req[w] \in Requests /\ users \in Accounts
         /\ req[w].email \in Emails /\ req[w].uid \in Emails /\ req[w].is_email \in BOOLEAN
         /\ req[w].kind \in {"user_register", "submit_forget_passwd"} =>
              req[w].passwd \in Passwds
<1>1. req[w] \in Requests \cup {NoRequest} /\ users \in Accounts
  BY DEF IInv, TypeOK, Accounts
<1>2. req[w].kind # "none"
  BY DEF IInv, TypeOK, RouteInv, Asks, Resting
<1>3. req[w] \in Requests
  BY <1>1, <1>2, RequestKinds
<1> QED
  BY <1>1, <1>3, RequestFields

-----------------------------------------------------------------------------
\* The inductive invariant

LEMMA InitIInv == Init => IInv
<1> SUFFICES ASSUME Init PROVE IInv
  OBVIOUS
<1> USE LogicalSystemAssumption DEF Init
<1>1. varify \in Seq({Stub, Null})
  <2>1. varify \in [1 .. VarifySize -> {Stub, Null}] /\ VarifySize \in Nat
    OBVIOUS
  <2> QED
    BY <2>1, IsASeq
<1>2. TypeOK
  <2>1. body \in [Workers -> Seq(ErrorCodes)]
    BY Replies
  <2>2. /\ redisIdle \in Nat /\ mysqlIdle \in Nat /\ stubIdle \in Nat
        /\ started \in 0 .. MaxRequests
    OBVIOUS
  <2>3. crashed \in BOOLEAN
    OBVIOUS
  <2> QED
    BY <1>1, <2>1, <2>2, <2>3 DEF TypeOK, Resting
<1>3. RouteInv /\ HoldInv /\ EffectInv
  BY DEF RouteInv, HoldInv, EffectInv, Writes, Asks, NoRequest
<1>4. Holders("stub") = {} /\ At("query") = {}
  BY DEF Holders, At
<1>5. Cardinality({}) = 0
  BY FS_EmptySet
<1>6. StubConservation /\ MysqlNotInflated
  <2>1. Cardinality(Holders("stub")) = 0 /\ Cardinality(At("query")) = 0
    BY <1>4, <1>5
  <2>2. /\ stubIdle \in Nat /\ stubIdle + 0 = StubSize
        /\ mysqlIdle \in Nat /\ mysqlIdle + 0 <= MysqlSize
    OBVIOUS
  <2> QED
    BY <2>1, <2>2 DEF StubConservation, MysqlNotInflated
<1> QED
  BY <1>2, <1>3, <1>6 DEF IInv

LEMMA TypeStep == IInv /\ [Next]_vars => TypeOK'
<1> SUFFICES ASSUME IInv, [Next]_vars PROVE TypeOK'
  OBVIOUS
<1> USE DEF TypeOK, Resting, Goto, pools
<1>1. TypeOK
  BY DEF IInv
<1>0. /\ {Success, Error_Josn, MySqlError, RPCFail, UserNotExist, RedisError, VarifyEXpired,
         VarifyError, UerExist} \subseteq ErrorCodes
      /\ <<>> \in Seq(ErrorCodes) /\ <<Error_Josn>> \in Seq(ErrorCodes)
  BY Replies DEF ErrorCodes, Success, Error_Josn, MySqlError, RPCFail, UserNotExist, RedisError,
                 VarifyEXpired, VarifyError, UerExist, EmailIsNotMatch
<1>2. ASSUME NEW w \in Workers, Start(w) PROVE TypeOK'
  <2>1. PICK r \in Requests :
          /\ req' = [req EXCEPT ![w] = r] /\ call' = [call EXCEPT ![w] = FirstQuery(r)]
          /\ \/ Goto(w, FirstStep(r.kind)) /\ body' = [body EXCEPT ![w] = <<>>]
             \/ Answer(w, IF r.kind = "get_user_icon" THEN <<>> ELSE <<Error_Josn>>)
             \/ Goto(w, "aborted") /\ body' = [body EXCEPT ![w] = <<>>]
    BY <1>2 DEF Start
  <2>2. body' \in [Workers -> Seq(ErrorCodes)]
    <3>1. (IF r.kind = "get_user_icon" THEN <<>> ELSE <<Error_Josn>>) \in Seq(ErrorCodes)
      BY <1>0
    <3> QED
      BY <1>0, <1>1, <2>1, <3>1 DEF Answer
  <2>3. req' \in [Workers -> Requests \cup {NoRequest}]
    BY <1>1, <2>1
  <2>4. FirstStep(r.kind) \in {"varify", "redis", "mysql"}
    BY DEF FirstStep
  <2>5. FirstQuery(r) \in {"none", "LoginUser", "ExistsUser", "Get_user_uid", "Get_user_icon"}
    BY DEF FirstQuery
  <2>6. call' \in [Workers -> {"none", "RegUser", "LoginUser", "ExistsUser",
                              "Change_Passwd", "Get_user_icon", "Get_user_uid"}]
    BY <1>1, <2>1, <2>5
  <2>7. \E l \in {"varify", "redis", "mysql", "answered", "aborted"} : Goto(w, l)
    BY <2>1, <2>4 DEF Answer
  <2>8. pc' \in [Workers -> Resting \cup {"redis", "code", "exists", "mysql", "query",
                                         "stub", "chat_rpc", "varify", "varify_rpc"}]
    BY <1>1, <2>7
  <2>9. started' \in 0 .. MaxRequests
    BY <1>1, <1>2, LogicalSystemAssumption DEF Start
  <2> QED
    BY <1>1, <1>2, <2>2, <2>3, <2>6, <2>8, <2>9 DEF Start
<1>3. ASSUME NEW w \in Workers, MysqlTake(w) PROVE TypeOK'
  BY <1>1, <1>3 DEF MysqlTake
<1>4. ASSUME NEW w \in Workers, VarifyTake(w) PROVE TypeOK'
  <2>1. varify' \in Seq({Stub, Null})
    BY <1>1, <1>4, AfterTakeInSeq DEF VarifyTake
  <2>2. CASE Answer(w, <<Success>>)
    <3>1. body' \in [Workers -> Seq(ErrorCodes)] /\ pc' = [pc EXCEPT ![w] = "answered"]
      BY <1>0, <1>1, <2>2, AnswerTypes
    <3> QED
      BY <1>1, <1>4, <2>1, <3>1 DEF VarifyTake
  <2>3. CASE Goto(w, "varify_rpc") /\ UNCHANGED body
    BY <1>1, <1>4, <2>1, <2>3 DEF VarifyTake
  <2> QED
    BY <1>4, <2>2, <2>3 DEF VarifyTake
<1>5. ASSUME NEW w \in Workers, VarifyRpc(w) PROVE TypeOK'
  <2>1. varify' \in Seq({Stub, Null})
    BY <1>1, <1>5, AppendProperties DEF VarifyRpc
  <2>2. codes' \in [Emails -> Codes \cup {NoCode}]
    BY <1>1, <1>5, Serving DEF VarifyRpc
  <2>3. \E c \in {Success, RedisError} : Answer(w, <<c>>)
    BY <1>5 DEF VarifyRpc
  <2>4. body' \in [Workers -> Seq(ErrorCodes)] /\ pc' = [pc EXCEPT ![w] = "answered"]
    BY <1>0, <1>1, <2>3, AnswerTypes
  <2>5. effect' \in [Workers -> {"none", "sent", "code_matched", "code_absent", "registered",
                                "email_taken", "reset"}]
    BY <1>1, <1>5 DEF VarifyRpc, Brought
  <2> QED
    BY <1>1, <1>5, <2>1, <2>2, <2>4, <2>5 DEF VarifyRpc
<1>6. ASSUME NEW w \in Workers, ExistsQuery(w) PROVE TypeOK'
  <2>1. PICK o \in ExistsUser(users, req[w].email, req[w].uid) :
          /\ Returned(o)
          /\ Answer(w, <<UserNotExist>>) \/ (Goto(w, "varify") /\ UNCHANGED body)
    BY <1>6 DEF ExistsQuery
  <2>2. users' \in Accounts /\ mysqlIdle' \in Nat
    <3>1. o.users = users /\ o.releases \in {0, 1}
      BY <2>1, ExistsUserOutcomes
    <3>2. users \in Accounts /\ mysqlIdle \in Nat
      BY <1>1 DEF Accounts
    <3> QED
      BY <2>1, <3>1, <3>2, ReturnedTypes
  <2>3. CASE Answer(w, <<UserNotExist>>)
    <3>1. body' \in [Workers -> Seq(ErrorCodes)] /\ pc' = [pc EXCEPT ![w] = "answered"]
      BY <1>0, <1>1, <2>3, AnswerTypes
    <3> QED
      BY <1>1, <1>6, <2>2, <3>1 DEF ExistsQuery, Accounts
  <2>4. CASE Goto(w, "varify") /\ UNCHANGED body
    BY <1>1, <1>6, <2>2, <2>4 DEF ExistsQuery, Accounts
  <2> QED
    BY <2>1, <2>3, <2>4
<1>7. ASSUME NEW w \in Workers, RedisTake(w) PROVE TypeOK'
  BY <1>1, <1>7 DEF RedisTake, Borrow
<1>8. ASSUME NEW w \in Workers, CodeFails(w) PROVE TypeOK'
  BY <1>1, <1>8 DEF CodeFails, Throw
<1>9. ASSUME NEW w \in Workers, CodeRead(w) PROVE TypeOK'
  <2>1. crashed' \in BOOLEAN
    BY <1>9 DEF CodeRead
  <2>2. CASE UNCHANGED <<redisIdle, holds, body, pc, call, effect>>
    BY <1>1, <1>9, <2>1, <2>2 DEF CodeRead
  <2>3. CASE \E c \in {VarifyEXpired, VarifyError} :
               Answer(w, <<c>>) /\ GiveRedis(w, 1) /\ UNCHANGED <<call, effect>>
    <3>1. body' \in [Workers -> Seq(ErrorCodes)] /\ pc' = [pc EXCEPT ![w] = "answered"]
      BY <1>0, <1>1, <2>3, AnswerTypes
    <3> QED
      BY <1>1, <1>9, <2>1, <2>3, <3>1 DEF CodeRead, GiveRedis
  <2>4. CASE /\ (Goto(w, "exists") /\ UNCHANGED call) \/ Query(w, "Change_Passwd")
             /\ Brought(w, CodeFound(req[w]))
             /\ UNCHANGED <<redisIdle, holds, body>>
    <3>1. CodeFound(req[w]) \in {"code_absent", "code_matched", "none"}
      BY DEF CodeFound
    <3>2. effect' \in [Workers -> {"none", "sent", "code_matched", "code_absent", "registered",
                                  "email_taken", "reset"}]
      BY <1>1, <2>4, <3>1 DEF Brought
    <3> QED
      BY <1>1, <1>9, <2>1, <2>4, <3>2 DEF CodeRead, Query
  <2> QED
    BY <1>9, <2>2, <2>3, <2>4 DEF CodeRead
<1>10. ASSUME NEW w \in Workers, UserCached(w) PROVE TypeOK'
  <2>1. CASE Answer(w, <<UerExist>>) /\ GiveRedis(w, 1) /\ UNCHANGED call
    <3>1. body' \in [Workers -> Seq(ErrorCodes)] /\ pc' = [pc EXCEPT ![w] = "answered"]
      BY <1>0, <1>1, <2>1, AnswerTypes
    <3> QED
      BY <1>1, <1>10, <2>1, <3>1 DEF UserCached, GiveRedis
  <2>2. CASE Query(w, "RegUser") /\ UNCHANGED <<body, redisIdle, holds>>
    BY <1>1, <1>10, <2>2 DEF UserCached, Query
  <2> QED
    BY <1>10, <2>1, <2>2 DEF UserCached
<1>11. ASSUME NEW w \in Workers, RegisterQuery(w) PROVE TypeOK'
  <2>1. PICK o \in RegUser(users, req[w].email, req[w].passwd) :
          /\ Returned(o) /\ Answer(w, RegisterReply(o.result))
          /\ GiveRedis(w, Len(RegisterReply(o.result))) /\ Brought(w, o.effect)
    BY <1>11 DEF RegisterQuery
  <2>2. pc[w] = "query" /\ req[w].kind = "user_register"
    BY <1>11 DEF RegisterQuery, Runs, IInv, RouteInv, Asks
  <2>3. /\ o.users \in Accounts /\ o.releases \in {0, 1}
        /\ o.effect \in {"email_taken", "registered", "none"}
    BY <2>2, Serving, RegUserOutcomes
  <2>4. users' \in Accounts /\ mysqlIdle' \in Nat
    BY <1>1, <2>1, <2>3, ReturnedTypes
  <2> QED
    BY <1>1, <1>11, <2>1, <2>3, <2>4, Replies
    DEF RegisterQuery, Answer, GiveRedis, Brought, Accounts
<1>12. ASSUME NEW w \in Workers, SubmitQuery(w) PROVE TypeOK'
  <2>1. PICK o \in Change_Passwd(users, req[w].email, req[w].uid, req[w].passwd) :
          /\ Returned(o) /\ Answer(w, SubmitReply(o.result))
          /\ GiveRedis(w, Len(SubmitReply(o.result))) /\ Brought(w, o.effect)
    BY <1>12 DEF SubmitQuery
  <2>2. pc[w] = "query" /\ req[w].kind = "submit_forget_passwd"
    BY <1>12 DEF SubmitQuery, Runs, IInv, RouteInv, Asks
  <2>3. o.users \in Accounts /\ o.releases \in {0, 1} /\ o.effect \in {"reset", "none"}
    BY <2>2, Serving, ChangePasswdOutcomes
  <2>4. users' \in Accounts /\ mysqlIdle' \in Nat
    BY <1>1, <2>1, <2>3, ReturnedTypes
  <2> QED
    BY <1>1, <1>12, <2>1, <2>3, <2>4, Replies
    DEF SubmitQuery, Answer, GiveRedis, Brought, Accounts
<1>13. ASSUME NEW w \in Workers, LoginQuery(w) PROVE TypeOK'
  <2> DEFINE account == IF req[w].is_email THEN req[w].email ELSE req[w].uid
  <2>1. PICK o \in LoginUser(users, account, req[w].passwd) :
          /\ Returned(o)
          /\ Answer(w, LoginReply(o.result)) \/ (Goto(w, "stub") /\ UNCHANGED body)
    BY <1>13 DEF LoginQuery
  <2>2. account \in Emails /\ users \in Accounts
    BY <1>13, Serving DEF LoginQuery, Runs
  <2>3. o.users \in Accounts /\ o.releases \in {0, 1}
    BY <2>2, LoginUserOutcomes
  <2>4. users' \in Accounts /\ mysqlIdle' \in Nat
    BY <1>1, <2>1, <2>3, ReturnedTypes
  <2>5. /\ body' \in [Workers -> Seq(ErrorCodes)]
        /\ pc' \in {[pc EXCEPT ![w] = "answered"], [pc EXCEPT ![w] = "stub"]}
    <3>1. LoginReply(o.result) \in Seq(ErrorCodes)
      BY Replies
    <3> QED
      BY <1>1, <2>1, <3>1 DEF Answer
  <2> QED
    BY <1>1, <1>13, <2>4, <2>5 DEF LoginQuery, Accounts
<1>14. ASSUME NEW w \in Workers, StubTake(w) PROVE TypeOK'
  BY <1>1, <1>14 DEF StubTake, Borrow
<1>15. ASSUME NEW w \in Workers, ChatRpc(w) PROVE TypeOK'
  <2>1. CASE Answer(w, <<RPCFail>>) /\ GiveStub(w) /\ UNCHANGED call
    <3>1. body' \in [Workers -> Seq(ErrorCodes)] /\ pc' = [pc EXCEPT ![w] = "answered"]
      BY <1>0, <1>1, <2>1, AnswerTypes
    <3> QED
      BY <1>1, <1>15, <2>1, <3>1 DEF ChatRpc, GiveStub
  <2>2. CASE Query(w, "Get_user_uid") /\ UNCHANGED <<stubIdle, holds, body>>
    BY <1>1, <1>15, <2>2 DEF ChatRpc, Query
  <2> QED
    BY <1>15, <2>1, <2>2 DEF ChatRpc
<1>16. ASSUME NEW w \in Workers, UidQuery(w) PROVE TypeOK'
  <2>1. users' \in Accounts /\ mysqlIdle' \in Nat
    <3>1. PICK o \in Get_user_uid(users) : Returned(o)
      BY <1>16 DEF UidQuery
    <3>2. o.users = users /\ o.releases \in {0, 1}
      BY IconAndUidOutcomes
    <3>3. users \in Accounts /\ mysqlIdle \in Nat
      BY <1>1 DEF Accounts
    <3> QED
      BY <3>1, <3>2, <3>3, ReturnedTypes
  <2>2. CASE Answer(w, <<Success>>) /\ GiveStub(w) /\ UNCHANGED call
    <3>1. body' \in [Workers -> Seq(ErrorCodes)] /\ pc' = [pc EXCEPT ![w] = "answered"]
      BY <1>0, <1>1, <2>2, AnswerTypes
    <3> QED
      BY <1>1, <1>16, <2>1, <2>2, <3>1 DEF UidQuery, GiveStub, Accounts
  <2>3. CASE Query(w, "Get_user_icon") /\ UNCHANGED <<stubIdle, holds, body>>
    BY <1>1, <1>16, <2>1, <2>3 DEF UidQuery, Query, Accounts
  <2> QED
    BY <1>16, <2>2, <2>3 DEF UidQuery
<1>17. ASSUME NEW w \in Workers, IconQuery(w) PROVE TypeOK'
  <2>1. users' \in Accounts /\ mysqlIdle' \in Nat
    <3>1. PICK o \in Get_user_icon(users) : Returned(o)
      BY <1>17 DEF IconQuery
    <3>2. o.users = users /\ o.releases \in {0, 1}
      BY IconAndUidOutcomes
    <3>3. users \in Accounts /\ mysqlIdle \in Nat
      BY <1>1 DEF Accounts
    <3> QED
      BY <3>1, <3>2, <3>3, ReturnedTypes
  <2>2. \E c \in {Success, MySqlError} : Answer(w, <<c>>)
    BY <1>17 DEF IconQuery
  <2> QED
    BY <1>0, <1>1, <1>17, <2>1, <2>2 DEF IconQuery, Answer, Accounts
<1>18. ASSUME NEW e \in Emails, Expire(e) PROVE TypeOK'
  BY <1>1, <1>18 DEF Expire
<1>19. CASE UNCHANGED vars
  BY <1>1, <1>19 DEF vars
<1> QED
  BY <1>2, <1>3, <1>4, <1>5, <1>6, <1>7, <1>8, <1>9, <1>10, <1>11, <1>12, <1>13, <1>14, <1>15,
     <1>16, <1>17, <1>18, <1>19 DEF Next, Step

\* Where a handler may be, and what it holds there, follow from the order of
\* its steps.
LEMMA ControlStep == IInv /\ [Next]_vars => RouteInv' /\ HoldInv'
<1> DEFINE Control == RouteInv /\ HoldInv
<1> SUFFICES ASSUME IInv, [Next]_vars PROVE Control'
  OBVIOUS
<1> USE DEF RouteInv, HoldInv, Asks, Goto, Answer, Resting
<1>1. Control
  BY DEF IInv
<1>2. /\ DOMAIN pc = Workers /\ DOMAIN call = Workers /\ DOMAIN req = Workers
      /\ holds \in [Workers -> SUBSET {"redis", "stub"}]
  BY DEF IInv, TypeOK
<1>3. ASSUME NEW w \in Workers, Start(w) PROVE Control'
  <2>1. PICK r \in Requests :
          /\ req' = [req EXCEPT ![w] = r] /\ call' = [call EXCEPT ![w] = FirstQuery(r)]
          /\ \/ pc' = [pc EXCEPT ![w] = FirstStep(r.kind)]
             \/ \E rest \in {"answered", "aborted"} : pc' = [pc EXCEPT ![w] = rest]
    BY <1>3 DEF Start
  <2>2. r.kind \in KnownKinds
    BY RequestKinds
  <2>3. pc[w] \in Resting /\ holds' = holds
    BY <1>3 DEF Start
  <2> QED
    BY <1>1, <1>2, <2>1, <2>2, <2>3 DEF FirstStep, FirstQuery, KnownKinds
<1>4. ASSUME NEW w \in Workers, MysqlTake(w) PROVE Control'
  BY <1>1, <1>2, <1>4 DEF MysqlTake
<1>5. ASSUME NEW w \in Workers, VarifyTake(w) PROVE Control'
  BY <1>1, <1>2, <1>5 DEF VarifyTake
<1>6. ASSUME NEW w \in Workers, VarifyRpc(w) PROVE Control'
  <2>1. pc' = [pc EXCEPT ![w] = "answered"]
    BY <1>6 DEF VarifyRpc
  <2> QED
    BY <1>1, <1>2, <1>6, <2>1 DEF VarifyRpc
<1>7. ASSUME NEW w \in Workers, ExistsQuery(w) PROVE Control'
  <2>1. \E next \in {"answered", "varify"} : pc' = [pc EXCEPT ![w] = next]
    BY <1>7 DEF ExistsQuery
  <2> QED
    BY <1>1, <1>2, <1>7, <2>1 DEF ExistsQuery, Runs
<1>8. ASSUME NEW w \in Workers, RedisTake(w) PROVE Control'
  BY <1>1, <1>2, <1>8 DEF RedisTake, Borrow
<1>9. ASSUME NEW w \in Workers, CodeFails(w) PROVE Control'
  BY <1>1, <1>2, <1>9 DEF CodeFails, Throw
<1>10. ASSUME NEW w \in Workers, CodeRead(w) PROVE Control'
  <2>1. \/ /\ req[w].kind = "user_register" /\ pc' = [pc EXCEPT ![w] = "exists"]
           /\ UNCHANGED <<call, holds>>
        \/ req[w].kind # "user_register" /\ Query(w, "Change_Passwd") /\ UNCHANGED holds
        \/ /\ pc' = [pc EXCEPT ![w] = "answered"] /\ holds' = [holds EXCEPT ![w] = {}]
           /\ UNCHANGED call
        \/ UNCHANGED <<pc, call, holds>>
    BY <1>10 DEF CodeRead, GiveRedis
  <2> QED
    BY <1>1, <1>2, <1>10, <2>1 DEF CodeRead, Query
<1>11. ASSUME NEW w \in Workers, UserCached(w) PROVE Control'
  BY <1>1, <1>2, <1>11 DEF UserCached, Query, GiveRedis
<1>12. ASSUME NEW w \in Workers, RegisterQuery(w) \/ SubmitQuery(w) PROVE Control'
  <2>1. /\ pc' = [pc EXCEPT ![w] = "answered"] /\ holds' = [holds EXCEPT ![w] = {}]
        /\ UNCHANGED <<call, req>>
    BY <1>12 DEF RegisterQuery, SubmitQuery, GiveRedis
  <2> QED
    BY <1>1, <1>2, <2>1
<1>13. ASSUME NEW w \in Workers, LoginQuery(w) PROVE Control'
  <2>1. \E next \in {"answered", "stub"} : pc' = [pc EXCEPT ![w] = next]
    BY <1>13 DEF LoginQuery
  <2> QED
    BY <1>1, <1>2, <1>13, <2>1 DEF LoginQuery, Runs
<1>14. ASSUME NEW w \in Workers, StubTake(w) PROVE Control'
  BY <1>1, <1>2, <1>14 DEF StubTake, Borrow
<1>15. ASSUME NEW w \in Workers, ChatRpc(w) PROVE Control'
  BY <1>1, <1>2, <1>15 DEF ChatRpc, Query, GiveStub
<1>16. ASSUME NEW w \in Workers, UidQuery(w) PROVE Control'
  BY <1>1, <1>2, <1>16 DEF UidQuery, Runs, Query, GiveStub
<1>17. ASSUME NEW w \in Workers, IconQuery(w) PROVE Control'
  <2>1. pc' = [pc EXCEPT ![w] = "answered"]
    BY <1>17 DEF IconQuery
  <2> QED
    BY <1>1, <1>2, <1>17, <2>1 DEF IconQuery, Runs
<1>18. ASSUME NEW e \in Emails, Expire(e) PROVE Control'
  BY <1>1, <1>18 DEF Expire
<1>19. CASE UNCHANGED vars
  BY <1>1, <1>19 DEF vars
<1> QED
  BY <1>3, <1>4, <1>5, <1>6, <1>7, <1>8, <1>9, <1>10, <1>11, <1>12, <1>13, <1>14, <1>15,
     <1>16, <1>17, <1>18, <1>19 DEF Next, Step

\* A step of a worker leaves the others alone.
LEMMA OthersKeep ==
  ASSUME IInv, NEW w \in Workers, Start(w) \/ Step(w), NEW v \in Workers, v # w
  PROVE  /\ pc'[v] = pc[v] /\ call'[v] = call[v] /\ req'[v] = req[v]
         /\ body'[v] = body[v] /\ effect'[v] = effect[v] /\ holds'[v] = holds[v]
<1> USE DEF Goto, Answer, Query, Brought, Borrow, GiveRedis, GiveStub, Throw
<1>1. /\ DOMAIN pc = Workers /\ DOMAIN call = Workers /\ DOMAIN req = Workers
      /\ DOMAIN body = Workers /\ DOMAIN effect = Workers /\ DOMAIN holds = Workers
  BY DEF IInv, TypeOK
<1>2. CASE Start(w)
  BY <1>1, <1>2 DEF Start
<1>3. CASE MysqlTake(w) \/ VarifyTake(w) \/ VarifyRpc(w) \/ ExistsQuery(w)
  BY <1>1, <1>3 DEF MysqlTake, VarifyTake, VarifyRpc, ExistsQuery
<1>4. CASE RedisTake(w) \/ CodeFails(w) \/ CodeRead(w) \/ UserCached(w)
  BY <1>1, <1>4 DEF RedisTake, CodeFails, CodeRead, UserCached
<1>5. CASE RegisterQuery(w) \/ SubmitQuery(w) \/ LoginQuery(w)
  BY <1>1, <1>5 DEF RegisterQuery, SubmitQuery, LoginQuery
<1>6. CASE StubTake(w) \/ ChatRpc(w) \/ UidQuery(w) \/ IconQuery(w)
  BY <1>1, <1>6 DEF StubTake, ChatRpc, UidQuery, IconQuery
<1> QED
  BY <1>2, <1>3, <1>4, <1>5, <1>6 DEF Step

\* An answer of one code tells success exactly when that is the code.
LEMMA OneCode ==
  ASSUME IInv, NEW w \in Workers, NEW c, Answer(w, <<c>>)
  PROVE  pc'[w] = "answered" /\ (AnsweredSuccess(w)' <=> c = Success)
<1>1. pc'[w] = "answered" /\ body'[w] = <<c>>
  BY DEF Answer, Goto, IInv, TypeOK
<1>2. <<c>> # <<>> /\ <<c>>[Len(<<c>>)] = c
  OBVIOUS
<1> QED
  BY <1>1, <1>2 DEF AnsweredSuccess, Reported

\* A handler comes to write an account only from the check of its code, and
\* keeps what it found until it has written.
LEMMA EffectStep == IInv /\ [Next]_vars => EffectInv'
<1> SUFFICES ASSUME IInv, [Next]_vars PROVE EffectInv'
  OBVIOUS
<1> USE DEF Writes, Asks
<1>1. /\ \A v \in Workers : Writes(v) => effect[v] \in Checked
      /\ DOMAIN pc = Workers /\ DOMAIN call = Workers /\ DOMAIN effect = Workers
  BY DEF IInv, EffectInv, TypeOK
<1>2. ASSUME NEW v \in Workers, pc'[v] = pc[v], call'[v] = call[v], effect'[v] = effect[v]
      PROVE  Writes(v)' => effect'[v] \in Checked
  BY <1>1, <1>2
<1>3. ASSUME NEW w \in Workers, Start(w) \/ Step(w),
             Writes(w)' => effect'[w] \in Checked
      PROVE  EffectInv'
  BY <1>2, <1>3, OthersKeep DEF EffectInv
<1>4. ASSUME NEW w \in Workers, Start(w) PROVE Writes(w)' => effect'[w] \in Checked
  <2>1. PICK r \in Requests :
          /\ call' = [call EXCEPT ![w] = FirstQuery(r)]
          /\ \/ pc' = [pc EXCEPT ![w] = FirstStep(r.kind)]
             \/ \E rest \in {"answered", "aborted"} : pc' = [pc EXCEPT ![w] = rest]
    BY <1>4 DEF Start, Goto, Answer
  <2>2. FirstQuery(r) \notin {"RegUser", "Change_Passwd"} /\ FirstStep(r.kind) # "exists"
    BY DEF FirstQuery, FirstStep
  <2> QED
    BY <1>1, <2>1, <2>2
<1>5. ASSUME NEW w \in Workers, CodeRead(w) PROVE Writes(w)' => effect'[w] \in Checked
  <2>1. PICK seen \in Seen(req[w]) :
          \/ /\ seen = "equal" /\ Brought(w, CodeFound(req[w]))
          \/ Answer(w, <<IF seen = "empty" THEN VarifyEXpired ELSE VarifyError>>)
          \/ UNCHANGED <<pc, call, effect>>
    BY <1>5 DEF CodeRead
  <2>2. CASE seen = "equal" /\ Brought(w, CodeFound(req[w]))
    <3>1. CodeFound(req[w]) \in Checked
      BY <2>1, <2>2 DEF Seen, CodeFound, Checked
    <3> QED
      BY <1>1, <2>2, <3>1 DEF Brought
  <2>3. CASE Answer(w, <<IF seen = "empty" THEN VarifyEXpired ELSE VarifyError>>)
    BY <1>1, <2>3 DEF Answer, Goto
  <2>4. CASE UNCHANGED <<pc, call, effect>>
    BY <1>2, <2>4
  <2> QED
    BY <2>1, <2>2, <2>3, <2>4
<1>6. ASSUME NEW w \in Workers, MysqlTake(w) \/ UserCached(w)
      PROVE  Writes(w)' => effect'[w] \in Checked
  BY <1>1, <1>6 DEF MysqlTake, UserCached, Goto, Answer, Query
<1>7. ASSUME NEW w \in Workers,
             \/ VarifyTake(w) \/ VarifyRpc(w) \/ ExistsQuery(w)
             \/ RedisTake(w) \/ CodeFails(w) \/ RegisterQuery(w) \/ SubmitQuery(w)
             \/ LoginQuery(w) \/ StubTake(w) \/ ChatRpc(w) \/ UidQuery(w) \/ IconQuery(w)
      PROVE  ~Writes(w)'
  <2>1. \/ \E next \in {"answered", "aborted", "varify", "varify_rpc", "code", "stub", "chat_rpc"} :
             pc' = [pc EXCEPT ![w] = next]
        \/ \E operation \in {"Get_user_uid", "Get_user_icon"} :
             pc' = [pc EXCEPT ![w] = "mysql"] /\ call' = [call EXCEPT ![w] = operation]
    BY <1>7
    DEF VarifyTake, VarifyRpc, ExistsQuery, RedisTake, CodeFails, RegisterQuery, SubmitQuery,
        LoginQuery, StubTake, ChatRpc, UidQuery, IconQuery, Goto, Answer, Query, Throw
  <2> QED
    BY <1>1, <2>1
<1>8. ASSUME NEW e \in Emails, Expire(e) PROVE EffectInv'
  BY <1>2, <1>8 DEF Expire, EffectInv
<1>9. CASE UNCHANGED vars
  BY <1>2, <1>9 DEF vars, EffectInv
<1> QED
  BY <1>3, <1>4, <1>5, <1>6, <1>7, <1>8, <1>9 DEF Next, Step

-----------------------------------------------------------------------------
\* The counts of the pools

\* Only get_stub lends a stub, and only a login that holds one gives it back.
LEMMA StubStep == IInv /\ [Next]_vars => StubConservation'
<1> SUFFICES ASSUME IInv, [Next]_vars PROVE StubConservation'
  OBVIOUS
<1> DEFINE out == Holders("stub")
<1>1. /\ IsFiniteSet(out) /\ Cardinality(out) \in Nat /\ stubIdle \in Nat /\ StubSize \in Nat
      /\ stubIdle + Cardinality(out) = StubSize
      /\ DOMAIN holds = Workers
  BY FS_Subset, FS_CardinalityType, LogicalSystemAssumption
  DEF IInv, TypeOK, StubConservation, Holders
<1>2. ASSUME stubIdle' = stubIdle, \A v \in Workers : "stub" \in holds'[v] <=> "stub" \in holds[v]
      PROVE  StubConservation'
  <2>1. out' = out
    BY <1>2 DEF Holders
  <2> QED
    BY <1>1, <1>2, <2>1 DEF StubConservation
<1>3. ASSUME NEW w \in Workers, StubTake(w) PROVE StubConservation'
  <2>1. "stub" \notin holds[w] /\ holds' = [holds EXCEPT ![w] = @ \cup {"stub"}]
        /\ stubIdle' = stubIdle - 1
    BY <1>3 DEF StubTake, Borrow, IInv, HoldInv, Asks
  <2>2. out' = out \cup {w} /\ w \notin out
    BY <1>1, <2>1 DEF Holders
  <2>3. Cardinality(out') = Cardinality(out) + 1
    BY <1>1, <2>2, FS_AddElement
  <2> QED
    BY <1>1, <2>1, <2>3 DEF StubConservation
<1>4. ASSUME NEW w \in Workers, "stub" \in holds[w], GiveStub(w) PROVE StubConservation'
  <2>1. out' = out \ {w} /\ w \in out
    BY <1>1, <1>4 DEF Holders, GiveStub
  <2>2. Cardinality(out') = Cardinality(out) - 1
    BY <1>1, <2>1, FS_RemoveElement
  <2> QED
    BY <1>1, <1>4, <2>2 DEF StubConservation, GiveStub
<1>5. ASSUME NEW w \in Workers, ChatRpc(w) \/ UidQuery(w) PROVE StubConservation'
  <2>1. CASE GiveStub(w) /\ (pc[w] = "chat_rpc" \/ req[w].kind = "user_login")
    <3>1. "stub" \in holds[w]
      BY <1>5, <2>1 DEF ChatRpc, UidQuery, Runs, IInv, HoldInv, Asks
    <3> QED
      BY <1>4, <2>1, <3>1
  <2>2. CASE UNCHANGED <<stubIdle, holds>>
    BY <1>2, <2>2
  <2> QED
    BY <1>5, <2>1, <2>2 DEF ChatRpc, UidQuery
<1>6. ASSUME NEW w \in Workers, RedisTake(w) PROVE StubConservation'
  BY <1>1, <1>2, <1>6 DEF RedisTake, Borrow
<1>7. ASSUME NEW w \in Workers,
             CodeFails(w) \/ CodeRead(w) \/ UserCached(w) \/ RegisterQuery(w) \/ SubmitQuery(w)
      PROVE  StubConservation'
  <2>1. "stub" \notin holds[w]
    BY <1>7 DEF CodeFails, CodeRead, UserCached, RegisterQuery, SubmitQuery, Runs, IInv, HoldInv,
                Asks
  <2>2. stubIdle' = stubIdle /\ (holds' = holds \/ holds' = [holds EXCEPT ![w] = {}])
    BY <1>7 DEF CodeFails, CodeRead, UserCached, RegisterQuery, SubmitQuery, Throw, GiveRedis,
                pools
  <2> QED
    BY <1>1, <1>2, <2>1, <2>2
<1>8. ASSUME NEW w \in Workers,
             \/ Start(w) \/ MysqlTake(w) \/ VarifyTake(w) \/ VarifyRpc(w)
             \/ ExistsQuery(w) \/ LoginQuery(w) \/ IconQuery(w)
      PROVE  StubConservation'
  BY <1>2, <1>8
  DEF Start, MysqlTake, VarifyTake, VarifyRpc, ExistsQuery, LoginQuery, IconQuery, pools
<1>9. ASSUME NEW e \in Emails, Expire(e) PROVE StubConservation'
  BY <1>2, <1>9 DEF Expire, pools
<1>10. CASE UNCHANGED vars
  BY <1>2, <1>10 DEF vars, pools
<1> QED
  BY <1>3, <1>5, <1>6, <1>7, <1>8, <1>9, <1>10 DEF Next, Step

\* Whatever a query returns, it has released its connection at most once.
LEMMA ReleasesOnce ==
  ASSUME IInv, NEW w \in Workers,
         \/ ExistsQuery(w) \/ RegisterQuery(w) \/ SubmitQuery(w) \/ LoginQuery(w)
         \/ UidQuery(w) \/ IconQuery(w)
  PROVE  \E o : o.releases \in {0, 1} /\ Returned(o)
<1>1. ASSUME RegisterQuery(w) PROVE \E o : o.releases \in {0, 1} /\ Returned(o)
  <2>1. pc[w] = "query" /\ req[w].kind = "user_register"
    BY <1>1 DEF RegisterQuery, Runs, IInv, RouteInv, Asks
  <2>2. users \in Accounts /\ req[w].email \in Emails /\ req[w].passwd \in Passwds
    BY <2>1, Serving DEF Resting
  <2> QED
    BY <1>1, <2>2, RegUserOutcomes DEF RegisterQuery
<1>2. ASSUME SubmitQuery(w) PROVE \E o : o.releases \in {0, 1} /\ Returned(o)
  <2>1. pc[w] = "query" /\ req[w].kind = "submit_forget_passwd"
    BY <1>2 DEF SubmitQuery, Runs, IInv, RouteInv, Asks
  <2>2. users \in Accounts /\ req[w].email \in Emails /\ req[w].passwd \in Passwds
    BY <2>1, Serving DEF Resting
  <2> QED
    BY <1>2, <2>2, ChangePasswdOutcomes DEF SubmitQuery
<1>3. ASSUME LoginQuery(w) PROVE \E o : o.releases \in {0, 1} /\ Returned(o)
  BY <1>3, LoginUserOutcomes DEF LoginQuery
<1>4. ASSUME ExistsQuery(w) PROVE \E o : o.releases \in {0, 1} /\ Returned(o)
  BY <1>4, ExistsUserOutcomes DEF ExistsQuery
<1>5. ASSUME UidQuery(w) \/ IconQuery(w) PROVE \E o : o.releases \in {0, 1} /\ Returned(o)
  <2>1. CASE UidQuery(w)
    BY <2>1, IconAndUidOutcomes DEF UidQuery
  <2>2. CASE IconQuery(w)
    BY <2>2, IconAndUidOutcomes DEF IconQuery
  <2> QED
    BY <1>5, <2>1, <2>2
<1> QED
  BY <1>1, <1>2, <1>3, <1>4, <1>5

\* A query takes one connection out and puts at most one back.
LEMMA MysqlStep == IInv /\ [Next]_vars => MysqlNotInflated'
<1> SUFFICES ASSUME IInv, [Next]_vars PROVE MysqlNotInflated'
  OBVIOUS
<1> DEFINE busy == At("query")
<1>1. /\ IsFiniteSet(busy) /\ Cardinality(busy) \in Nat /\ mysqlIdle \in Nat
      /\ MysqlSize \in Nat /\ mysqlIdle + Cardinality(busy) <= MysqlSize
      /\ DOMAIN pc = Workers
  BY FS_Subset, FS_CardinalityType, LogicalSystemAssumption
  DEF IInv, TypeOK, MysqlNotInflated, At
<1>2. ASSUME mysqlIdle' = mysqlIdle, \A v \in Workers : pc'[v] = "query" <=> pc[v] = "query"
      PROVE  MysqlNotInflated'
  <2>1. busy' = busy
    BY <1>2 DEF At
  <2> QED
    BY <1>1, <1>2, <2>1 DEF MysqlNotInflated
<1>3. ASSUME NEW w \in Workers, MysqlTake(w) PROVE MysqlNotInflated'
  <2>1. busy' = busy \cup {w} /\ w \notin busy
    BY <1>1, <1>3 DEF MysqlTake, Goto, At
  <2>2. Cardinality(busy') = Cardinality(busy) + 1
    BY <1>1, <2>1, FS_AddElement
  <2> QED
    BY <1>1, <1>3, <2>2 DEF MysqlNotInflated, MysqlTake
<1>4. ASSUME NEW w \in Workers, pc[w] = "query",
             \E next \in {"answered", "varify", "stub", "mysql"} : pc' = [pc EXCEPT ![w] = next],
             \E o : o.releases \in {0, 1} /\ Returned(o)
      PROVE  MysqlNotInflated'
  <2>1. busy' = busy \ {w} /\ w \in busy
    BY <1>1, <1>4 DEF At
  <2>2. Cardinality(busy') = Cardinality(busy) - 1
    BY <1>1, <2>1, FS_RemoveElement
  <2>3. mysqlIdle' \in {mysqlIdle, mysqlIdle + 1}
    BY <1>1, <1>4 DEF Returned
  <2> QED
    BY <1>1, <2>2, <2>3 DEF MysqlNotInflated
<1>5. ASSUME NEW w \in Workers,
             \/ ExistsQuery(w) \/ RegisterQuery(w) \/ SubmitQuery(w) \/ LoginQuery(w)
             \/ UidQuery(w) \/ IconQuery(w)
      PROVE  MysqlNotInflated'
  <2>1. pc[w] = "query"
    BY <1>5 DEF ExistsQuery, RegisterQuery, SubmitQuery, LoginQuery, UidQuery, IconQuery, Runs
  <2>2. \E next \in {"answered", "varify", "stub", "mysql"} : pc' = [pc EXCEPT ![w] = next]
    BY <1>5 DEF ExistsQuery, RegisterQuery, SubmitQuery, LoginQuery, UidQuery, IconQuery, Answer,
                Goto, Query
  <2>3. \E o : o.releases \in {0, 1} /\ Returned(o)
    BY <1>5, ReleasesOnce
  <2> QED
    BY <1>4, <2>1, <2>2, <2>3
<1>6. ASSUME NEW w \in Workers,
             \/ Start(w) \/ VarifyTake(w) \/ VarifyRpc(w) \/ RedisTake(w) \/ CodeFails(w)
             \/ CodeRead(w) \/ UserCached(w) \/ StubTake(w) \/ ChatRpc(w)
      PROVE  MysqlNotInflated'
  <2>1. mysqlIdle' = mysqlIdle /\ pc[w] # "query"
    BY <1>6 DEF Start, VarifyTake, VarifyRpc, RedisTake, CodeFails, CodeRead, UserCached,
                StubTake, ChatRpc, pools, Resting
  <2>2. ASSUME Start(w) PROVE pc'[w] # "query"
    <3>1. PICK r \in Requests : pc' \in {[pc EXCEPT ![w] = FirstStep(r.kind)],
                                       [pc EXCEPT ![w] = "answered"],
                                       [pc EXCEPT ![w] = "aborted"]}
      BY <2>2 DEF Start, Goto, Answer
    <3>2. FirstStep(r.kind) # "query"
      BY DEF FirstStep
    <3> QED
      BY <1>1, <3>1, <3>2
  <2>3. pc'[w] # "query"
    BY <1>1, <1>6, <2>2
    DEF VarifyTake, VarifyRpc, RedisTake, CodeFails, CodeRead, UserCached, StubTake,
        ChatRpc, Goto, Answer, Throw, Query
  <2>4. \A v \in Workers : v # w => pc'[v] = pc[v]
    BY <1>6, OthersKeep DEF Step
  <2> QED
    BY <1>2, <2>1, <2>3, <2>4
<1>7. ASSUME NEW e \in Emails, Expire(e) PROVE MysqlNotInflated'
  BY <1>2, <1>7 DEF Expire, pools
<1>8. CASE UNCHANGED vars
  BY <1>2, <1>8 DEF vars, pools
<1> QED
  BY <1>3, <1>5, <1>6, <1>7, <1>8 DEF Next, Step

-----------------------------------------------------------------------------
\* IInv holds in every reachable state of the handlers.
THEOREM Inductive == Spec => []IInv
<1>1. IInv /\ [Next]_vars => IInv'
  BY TypeStep, ControlStep, EffectStep, StubStep, MysqlStep DEF IInv
<1> QED
  BY InitIInv, <1>1, PTL DEF Spec

\* The variables keep their types.
THEOREM TypeCorrect == Spec => []TypeOK
BY Inductive, PTL DEF IInv

\* An account changes only by a request that names its email, to the password
\* it asks for, and only once the code of the request was found equal to the
\* one Redis held (or Redis held none).
THEOREM CodesGuardAccounts == Spec => CodeGuardsAccounts
<1> DEFINE Guarded ==
      \E w \in Workers :
        /\ Runs(w, "RegUser") \/ Runs(w, "Change_Passwd")
        /\ effect[w] \in {"code_matched", "code_absent"}
        /\ users' = [users EXCEPT ![req[w].email] = req[w].passwd]
<1>1. IInv /\ [Next]_vars => [users' # users => Guarded]_vars
  <2> SUFFICES ASSUME IInv, Next, users' # users PROVE Guarded
    BY DEF vars
  <2>1. PICK w \in Workers :
          \/ ExistsQuery(w) \/ RegisterQuery(w) \/ SubmitQuery(w) \/ LoginQuery(w)
          \/ UidQuery(w) \/ IconQuery(w)
    BY DEF Next, Step, Start, MysqlTake, VarifyTake, VarifyRpc, RedisTake, CodeFails, CodeRead,
           UserCached, StubTake, ChatRpc, Expire
  <2>2. CASE ExistsQuery(w) \/ LoginQuery(w) \/ UidQuery(w) \/ IconQuery(w)
    <3>1. CASE ExistsQuery(w)
      BY <3>1, ExistsUserOutcomes DEF ExistsQuery, Returned
    <3>2. CASE LoginQuery(w)
      BY <3>2, LoginUserOutcomes DEF LoginQuery, Returned
    <3>3. CASE UidQuery(w)
      BY <3>3, IconAndUidOutcomes DEF UidQuery, Returned
    <3>4. CASE IconQuery(w)
      BY <3>4, IconAndUidOutcomes DEF IconQuery, Returned
    <3> QED
      BY <2>2, <3>1, <3>2, <3>3, <3>4
  <2>3. CASE RegisterQuery(w) \/ SubmitQuery(w)
    <3>1. Runs(w, "RegUser") \/ Runs(w, "Change_Passwd")
      BY <2>3 DEF RegisterQuery, SubmitQuery
    <3>2. effect[w] \in {"code_matched", "code_absent"}
      BY <3>1 DEF IInv, EffectInv, Writes, Asks, Runs, Checked
    <3>3. /\ users \in Accounts /\ req[w].email \in Emails /\ req[w].passwd \in Passwds
      BY <3>1, Serving DEF IInv, RouteInv, Asks, Runs, Resting
    <3>4. users' = [users EXCEPT ![req[w].email] = req[w].passwd]
      BY <2>3, <3>3, RegUserOutcomes, ChangePasswdOutcomes
      DEF RegisterQuery, SubmitQuery, Returned
    <3> QED
      BY <3>1, <3>2, <3>4
  <2> QED
    BY <2>1, <2>2, <2>3
<1> QED
  BY Inductive, <1>1, PTL DEF Spec, CodeGuardsAccounts

\* A reset answered Success has changed the password to the one asked for, and
\* one answered with an error code has changed no account.
THEOREM ResetsAreHonest == Spec => ResetHonest
<1> DEFINE Honest == \A w \in Workers : Runs(w, "Change_Passwd") /\ pc'[w] = "answered" =>
      /\ AnsweredSuccess(w)' => users'[req[w].email] = req[w].passwd
      /\ body'[w] # <<>> /\ ~AnsweredSuccess(w)' => users' = users
<1>1. IInv /\ [Next]_vars => [Honest]_vars
  <2> SUFFICES ASSUME IInv, Next, NEW w \in Workers, Runs(w, "Change_Passwd"),
                      pc'[w] = "answered"
               PROVE  /\ AnsweredSuccess(w)' => users'[req[w].email] = req[w].passwd
                      /\ body'[w] # <<>> /\ ~AnsweredSuccess(w)' => users' = users
    OBVIOUS
  <2>1. pc[w] = "query" /\ call[w] = "Change_Passwd" /\ req[w].kind = "submit_forget_passwd"
    BY DEF IInv, RouteInv, Asks, Runs
  <2>2. SubmitQuery(w)
    <3>1. PICK v \in Workers : Start(v) \/ Step(v)
      BY <2>1 DEF Next, Expire
    <3>2. v = w
      BY <2>1, <3>1, OthersKeep
    <3> QED
      BY <2>1, <3>1, <3>2
      DEF Step, Start, Resting, MysqlTake, VarifyTake, VarifyRpc, ExistsQuery, RedisTake,
          CodeFails, CodeRead, UserCached, RegisterQuery, LoginQuery, StubTake, ChatRpc,
          UidQuery, IconQuery, Runs
  <2>3. PICK o \in Change_Passwd(users, req[w].email, req[w].uid, req[w].passwd) :
          users' = o.users /\ Answer(w, SubmitReply(o.result))
    BY <2>2 DEF SubmitQuery, Returned
  <2>4. users \in Accounts /\ req[w].email \in Emails /\ req[w].passwd \in Passwds
    BY <2>1, Serving DEF Resting
  <2>5. /\ o.result = 1 => o.users[req[w].email] = req[w].passwd
        /\ o.result \in {-1, -2, -3} => o.users = users
    BY <2>4, ChangePasswdOutcomes
  <2>6. CASE o.result = 1
    <3>1. SubmitReply(o.result) = <<Success>>
      BY <2>6 DEF SubmitReply
    <3>2. AnsweredSuccess(w)'
      BY <2>3, <3>1, OneCode
    <3> QED
      BY <2>3, <2>5, <2>6, <3>2
  <2>7. CASE o.result \in {-1, -2, -3}
    <3>1. \E c \in {UserNotExist, MySqlError, EmailIsNotMatch} : SubmitReply(o.result) = <<c>>
      BY <2>7 DEF SubmitReply
    <3>2. ~AnsweredSuccess(w)'
      BY <2>3, <3>1, OneCode DEF UserNotExist, MySqlError, EmailIsNotMatch, Success
    <3> QED
      BY <2>3, <2>5, <2>7, <3>2
  <2>8. CASE o.result \notin {1, -1, -2, -3}
    <3>1. SubmitReply(o.result) = <<>>
      BY <2>8 DEF SubmitReply
    <3>2. body'[w] = <<>>
      BY <2>3, <3>1 DEF Answer, IInv, TypeOK
    <3> QED
      BY <3>2 DEF AnsweredSuccess
  <2> QED
    BY <2>6, <2>7, <2>8
<1> QED
  BY Inductive, <1>1, PTL DEF Spec, ResetHonest

\* No failure costs the StatusService pool a stub or gives it one twice.
THEOREM StubsConserved == Spec => []StubConservation
BY Inductive, PTL DEF IInv

\* Whatever its queries meet, no operation of MysqlDao releases a connection
\* twice: the pool never holds more than it started with.
THEOREM MysqlBounded == Spec => []MysqlNotInflated
BY Inductive, PTL DEF IInv

\* Workers that all wait have lost a pool: who holds a stub or a Redis
\* connection while it waits, waits for MySQL, and who holds a MySQL
\* connection waits for nothing.
THEOREM NoDeadlock == Spec => []WaitsOnlyOnLost
<1>1. IInv => WaitsOnlyOnLost
  <2> SUFFICES ASSUME IInv, NEW w \in Workers, pc[w] \notin Resting,
                      \A v \in Workers : pc[v] \notin Resting => Waiting(v)
               PROVE  PoolLost
    BY DEF WaitsOnlyOnLost
  <2> USE DEF Resting, Waiting
  <2>1. At("query") = {} /\ At("varify_rpc") = {}
    BY DEF At
  <2>2. ASSUME NEW v \in Workers, pc[v] = "mysql" PROVE PoolLost
    BY <2>1, <2>2 DEF PoolLost
  <2>3. ASSUME NEW v \in Workers, holds[v] # {} PROVE PoolLost
    <3>1. "redis" \in holds[v] \/ "stub" \in holds[v]
      BY <2>3 DEF IInv, TypeOK
    <3>2. pc[v] \in {"code", "exists", "chat_rpc", "mysql", "query"}
      BY <3>1 DEF IInv, HoldInv, Asks
    <3> QED
      BY <2>2, <3>2
  <2>4. CASE pc[w] = "redis" /\ redisIdle = 0
    BY <2>3, <2>4 DEF PoolLost, Holders
  <2>5. CASE pc[w] = "stub" /\ stubIdle = 0
    <3>1. Holders("stub") # {}
      <4>1. Cardinality({}) = 0
        BY FS_EmptySet
      <4>2. 0 + 0 # StubSize /\ stubIdle + Cardinality(Holders("stub")) = StubSize
        BY LogicalSystemAssumption DEF IInv, StubConservation
      <4> QED
        BY <2>5, <4>1, <4>2
    <3> QED
      BY <2>3, <3>1 DEF Holders
  <2>6. CASE pc[w] = "varify" /\ varify = <<>>
    BY <2>1, <2>6 DEF PoolLost
  <2> QED
    BY <2>2, <2>4, <2>5, <2>6
<1> QED
  BY Inductive, <1>1, PTL
=============================================================================
