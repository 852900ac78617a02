------------------------------ MODULE MysqlDao ------------------------------
(***************************************************************************)
(* The queries of MysqlDao (includes/MySqlDao.h), each as the set of       *)
(* outcomes it may have: the value returned, how many times the connection *)
(* is released, the accounts afterwards, and what the stored procedure     *)
(* really did, which the caller may not learn ("none" for a query).        *)
(* Stored procedures and tables are external: an account is an email with  *)
(* a password, and the uid of an account is represented by its email.      *)
(*                                                                         *)
(* Falling off the end of a function returns an unspecified value: the     *)
(* build asks for no optimisation (CMakeLists.txt).                        *)
(***************************************************************************)
EXTENDS ErrorCodes

CONSTANTS
  Emails,
  Passwds,
  NoUser,     \* the password of an email without an account
  Faults      \* the failures that may occur

KnownFaults ==
  {"redis_throw", "mysql_throw", "mysql_fail", "proc_fail", "no_row", "rpc_fail"}

ASSUME MysqlDaoAssumption ==
  /\ NoUser \notin Passwds
  /\ Faults \subseteq KnownFaults

Unspecified == {-3, -2, -1, 0, 1, RPCFail, MySqlError}

Outcome(result, releases, users, effect) ==
  [result |-> result, releases |-> releases, users |-> users, effect |-> effect]

Fault(kind, outcomes) == IF kind \in Faults THEN outcomes ELSE {}

\* A positive result is the new uid.  An exception may come after the CALL.
RegUser(users, email, pwd) ==
  LET taken == users[email] # NoUser
      after == IF taken THEN users ELSE [users EXCEPT ![email] = pwd]
      done == IF taken THEN "email_taken" ELSE "registered"
  IN  {Outcome(IF taken THEN -2 ELSE 1, 1, after, done)}
      \cup Fault("proc_fail", {Outcome(r, 1, users, "none") : r \in {0, -1}})
      \cup Fault("mysql_fail", {Outcome(MySqlError, 1, users, "none")})
      \cup Fault("no_row", {Outcome(RPCFail, 1, after, done)})
      \cup Fault("mysql_throw",
                 {Outcome(RPCFail, 0, users, "none"), Outcome(RPCFail, 0, after, done)})

\* 0 is also what becomes of a result that is NULL.  Without a row neither
\* branch releases the connection or returns.
LoginUser(users, account, pwd) ==
  {Outcome(CASE users[account] = NoUser -> -2
             [] users[account] = pwd -> 1
             [] OTHER -> -1, 1, users, "none")}
  \cup Fault("proc_fail", {Outcome(r, 1, users, "none") : r \in {0, -1}})
  \cup Fault("mysql_fail", {Outcome(MySqlError, 1, users, "none")})
  \cup Fault("no_row", {Outcome(r, 0, users, "none") : r \in Unspecified})
  \cup Fault("mysql_throw", {Outcome(MySqlError, 0, users, "none")})

\* An email without an account takes the path that has no release and no return.
ExistsUser(users, email, uid) ==
  LET noRow == {Outcome(r, 0, users, "none") : r \in {0, 1}}
  IN  (IF users[email] = NoUser
         THEN noRow
         ELSE {Outcome(IF uid = email THEN 1 ELSE 0, 1, users, "none")})
      \cup Fault("mysql_fail", noRow)
      \cup Fault("mysql_throw", {Outcome(0, 0, users, "none")})

Change_Passwd(users, email, uid, pwd) ==
  LET matches == users[email] # NoUser /\ uid = email
      after == IF matches THEN [users EXCEPT ![email] = pwd] ELSE users
      done == IF matches THEN "reset" ELSE "none"
  IN  {Outcome(CASE users[email] = NoUser -> -2
                 [] matches -> 1
                 [] OTHER -> -3, 1, after, done)}
      \cup Fault("proc_fail", {Outcome(r, 1, users, "none") : r \in {0, -1}})
      \cup Fault("mysql_fail", {Outcome(MySqlError, 1, users, "none")})
      \cup Fault("no_row", {Outcome(RPCFail, 1, after, done)})
      \cup Fault("mysql_throw",
                 {Outcome(RPCFail, 0, users, "none"), Outcome(RPCFail, 0, after, done)})

\* Faulty: the branch that finds an icon releases, and so does the end.
BugGet_user_icon(users) ==
  {Outcome(0, 1, users, "none"), Outcome(1, 2, users, "none")}
  \cup Fault("mysql_throw", {Outcome(0, 0, users, "none")})

\* 1 for an icon, 0 for none or an empty one.
Get_user_icon(users) ==
  {Outcome(r, 1, users, "none") : r \in {0, 1}}
  \cup Fault("mysql_throw", {Outcome(0, 0, users, "none")})

\* The handlers put the uid in their answer and never test it.
Get_user_uid(users) ==
  {Outcome(1, 1, users, "none")}
  \cup Fault("mysql_throw", {Outcome(0, 0, users, "none")})
=============================================================================
