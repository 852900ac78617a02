------------------------------ MODULE MySqlPool ------------------------------
(***************************************************************************)
(* MySqlPool (includes/MySqlPool.h): a queue of MySQL connections behind a *)
(* mutex and a condition variable.  close() sets closed_, which nothing    *)
(* reads: getConnection waits for a connection and nothing else, and       *)
(* releaseConnection fills the queue of a closed pool again.               *)
(***************************************************************************)
EXTENDS Monitor, Naturals, Sequences, FiniteSets

CONSTANTS
  Conns,        \* the connections the constructor may open
  NoConn,       \* a null shared_ptr
  PoolSizes,    \* how many of them the server accepts
  MaxCalls      \* bound on the getConnection calls of each thread

ASSUME MySqlPoolAssumption ==
  /\ IsFiniteSet(Threads)
  /\ NoConn \notin Conns
  /\ PoolSizes \subseteq Nat

VARIABLES
  available,    \* available_connections_
  closed,       \* closed_
  conn,         \* the connection each thread's query runs on
  calls

vars == <<monitor, available, closed, conn, calls>>

IsDuplicateFree(s) == \A i, j \in DOMAIN s : s[i] = s[j] => i = j

Init ==
  /\ MonitorInit
  /\ \E n \in PoolSizes :
       available \in {s \in [1 .. n -> Conns] : IsDuplicateFree(s)}
  /\ closed = FALSE
  /\ conn = [t \in Threads |-> NoConn]
  /\ calls = [t \in Threads |-> 0]

\* Faulty variants, named Bug..., stand before the definitions they would
\* replace: each breaks one of the properties below.

\* getConnection
Call(t) ==
  /\ pc[t] = "idle"
  /\ calls[t] < MaxCalls
  /\ calls' = [calls EXCEPT ![t] = @ + 1]
  /\ Goto(t, "lock")
  /\ UNCHANGED <<owner, asleep, available, closed, conn>>

Lock(t) ==
  /\ Acquire(t, "lock", "test")
  /\ UNCHANGED <<available, closed, conn, calls>>

Wait(t) ==
  /\ Test(t, available # <<>>) \/ Sleep(t) \/ Wake(t)
  /\ UNCHANGED <<available, closed, conn, calls>>

WaitSpurious(t) ==
  /\ SpuriousWakeup(t)
  /\ UNCHANGED <<available, closed, conn, calls>>

\* front() without pop().
BugTake(t) ==
  /\ pc[t] = "take"
  /\ owner' = NoThread
  /\ conn' = [conn EXCEPT ![t] = Head(available)]
  /\ Goto(t, "using")
  /\ UNCHANGED <<asleep, available, closed, calls>>

Take(t) ==
  /\ pc[t] = "take"
  /\ owner' = NoThread
  /\ conn' = [conn EXCEPT ![t] = Head(available)]
  /\ available' = Tail(available)
  /\ Goto(t, "using")
  /\ UNCHANGED <<asleep, closed, calls>>

\* No notify_one.
BugSilentRelease(t) ==
  /\ pc[t] = "using"
  /\ owner = NoThread
  /\ available' = Append(available, conn[t])
  /\ conn' = [conn EXCEPT ![t] = NoConn]
  /\ Goto(t, "idle")
  /\ UNCHANGED <<owner, asleep, closed, calls>>

\* The connection is moved away before it is pushed.
BugEmptyRelease(t) ==
  /\ pc[t] = "using"
  /\ owner = NoThread
  /\ available' = Append(available, NoConn)
  /\ conn' = [conn EXCEPT ![t] = NoConn]
  /\ NotifyOne
  /\ Goto(t, "idle")
  /\ UNCHANGED <<owner, closed, calls>>

\* releaseConnection: push, notify_one.
Release(t) ==
  /\ pc[t] = "using"
  /\ owner = NoThread
  /\ available' = Append(available, conn[t])
  /\ conn' = [conn EXCEPT ![t] = NoConn]
  /\ NotifyOne
  /\ Goto(t, "idle")
  /\ UNCHANGED <<owner, closed, calls>>

\* A MysqlDao operation that throws, or falls off its end.
Drop(t) ==
  /\ pc[t] = "using"
  /\ conn' = [conn EXCEPT ![t] = NoConn]
  /\ Goto(t, "idle")
  /\ UNCHANGED <<owner, asleep, available, closed, calls>>

\* close, all of it with the mutex held.
Close ==
  /\ ~closed
  /\ owner = NoThread
  /\ closed' = TRUE
  /\ NotifyAll
  /\ available' = <<>>
  /\ UNCHANGED <<owner, pc, conn, calls>>

Proceed(t) == Lock(t) \/ Wait(t) \/ Take(t)

Next ==
  \/ \E t \in Threads :
       Call(t) \/ Proceed(t) \/ WaitSpurious(t) \/ Release(t) \/ Drop(t)
  \/ Close

Spec == Init /\ [][Next]_vars

\* Threads are scheduled, a query ends, one way or the other, and no thread is
\* woken unasked for ever.
FairSpec ==
  /\ Spec
  /\ \A t \in Threads : WF_vars(Proceed(t) \/ Release(t) \/ Drop(t))
  /\ <>[][\A t \in Threads : ~WaitSpurious(t)]_vars
-----------------------------------------------------------------------------
\* Properties

Labels == {"idle", "lock", "test", "sleep", "blocked", "take", "using"}

\* Every variable stays in its type.
TypeOK ==
  /\ owner \in Threads \cup {NoThread}
  /\ asleep \in SUBSET Threads
  /\ pc \in [Threads -> Labels]
  /\ available \in Seq(Conns)
  /\ closed \in BOOLEAN
  /\ conn \in [Threads -> Conns \cup {NoConn}]
  /\ calls \in [Threads -> Nat]

NoneLeft == available = <<>> /\ \A t \in Threads : conn[t] = NoConn

\* Every getConnection call gets a connection unless all have been dropped by
\* queries or by close(), which itself releases nobody: its waiters depend on
\* connections released into the closed pool.
EveryCallReturns == \A t \in Threads : pc[t] = "lock" ~> pc[t] = "using" \/ NoneLeft

\* The pool implements exclusive lending, before and after close().
Lending == INSTANCE ConnectionPool WITH
             idle <- {available[i] : i \in DOMAIN available},
             lent <- conn
LendsExclusively == Lending!Spec
=============================================================================
