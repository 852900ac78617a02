------------------------------ MODULE RedisPool ------------------------------
(***************************************************************************)
(* RedisPool (includes/RedisPool.h, src/RedisPool.cpp): a queue of         *)
(* connections behind a mutex and a condition variable, and an atomic flag *)
(* closed_ that getConnection reads with the mutex held, returnConnection  *)
(* reads without it and close() sets before it takes it.                   *)
(***************************************************************************)
EXTENDS Monitor, Naturals, Sequences, FiniteSets

CONSTANTS
  Conns,        \* the connections the constructor may create
  NoConn,       \* a null shared_ptr
  PoolSizes,    \* how many of them the constructor may manage to create
  MaxCalls,     \* getConnection calls each thread makes
  MaxTwice      \* bound on the connections that handlers return twice

ASSUME RedisPoolAssumption ==
  /\ IsFiniteSet(Threads)
  /\ NoConn \notin Conns
  /\ PoolSizes \subseteq Nat
  /\ MaxTwice \in Nat

VARIABLES
  available,    \* available_connections_
  closed,       \* closed_
  closer,       \* progress of the thread that calls close()
  conn,         \* the pointer to a connection each thread's handler has
  stale,        \* handlers that have returned it and will return it again
  twice,        \* connections that were queued a second time
  calls         \* getConnection calls made so far

callers == <<conn, stale, twice>>
vars == <<monitor, available, closed, closer, callers, calls>>

IsDuplicateFree(s) == \A i, j \in DOMAIN s : s[i] = s[j] => i = j

\* The constructor queues the connections that answer a ping.
Init ==
  /\ MonitorInit
  /\ \E n \in PoolSizes :
       available \in {s \in [1 .. n -> Conns] : IsDuplicateFree(s)}
  /\ closed = FALSE
  /\ closer = "open"
  /\ conn = [t \in Threads |-> NoConn]
  /\ stale = {}
  /\ twice = 0
  /\ calls = [t \in Threads |-> 0]

-----------------------------------------------------------------------------
\* Faulty variants, named Bug..., stand before the definitions they would
\* replace: each breaks one of the properties below.

\* getConnection

Call(t) ==
  /\ pc[t] = "idle"
  /\ calls[t] < MaxCalls
  /\ calls' = [calls EXCEPT ![t] = @ + 1]
  /\ Goto(t, "lock")
  /\ UNCHANGED <<owner, asleep, available, closed, closer, callers>>

Lock(t) ==
  /\ Acquire(t, "lock", "test")
  /\ UNCHANGED <<available, closed, closer, callers, calls>>

WaitTest(t) ==
  /\ Test(t, available # <<>> \/ closed)
  /\ UNCHANGED <<available, closed, closer, callers, calls>>

WaitSleep(t) ==
  /\ Sleep(t)
  /\ UNCHANGED <<available, closed, closer, callers, calls>>

\* if instead of while: the predicate is not tested again.
BugWaitWake(t) ==
  /\ t \notin asleep
  /\ Acquire(t, "blocked", "take")
  /\ UNCHANGED <<available, closed, closer, callers, calls>>

WaitWake(t) ==
  /\ Wake(t)
  /\ UNCHANGED <<available, closed, closer, callers, calls>>

WaitSpurious(t) ==
  /\ SpuriousWakeup(t)
  /\ UNCHANGED <<available, closed, closer, callers, calls>>

\* front() without pop().
BugTake(t) ==
  /\ pc[t] = "take"
  /\ ~closed
  /\ owner' = NoThread
  /\ conn' = [conn EXCEPT ![t] = Head(available)]
  /\ Goto(t, "using")
  /\ UNCHANGED <<asleep, available, closed, closer, stale, twice, calls>>

\* closed_ is read a second time: a pool closed meanwhile yields a null pointer.
Take(t) ==
  /\ pc[t] = "take"
  /\ owner' = NoThread
  /\ \/ /\ closed
        /\ Goto(t, "idle")
        /\ UNCHANGED <<available, conn>>
     \/ /\ ~closed
        /\ conn' = [conn EXCEPT ![t] = Head(available)]
        /\ available' = Tail(available)
        /\ Goto(t, "using")
  /\ UNCHANGED <<asleep, closed, closer, stale, twice, calls>>

-----------------------------------------------------------------------------
\* returnConnection

\* The handler ends, and its copy of the pointer with it.
LetGo(t) ==
  /\ conn' = [conn EXCEPT ![t] = NoConn]
  /\ stale' = stale \ {t}
  /\ Goto(t, "idle")

\* The early return reads closed_ before the mutex is taken.
ReturnCheck(t) ==
  /\ pc[t] = "using"
  /\ \/ closed /\ LetGo(t)
     \/ ~closed /\ Goto(t, "push") /\ UNCHANGED <<conn, stale>>
  /\ UNCHANGED <<owner, asleep, available, closed, closer, twice, calls>>

\* No notify_one.
BugSilentPush(t) ==
  /\ pc[t] = "push"
  /\ owner = NoThread
  /\ available' = Append(available, conn[t])
  /\ LetGo(t)
  /\ UNCHANGED <<owner, asleep, closed, closer, twice, calls>>

\* The pointer is moved away before it is pushed.
BugEmptyPush(t) ==
  /\ pc[t] = "push"
  /\ owner = NoThread
  /\ available' = Append(available, NoConn)
  /\ LetGo(t)
  /\ NotifyOne
  /\ UNCHANGED <<owner, closed, closer, twice, calls>>

\* The handler goes on using what it has returned.
BugKeepingPush(t) ==
  /\ pc[t] = "push"
  /\ owner = NoThread
  /\ available' = Append(available, conn[t])
  /\ NotifyOne
  /\ Goto(t, "idle")
  /\ UNCHANGED <<owner, closed, closer, callers, calls>>

\* The critical section: push, notify_one, unlock.  The pool does not know
\* who holds what it is given: a pointer returned before is queued again.
Push(t) ==
  /\ pc[t] = "push"
  /\ owner = NoThread
  /\ available' = Append(available, conn[t])
  /\ NotifyOne
  /\ twice' = IF t \in stale THEN twice + 1 ELSE twice
  /\ UNCHANGED <<owner, closed, closer, calls>>

\* The handler returns its connection and ends.
ReturnPush(t) == Push(t) /\ LetGo(t)

\* user_register, told that the email is registered, returns the connection
\* and goes on to the end of the handler, where it returns it again.
FirstOfTwo(t) ==
  /\ t \notin stale
  /\ twice + Cardinality(stale) < MaxTwice
  /\ Push(t)
  /\ stale' = stale \cup {t}
  /\ Goto(t, "using")
  /\ UNCHANGED conn

\* A handler that ends without returnConnection destroys the connection.
Forget(t) ==
  /\ pc[t] = "using"
  /\ t \notin stale
  /\ LetGo(t)
  /\ UNCHANGED <<owner, asleep, available, closed, closer, twice, calls>>

-----------------------------------------------------------------------------
\* close

CloseStore ==
  /\ closer = "open"
  /\ closed' = TRUE
  /\ closer' = "stored"
  /\ UNCHANGED <<monitor, available, callers, calls>>

\* No lock.
BugCloseDrain ==
  /\ closer = "stored"
  /\ available' = <<>>
  /\ NotifyAll
  /\ closer' = "closed"
  /\ UNCHANGED <<owner, pc, closed, callers, calls>>

\* The critical section: drain the queue, notify_all, unlock.
CloseDrain ==
  /\ closer = "stored"
  /\ owner = NoThread
  /\ available' = <<>>
  /\ NotifyAll
  /\ closer' = "closed"
  /\ UNCHANGED <<owner, pc, closed, callers, calls>>

-----------------------------------------------------------------------------
\* The steps a thread inside the pool's code, or a handler, goes on with.
Proceed(t) ==
  \/ Lock(t)
  \/ WaitTest(t)
  \/ WaitSleep(t)
  \/ WaitWake(t)
  \/ Take(t)
  \/ ReturnCheck(t)
  \/ ReturnPush(t)
  \/ FirstOfTwo(t)

Next ==
  \/ \E t \in Threads : Call(t) \/ Proceed(t) \/ WaitSpurious(t) \/ Forget(t)
  \/ CloseStore
  \/ CloseDrain

Spec == Init /\ [][Next]_vars

\* The scheduler runs every runnable thread, and a close() once begun; no
\* thread is woken unasked for ever.
Fairness ==
  /\ \A t \in Threads : WF_vars(Proceed(t))
  /\ WF_vars(CloseDrain)
  /\ <>[][\A t \in Threads : ~WaitSpurious(t)]_vars

FairSpec == Spec /\ Fairness
-----------------------------------------------------------------------------
\* Properties

Labels == {"idle", "lock", "test", "sleep", "blocked", "take", "using", "push"}

\* Every variable stays in its type (RedisPool.h:23-26 and the callers' locals).
TypeOK ==
  /\ owner \in Threads \cup {NoThread}
  /\ asleep \in SUBSET Threads
  /\ pc \in [Threads -> Labels]
  /\ available \in Seq(Conns)
  /\ closed \in BOOLEAN
  /\ closer \in {"open", "stored", "closed"}
  /\ conn \in [Threads -> Conns \cup {NoConn}]
  /\ stale \in SUBSET Threads
  /\ twice \in Nat
  /\ calls \in [Threads -> Nat]

\* What the pool has lent: a pointer that was returned is only a copy.
Loan == [t \in Threads |-> IF t \in stale THEN NoConn ELSE conn[t]]

\* As long as no connection was returned a second time, each is in one place:
\* no two threads are lent it, none is lent one that is still queued, and the
\* queue holds none twice (getConnection and returnConnection).  user_register
\* ends this (LogicalSystem.cpp:181 and 195): then one may be lent twice.
ExclusiveLoan ==
  twice = 0 =>
    /\ IsDuplicateFree(available)
    /\ \A t \in Threads, i \in DOMAIN available : Loan[t] # available[i]
    /\ \A t, u \in Threads : Loan[t] = Loan[u] /\ t # u => Loan[t] = NoConn

\* getConnection never calls front() on an empty queue: whatever was taken
\* or drained between a notify and the wakeup, the predicate is tested again.
NoEmptyPop ==
  \A t \in Threads : pc[t] = "take" /\ ~closed => available # <<>>

\* Once close() has returned no thread sleeps in getConnection or is about
\* to, although closed_ is stored before the mutex is taken.
CloseWakesAll ==
  closer = "closed" =>
    /\ asleep = {}
    /\ \A t \in Threads : pc[t] # "sleep"

\* Threads that have been notified, or are past the test, and will take one.
Awake == {t \in Threads : \/ pc[t] \in {"test", "take"}
                          \/ pc[t] = "blocked" /\ t \notin asleep}

\* No wakeup is lost: while a thread sleeps in an open pool, each queued
\* connection has a thread on its way to it, however calls, returns and
\* spurious wakeups interleave.
NoLostWakeup == asleep # {} /\ ~closed => Len(available) <= Cardinality(Awake)

\* Handlers have dropped every connection of an open pool.
NoneLeft == ~closed /\ available = <<>> /\ \A t \in Threads : conn[t] = NoConn

\* Every getConnection call returns, with a connection or, after close(), with
\* null, as long as handlers do not drop the last connection.
EveryCallReturns ==
  \A t \in Threads : pc[t] = "lock" ~> pc[t] \in {"using", "idle"} \/ NoneLeft

\* The pool implements exclusive lending, by every step before the first by
\* which a handler returns a connection a second time.
Lending == INSTANCE ConnectionPool WITH
             idle <- {available[i] : i \in DOMAIN available},
             lent <- Loan
LendsExclusively ==
  Lending!Init /\ [][twice' = 0 => Lending!Next]_(Lending!vars)
=============================================================================
