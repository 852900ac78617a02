------------------------------- MODULE RedisMgr -------------------------------
(***************************************************************************)
(* RedisMgr (src/RedisMgr.cpp): a second Redis pool, filled by connect(),  *)
(* whose getConnection waits 100 ms and then gives up with a null pointer. *)
(* Every operation (set, get, ..., ttl) borrows a connection, sends one    *)
(* command and returns the connection, also when the command throws.       *)
(* close() empties the queue and wakes nobody; connected_ is read and      *)
(* written without the mutex.  Any thread may call anything: the gateway   *)
(* has no caller of its own.                                               *)
(***************************************************************************)
EXTENDS Monitor, Naturals, Sequences, FiniteSets

CONSTANTS
  NoConn,         \* a null shared_ptr
  PoolSize,       \* connections a connect() creates
  MaxConnects,    \* bound on the connect() calls
  MaxCloses,      \* bound on the close() calls
  MaxCalls        \* bound on the operations

Conns == 1 .. PoolSize * MaxConnects    \* numbered as they are created

ASSUME RedisMgrAssumption ==
  /\ IsFiniteSet(Threads)
  /\ PoolSize \in Nat \ {0}
  /\ MaxConnects \in Nat
  /\ MaxCloses \in Nat
  /\ MaxCalls \in Nat
  /\ NoConn \notin Nat

VARIABLES
  connection_pool,  \* connection_pool_
  connected,        \* connected_
  conn,             \* the connection each thread holds
  opened,           \* connections each thread's connect() has created
  connects, closes, calls,    \* made so far
  crashed           \* a null pointer has been used

counters == <<connects, closes, calls>>
vars == <<monitor, connection_pool, connected, conn, opened, counters, crashed>>

Init ==
  /\ MonitorInit
  /\ connection_pool = <<>>
  /\ connected = FALSE
  /\ conn = [t \in Threads |-> NoConn]
  /\ opened = [t \in Threads |-> 0]
  /\ connects = 0
  /\ closes = 0
  /\ calls = 0
  /\ crashed = FALSE

-----------------------------------------------------------------------------
\* connect

Connect(t) ==
  /\ pc[t] = "idle"
  /\ connects < MaxConnects
  /\ connects' = connects + 1
  /\ Goto(t, "open")
  /\ UNCHANGED <<owner, asleep, connection_pool, connected, conn, opened, closes, calls, crashed>>

\* The connection t makes next: those of one connect() follow each other.
Created == {conn[t] : t \in Threads} \cup {connection_pool[i] : i \in DOMAIN connection_pool}
NewConn == CHOOSE c \in Conns : c \notin Created /\ \A d \in Conns \ Created : c <= d

\* A new connection answers the ping, or an exception ends connect().
Ping(t) ==
  /\ pc[t] = "open"
  /\ \/ /\ conn' = [conn EXCEPT ![t] = NewConn]
        /\ Goto(t, "fill")
        /\ UNCHANGED <<connected, opened>>
     \/ /\ connected' = FALSE
        /\ opened' = [opened EXCEPT ![t] = 0]
        /\ Goto(t, "idle")
        /\ UNCHANGED conn
  /\ UNCHANGED <<owner, asleep, connection_pool, counters, crashed>>

\* It is queued, and no waiter notified.
Fill(t) ==
  /\ pc[t] = "fill"
  /\ owner = NoThread
  /\ connection_pool' = Append(connection_pool, conn[t])
  /\ conn' = [conn EXCEPT ![t] = NoConn]
  /\ opened' = [opened EXCEPT ![t] = @ + 1]
  /\ Goto(t, IF opened[t] + 1 = PoolSize THEN "filled" ELSE "open")
  /\ UNCHANGED <<owner, asleep, connected, counters, crashed>>

Filled(t) ==
  /\ pc[t] = "filled"
  /\ connected' = TRUE
  /\ opened' = [opened EXCEPT ![t] = 0]
  /\ Goto(t, "idle")
  /\ UNCHANGED <<owner, asleep, connection_pool, conn, counters, crashed>>

-----------------------------------------------------------------------------
\* getConnection and returnConnection

pool == <<connection_pool, connected, opened, counters, crashed>>

Lock(t) == Acquire(t, "lock", "test") /\ UNCHANGED <<pool, conn>>

Wait(t) ==
  /\ Test(t, connection_pool # <<>>) \/ Sleep(t) \/ Wake(t)
  /\ UNCHANGED <<pool, conn>>

WaitSpurious(t) == SpuriousWakeup(t) /\ UNCHANGED <<pool, conn>>

\* A wait without a timeout.
BugTimeOut(t) == FALSE

\* 100 ms have passed: the predicate is evaluated a last time, once the mutex
\* is held again.
TimeOut(t) ==
  /\ t \in asleep
  /\ asleep' = asleep \ {t}
  /\ Goto(t, "expired")
  /\ UNCHANGED <<owner, pool, conn>>

LastTest(t) ==
  /\ pc[t] = "expired"
  /\ owner = NoThread
  /\ owner' = t
  /\ Goto(t, IF connection_pool # <<>> THEN "take" ELSE "give_up")
  /\ UNCHANGED <<asleep, pool, conn>>

\* return nullptr
GiveUp(t) ==
  /\ pc[t] = "give_up"
  /\ owner' = NoThread
  /\ Goto(t, "using")
  /\ UNCHANGED <<asleep, pool, conn>>

Take(t) ==
  /\ pc[t] = "take"
  /\ owner' = NoThread
  /\ conn' = [conn EXCEPT ![t] = Head(connection_pool)]
  /\ connection_pool' = Tail(connection_pool)
  /\ Goto(t, "using")
  /\ UNCHANGED <<asleep, connected, opened, counters, crashed>>

\* The connection is moved away before it is pushed.
BugReturn(t) ==
  /\ connection_pool' = Append(connection_pool, NoConn)
  /\ conn' = [conn EXCEPT ![t] = NoConn]
  /\ NotifyOne
  /\ Goto(t, "idle")
  /\ UNCHANGED <<owner, connected, opened, counters, crashed>>

\* returnConnection: push, notify_one.
Return(t) ==
  /\ connection_pool' = Append(connection_pool, conn[t])
  /\ conn' = [conn EXCEPT ![t] = NoConn]
  /\ NotifyOne
  /\ Goto(t, "idle")
  /\ UNCHANGED <<owner, connected, opened, counters, crashed>>

-----------------------------------------------------------------------------
\* The operations

\* Without connected_ an operation answers at once.
Call(t) ==
  /\ pc[t] = "idle"
  /\ connected
  /\ calls < MaxCalls
  /\ calls' = calls + 1
  /\ Goto(t, "lock")
  /\ UNCHANGED <<owner, asleep, connection_pool, connected, conn, opened, connects, closes,
                 crashed>>

\* The command is sent: it succeeds or throws, or the pointer is null.
Command(t) ==
  /\ pc[t] = "using"
  /\ \/ /\ conn[t] # NoConn
        /\ Goto(t, "done") \/ Goto(t, "failed")
        /\ UNCHANGED crashed
     \/ /\ conn[t] = NoConn
        /\ crashed' = TRUE
        /\ UNCHANGED pc
  /\ UNCHANGED <<owner, asleep, connection_pool, connected, conn, opened, counters>>

Done(t) == pc[t] = "done" /\ owner = NoThread /\ Return(t)

\* The exception's handler returns no connection.
BugFailed(t) ==
  /\ pc[t] = "failed"
  /\ conn' = [conn EXCEPT ![t] = NoConn]
  /\ Goto(t, "idle")
  /\ UNCHANGED <<owner, asleep, pool>>

Failed(t) == pc[t] = "failed" /\ owner = NoThread /\ Return(t)

\* What each of the twenty operations, set to ttl, does with its connection:
\* they differ in the command and in the value they answer.
Operation(t) == Command(t) \/ Done(t) \/ Failed(t)

\* close, with the mutex held.
Close ==
  /\ closes < MaxCloses
  /\ owner = NoThread
  /\ connection_pool' = <<>>
  /\ connected' = FALSE
  /\ closes' = closes + 1
  /\ UNCHANGED <<monitor, conn, opened, connects, calls, crashed>>

-----------------------------------------------------------------------------
Proceed(t) ==
  \/ Ping(t) \/ Fill(t) \/ Filled(t)
  \/ Lock(t) \/ Wait(t) \/ TimeOut(t) \/ LastTest(t) \/ GiveUp(t) \/ Take(t)
  \/ Operation(t)

Next ==
  /\ ~crashed
  /\ \/ \E t \in Threads : Connect(t) \/ Call(t) \/ Proceed(t) \/ WaitSpurious(t)
     \/ Close

Spec == Init /\ [][Next]_vars

\* Threads are scheduled, commands end, and time passes.
FairSpec ==
  /\ Spec
  /\ \A t \in Threads : WF_vars(~crashed /\ Proceed(t))
  /\ <>[][\A t \in Threads : ~WaitSpurious(t)]_vars

-----------------------------------------------------------------------------
\* Properties

Labels == {"idle", "open", "fill", "filled", "lock", "test", "sleep", "blocked", "take",
           "expired", "give_up", "using", "done", "failed"}

\* Every variable stays in its type.
TypeOK ==
  /\ owner \in Threads \cup {NoThread}
  /\ asleep \in SUBSET Threads
  /\ pc \in [Threads -> Labels]
  /\ connection_pool \in Seq(Conns)
  /\ connected \in BOOLEAN
  /\ conn \in [Threads -> Conns \cup {NoConn}]
  /\ opened \in [Threads -> 0 .. PoolSize]
  /\ connects \in 0 .. MaxConnects
  /\ closes \in 0 .. MaxCloses
  /\ calls \in 0 .. MaxCalls
  /\ crashed \in BOOLEAN

Busy == {t \in Threads : pc[t] \in {"using", "done", "failed"} /\ conn[t] # NoConn}

\* Until the first close() a thread gives up waiting only while at least
\* PoolSize others hold a connection: no way out of an operation loses one,
\* and no failed connect() takes any away.
NullOnlyIfBusy ==
  [][\A t \in Threads : GiveUp(t) => closes > 0 \/ Cardinality(Busy) >= PoolSize]_vars

\* Every call ends, by its answer or by the crash, even if the pool is empty
\* for good: nothing need be returned for that.
EveryCallReturns == \A t \in Threads : pc[t] = "lock" ~> pc[t] = "idle" \/ crashed
=============================================================================
