--------------------------- MODULE VarfiyGrpcClient ---------------------------
(***************************************************************************)
(* VarfiyGrpcClient::GetVarifyCode over RPConPool                          *)
(* (includes/VarfiyGrpcClient.h): each call takes a stub, makes one RPC    *)
(* and gives the stub back.  The stubs are numbered in the order the       *)
(* constructor creates them.  ~RPConPool runs when the process exits and   *)
(* is left out, so is_running_ is always true.                             *)
(***************************************************************************)
EXTENDS Monitor, StubVector, FiniteSets

CONSTANTS
  PoolSize,     \* stubs the constructor creates
  MaxCalls      \* bound on the calls of each thread

ASSUME VarfiyGrpcClientAssumption ==
  /\ IsFiniteSet(Threads)
  /\ PoolSize \in Nat
  /\ Null = 0

VARIABLES
  connections,  \* the vector of stubs, moved-from elements included
  stub,         \* the stub each thread has taken, or Null
  nulls,        \* calls that got a moved-from element
  calls

vars == <<monitor, connections, stub, nulls, calls>>

Init ==
  /\ MonitorInit
  /\ connections = [i \in 1 .. PoolSize |-> i]
  /\ stub = [t \in Threads |-> Null]
  /\ nulls = 0
  /\ calls = [t \in Threads |-> 0]

GetVarifyCode(t) ==
  /\ pc[t] = "idle"
  /\ calls[t] < MaxCalls
  /\ calls' = [calls EXCEPT ![t] = @ + 1]
  /\ Goto(t, "lock")
  /\ UNCHANGED <<owner, asleep, connections, stub, nulls>>

Lock(t) ==
  /\ Acquire(t, "lock", "test")
  /\ UNCHANGED <<connections, stub, nulls, calls>>

\* wait(lock, pred)
Wait(t) ==
  /\ Test(t, connections # <<>>) \/ Sleep(t) \/ Wake(t)
  /\ UNCHANGED <<connections, stub, nulls, calls>>

WaitSpurious(t) ==
  /\ SpuriousWakeup(t)
  /\ UNCHANGED <<connections, stub, nulls, calls>>

\* A null stub ends the call: nothing is returned to the pool.
Take(t) ==
  /\ pc[t] = "take"
  /\ owner' = NoThread
  /\ connections' = AfterTake(connections)
  /\ stub' = [stub EXCEPT ![t] = Head(connections)]
  /\ \/ Head(connections) = Null /\ nulls' = nulls + 1 /\ Goto(t, "idle")
     \/ Head(connections) # Null /\ UNCHANGED nulls /\ Goto(t, "rpc")
  /\ UNCHANGED <<asleep, calls>>

\* The RPC ends, with or without success: the stub goes back all the same.
Rpc(t) ==
  /\ pc[t] = "rpc"
  /\ Goto(t, "push")
  /\ UNCHANGED <<owner, asleep, connections, stub, nulls, calls>>

\* A faulty variant: no notify_one.
BugSilentPush(t) ==
  /\ pc[t] = "push"
  /\ owner = NoThread
  /\ connections' = Append(connections, stub[t])
  /\ stub' = [stub EXCEPT ![t] = Null]
  /\ Goto(t, "idle")
  /\ UNCHANGED <<owner, asleep, nulls, calls>>

\* returnConnection: push_back, notify_one.
ReturnPush(t) ==
  /\ pc[t] = "push"
  /\ owner = NoThread
  /\ connections' = Append(connections, stub[t])
  /\ stub' = [stub EXCEPT ![t] = Null]
  /\ NotifyOne
  /\ Goto(t, "idle")
  /\ UNCHANGED <<owner, nulls, calls>>

Proceed(t) == Lock(t) \/ Wait(t) \/ Take(t) \/ Rpc(t) \/ ReturnPush(t)

Next == \E t \in Threads : GetVarifyCode(t) \/ Proceed(t) \/ WaitSpurious(t)

Spec == Init /\ [][Next]_vars

\* Threads are scheduled, an RPC ends, and no thread is woken unasked for ever.
FairSpec ==
  /\ Spec
  /\ \A t \in Threads : WF_vars(Proceed(t))
  /\ <>[][\A t \in Threads : ~WaitSpurious(t)]_vars
-----------------------------------------------------------------------------
\* Properties

Labels == {"idle", "lock", "test", "sleep", "blocked", "take", "rpc", "push"}

\* Every variable stays in its type.
TypeOK ==
  /\ owner \in Threads \cup {NoThread}
  /\ asleep \in SUBSET Threads
  /\ pc \in [Threads -> Labels]
  /\ connections \in Seq(0 .. PoolSize) /\ Len(connections) <= PoolSize
  /\ stub \in [Threads -> 0 .. PoolSize]
  /\ nulls \in Nat
  /\ calls \in [Threads -> Nat]

\* Threads that have been notified, or are past the test, and will take one.
Awake == {t \in Threads : \/ pc[t] \in {"test", "take"}
                          \/ pc[t] = "blocked" /\ t \notin asleep}

\* No wakeup is lost in getConnection: while a thread sleeps, each element of
\* the vector, emptied or not, has a thread on its way to it.
NoLostWakeup == asleep # {} => Len(connections) <= Cardinality(Awake)

\* Every null answer shortens the vector for good: after PoolSize of them it
\* is empty, no stub is out, and every later call waits for ever.
NullsShrinkThePool ==
  Len(connections) + Cardinality({t \in Threads : stub[t] # Null}) + nulls = PoolSize

\* Every call returns until the vector has lost all its elements to nulls.
EveryCallReturns ==
  \A t \in Threads : pc[t] = "lock" ~> pc[t] = "idle" \/ nulls = PoolSize
=============================================================================
