---------------------------- MODULE gRPCServerPool ----------------------------
(***************************************************************************)
(* The stub half of gRPCServerPool (src/gRPCMrg.cpp): a queue of stubs     *)
(* behind a mutex and a condition variable.  stop() sets is_stop and       *)
(* notifies without ever taking the mutex.  The channel half has the same  *)
(* protocol on its own mutex, and no caller.                               *)
(***************************************************************************)
EXTENDS Monitor, Naturals, Sequences, FiniteSets

CONSTANTS
  Stubs,
  NoStub,       \* a null unique_ptr
  MaxCalls      \* bound on the get_stub calls of each thread

ASSUME gRPCServerPoolAssumption ==
  /\ IsFiniteSet(Threads)
  /\ IsFiniteSet(Stubs)
  /\ NoStub \notin Stubs

VARIABLES
  stub_pool,
  is_stop,
  stopper,      \* progress of the thread that calls stop()
  stub,         \* the stub each thread has taken
  calls

vars == <<monitor, stub_pool, is_stop, stopper, stub, calls>>

IsDuplicateFree(s) == \A i, j \in DOMAIN s : s[i] = s[j] => i = j

Init ==
  /\ MonitorInit
  /\ stub_pool \in {s \in [1 .. Cardinality(Stubs) -> Stubs] : IsDuplicateFree(s)}
  /\ is_stop = FALSE
  /\ stopper = "open"
  /\ stub = [t \in Threads |-> NoStub]
  /\ calls = [t \in Threads |-> 0]

-----------------------------------------------------------------------------
\* Faulty variants, named Bug..., stand before the definitions they would
\* replace: each breaks one of the properties below.

\* get_stub

Call(t) ==
  /\ pc[t] = "idle"
  /\ calls[t] < MaxCalls
  /\ calls' = [calls EXCEPT ![t] = @ + 1]
  /\ Goto(t, "lock")
  /\ UNCHANGED <<owner, asleep, stub_pool, is_stop, stopper, stub>>

\* The mutex is taken and is_stop read: a stopped pool yields null.
Lock(t) ==
  /\ \/ ~is_stop /\ Acquire(t, "lock", "test")
     \/ /\ is_stop
        /\ pc[t] = "lock"
        /\ owner = NoThread
        /\ Goto(t, "idle")
        /\ UNCHANGED <<owner, asleep>>
  /\ UNCHANGED <<stub_pool, is_stop, stopper, stub, calls>>

Wait(t) ==
  /\ Test(t, stub_pool # <<>> \/ is_stop) \/ Sleep(t) \/ Wake(t)
  /\ UNCHANGED <<stub_pool, is_stop, stopper, stub, calls>>

WaitSpurious(t) ==
  /\ SpuriousWakeup(t)
  /\ UNCHANGED <<stub_pool, is_stop, stopper, stub, calls>>

Take(t) ==
  /\ pc[t] = "take"
  /\ owner' = NoThread
  /\ \/ /\ is_stop
        /\ Goto(t, "idle")
        /\ UNCHANGED <<stub_pool, stub>>
     \/ /\ ~is_stop
        /\ stub' = [stub EXCEPT ![t] = Head(stub_pool)]
        /\ stub_pool' = Tail(stub_pool)
        /\ Goto(t, "using")
  /\ UNCHANGED <<asleep, is_stop, stopper, calls>>

-----------------------------------------------------------------------------
\* No notify_one.
BugSilentRelease(t) ==
  /\ pc[t] = "using"
  /\ owner = NoThread
  /\ stub_pool' = IF is_stop THEN stub_pool ELSE Append(stub_pool, stub[t])
  /\ stub' = [stub EXCEPT ![t] = NoStub]
  /\ Goto(t, "idle")
  /\ UNCHANGED <<owner, asleep, is_stop, stopper, calls>>

\* The stub is moved away before it is pushed.
BugEmptyRelease(t) ==
  /\ pc[t] = "using"
  /\ owner = NoThread
  /\ stub_pool' = Append(stub_pool, NoStub)
  /\ stub' = [stub EXCEPT ![t] = NoStub]
  /\ NotifyOne
  /\ Goto(t, "idle")
  /\ UNCHANGED <<owner, is_stop, stopper, calls>>

\* The caller goes on using what it has released.
BugKeepingRelease(t) ==
  /\ pc[t] = "using"
  /\ owner = NoThread
  /\ stub_pool' = Append(stub_pool, stub[t])
  /\ NotifyOne
  /\ Goto(t, "idle")
  /\ UNCHANGED <<owner, is_stop, stopper, stub, calls>>

\* release_stub: the stub of a stopped pool is destroyed.
Release(t) ==
  /\ pc[t] = "using"
  /\ owner = NoThread
  /\ \/ is_stop /\ UNCHANGED <<stub_pool, asleep>>
     \/ ~is_stop /\ stub_pool' = Append(stub_pool, stub[t]) /\ NotifyOne
  /\ stub' = [stub EXCEPT ![t] = NoStub]
  /\ Goto(t, "idle")
  /\ UNCHANGED <<owner, is_stop, stopper, calls>>

-----------------------------------------------------------------------------
\* stop, in two steps and without the mutex

StopStore ==
  /\ stopper = "open"
  /\ is_stop' = TRUE
  /\ stopper' = "stored"
  /\ UNCHANGED <<monitor, stub_pool, stub, calls>>

\* No notify_all.
BugStopNotify ==
  /\ stopper = "stored"
  /\ stopper' = "stopped"
  /\ UNCHANGED <<monitor, stub_pool, is_stop, stub, calls>>

StopNotify ==
  /\ stopper = "stored"
  /\ NotifyAll
  /\ stopper' = "stopped"
  /\ UNCHANGED <<owner, pc, stub_pool, is_stop, stub, calls>>

-----------------------------------------------------------------------------
Proceed(t) == Lock(t) \/ Wait(t) \/ Take(t) \/ Release(t)

Next ==
  \/ \E t \in Threads : Call(t) \/ Proceed(t) \/ WaitSpurious(t)
  \/ StopStore
  \/ StopNotify

Spec == Init /\ [][Next]_vars

\* Threads are scheduled, RPCs end, stop() ends once begun, and no thread is
\* woken unasked for ever.
FairSpec ==
  /\ Spec
  /\ \A t \in Threads : WF_vars(Proceed(t))
  /\ WF_vars(StopNotify)
  /\ <>[][\A t \in Threads : ~WaitSpurious(t)]_vars
-----------------------------------------------------------------------------
\* Properties

Labels == {"idle", "lock", "test", "sleep", "blocked", "take", "using"}

\* Every variable stays in its type.
TypeOK ==
  /\ owner \in Threads \cup {NoThread}
  /\ asleep \in SUBSET Threads
  /\ pc \in [Threads -> Labels]
  /\ stub_pool \in Seq(Stubs)
  /\ is_stop \in BOOLEAN
  /\ stopper \in {"open", "stored", "stopped"}
  /\ stub \in [Threads -> Stubs \cup {NoStub}]
  /\ calls \in [Threads -> Nat]

\* A thread left asleep by stop() slept off while stop() ran: it evaluated
\* the predicate before is_stop was set and blocked after the notify.  So at
\* most one thread is stranded, the one that then held the mutex.
AtMostOneStranded ==
  stopper = "stopped" =>
    Cardinality(asleep \cup {t \in Threads : pc[t] = "sleep"}) <= 1

\* In a pool that is not stopped every get_stub call returns with a stub.
EveryCallReturns == \A t \in Threads : pc[t] = "lock" ~> pc[t] = "using" \/ is_stop

\* The pool implements exclusive lending; a stopped one only loses stubs.
Lending == INSTANCE ConnectionPool WITH
             Conns <- Stubs, NoConn <- NoStub,
             idle <- {stub_pool[i] : i \in DOMAIN stub_pool},
             lent <- stub
LendsExclusively == Lending!Spec
=============================================================================
