------------------------------- MODULE Monitor -------------------------------
(***************************************************************************)
(* One std::mutex and one std::condition_variable, as the connection pools *)
(* and the log queue of the gateway use them: a thread locks the mutex,    *)
(* evaluates the predicate of wait(lock, pred), and either goes on with    *)
(* the mutex held or gives it up and sleeps until it is notified.          *)
(*                                                                         *)
(* Evaluating the predicate and falling asleep are two steps: nothing that *)
(* needs the mutex can happen between them, but a store to an atomic flag  *)
(* or a notify made without the mutex can.                                 *)
(***************************************************************************)
CONSTANTS
  Threads,    \* the threads that use the monitor
  NoThread,   \* owner of a free mutex
  Spurious    \* whether spurious wakeups occur

ASSUME MonitorAssumption ==
  /\ NoThread \notin Threads
  /\ Spurious \in BOOLEAN

VARIABLES
  owner,      \* thread that holds the mutex, or NoThread
  asleep,     \* threads blocked in the condition variable, not yet notified
  pc          \* what each thread is about to do

monitor == <<owner, asleep, pc>>

Goto(t, label) == pc' = [pc EXCEPT ![t] = label]

\* Lock the mutex.
Acquire(t, from, to) ==
  /\ pc[t] = from
  /\ owner = NoThread
  /\ owner' = t
  /\ Goto(t, to)
  /\ UNCHANGED asleep

\* wait(lock, pred): the predicate is evaluated with the mutex held.
Test(t, pred) ==
  /\ pc[t] = "test"
  /\ Goto(t, IF pred THEN "take" ELSE "sleep")
  /\ UNCHANGED <<owner, asleep>>

\* wait(lock, pred): unlock and block, in one step.
Sleep(t) ==
  /\ pc[t] = "sleep"
  /\ owner' = NoThread
  /\ asleep' = asleep \cup {t}
  /\ Goto(t, "blocked")

\* A notified thread locks the mutex again and re-evaluates the predicate.
Wake(t) ==
  /\ t \notin asleep
  /\ Acquire(t, "blocked", "test")

\* The C++ standard lets a condition variable wake a thread unasked.
SpuriousWakeup(t) ==
  /\ Spurious
  /\ t \in asleep
  /\ asleep' = asleep \ {t}
  /\ UNCHANGED <<owner, pc>>

NotifyOne ==
  \/ asleep = {} /\ UNCHANGED asleep
  \/ \E t \in asleep : asleep' = asleep \ {t}

NotifyAll == asleep' = {}

MonitorInit ==
  /\ owner = NoThread
  /\ asleep = {}
  /\ pc = [t \in Threads |-> "idle"]
=============================================================================
