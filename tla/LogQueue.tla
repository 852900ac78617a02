------------------------------- MODULE LogQueue -------------------------------
(***************************************************************************)
(* LogQueue (src/LogSystem.cpp): any thread pushes messages, the log       *)
(* thread started by run() writes them with LogSystem::log, and stop(),    *)
(* called by main when it gives up, joins the log thread and writes what   *)
(* is left.  Threads, of Monitor, is the log thread alone: a push and each *)
(* critical section of stop() is one step.                                 *)
(***************************************************************************)
EXTENDS Monitor, Naturals, Sequences

CONSTANTS
  LogThread,
  Messages,
  MaxPushes     \* bound on the messages pushed

ASSUME LogQueueAssumption == Threads = {LogThread}

VARIABLES
  log_queue,
  running,
  main,         \* progress of main through run() and stop()
  current,      \* the message the log thread has popped and not written yet
  remaining,    \* ... the message stop() has
  pushed,       \* every message pushed so far
  written,      \* every message handed to LogSystem::log
  mark          \* how many had been pushed when stop() was called

queue == <<log_queue, current, remaining, pushed, written>>
vars == <<monitor, log_queue, running, main, current, remaining, pushed, written, mark>>

Init ==
  /\ MonitorInit
  /\ log_queue = <<>>
  /\ running = FALSE
  /\ main = "new"
  /\ current = <<>>
  /\ remaining = <<>>
  /\ pushed = <<>>
  /\ written = <<>>
  /\ mark = 0

-----------------------------------------------------------------------------
\* Faulty variants, named Bug..., stand before the definitions they would
\* replace: each breaks one of the properties below.

\* No notify_one.
BugSilentPush(m) ==
  /\ Len(pushed) < MaxPushes
  /\ owner = NoThread
  /\ log_queue' = Append(log_queue, m)
  /\ pushed' = Append(pushed, m)
  /\ UNCHANGED <<owner, asleep, pc, running, main, current, remaining, written, mark>>

\* A stack instead of a queue.
BugPushFront(m) ==
  /\ Len(pushed) < MaxPushes
  /\ owner = NoThread
  /\ log_queue' = <<m>> \o log_queue
  /\ pushed' = Append(pushed, m)
  /\ NotifyOne
  /\ UNCHANGED <<owner, pc, running, main, current, remaining, written, mark>>

\* push, by any thread: enqueue and notify_one with the mutex held.
Push(m) ==
  /\ Len(pushed) < MaxPushes
  /\ owner = NoThread
  /\ log_queue' = Append(log_queue, m)
  /\ pushed' = Append(pushed, m)
  /\ NotifyOne
  /\ UNCHANGED <<owner, pc, running, main, current, remaining, written, mark>>

\* pop: the caller holds the mutex.
Pop == log_queue # <<>> /\ log_queue' = Tail(log_queue)

-----------------------------------------------------------------------------
\* run, and the log thread it starts

Run ==
  /\ main = "new"
  /\ main' = "running"
  /\ running' = TRUE
  /\ Goto(LogThread, "loop")
  /\ UNCHANGED <<owner, asleep, queue, mark>>

\* The outer loop reads running without the mutex.
Loop ==
  /\ pc[LogThread] = "loop"
  /\ Goto(LogThread, IF running THEN "lock" ELSE "done")
  /\ UNCHANGED <<owner, asleep, queue, running, main, mark>>

Lock ==
  /\ Acquire(LogThread, "lock", "test") \/ Acquire(LogThread, "relock", "take")
  /\ UNCHANGED <<queue, running, main, mark>>

Wait ==
  /\ \/ Test(LogThread, log_queue # <<>> \/ ~running)
     \/ Sleep(LogThread)
     \/ Wake(LogThread)
  /\ UNCHANGED <<queue, running, main, mark>>

WaitSpurious ==
  /\ SpuriousWakeup(LogThread)
  /\ UNCHANGED <<queue, running, main, mark>>

\* The inner loop: pop a message and unlock, or leave both scopes.
Take ==
  /\ pc[LogThread] = "take"
  /\ owner' = NoThread
  /\ \/ /\ running
        /\ Pop
        /\ current' = <<Head(log_queue)>>
        /\ Goto(LogThread, "write")
     \/ /\ log_queue = <<>> \/ ~running
        /\ UNCHANGED <<log_queue, current>>
        /\ Goto(LogThread, "loop")
  /\ UNCHANGED <<asleep, running, main, remaining, pushed, written, mark>>

\* The message is not forgotten once written.
BugWrite ==
  /\ pc[LogThread] = "write"
  /\ written' = written \o current
  /\ Goto(LogThread, "relock")
  /\ UNCHANGED <<owner, asleep, log_queue, current, running, main, remaining, pushed, mark>>

Write ==
  /\ pc[LogThread] = "write"
  /\ written' = written \o current
  /\ current' = <<>>
  /\ Goto(LogThread, "relock")
  /\ UNCHANGED <<owner, asleep, log_queue, running, main, remaining, pushed, mark>>

-----------------------------------------------------------------------------
\* stop

StopStore ==
  /\ main \in {"new", "running"}
  /\ running' = FALSE
  /\ main' = "stopping"
  /\ mark' = Len(pushed)
  /\ UNCHANGED <<monitor, queue>>

\* No lock.
BugStopNotify ==
  /\ main = "stopping"
  /\ NotifyAll
  /\ main' = "joining"
  /\ UNCHANGED <<owner, pc, queue, running, mark>>

StopNotify ==
  /\ main = "stopping"
  /\ owner = NoThread
  /\ NotifyAll
  /\ main' = "joining"
  /\ UNCHANGED <<owner, pc, queue, running, mark>>

\* No join.
BugJoin ==
  /\ main = "joining"
  /\ main' = "draining"
  /\ UNCHANGED <<monitor, queue, running, mark>>

\* A log thread that was never started is not joinable.
Join ==
  /\ main = "joining"
  /\ pc[LogThread] \in {"idle", "done"}
  /\ main' = "draining"
  /\ UNCHANGED <<monitor, queue, running, mark>>

\* What is left is not written.
BugDrainTake ==
  /\ main = "draining"
  /\ main' = "stopped"
  /\ UNCHANGED <<monitor, queue, running, mark>>

DrainTake ==
  /\ main = "draining"
  /\ owner = NoThread
  /\ \/ /\ Pop
        /\ remaining' = <<Head(log_queue)>>
        /\ main' = "writing"
     \/ /\ log_queue = <<>>
        /\ main' = "stopped"
        /\ UNCHANGED <<log_queue, remaining>>
  /\ UNCHANGED <<monitor, current, running, pushed, written, mark>>

DrainWrite ==
  /\ main = "writing"
  /\ written' = written \o remaining
  /\ remaining' = <<>>
  /\ main' = "draining"
  /\ UNCHANGED <<monitor, log_queue, current, running, pushed, mark>>

-----------------------------------------------------------------------------
LogThreadStep == Loop \/ Lock \/ Wait \/ Take \/ Write
StopStep == StopNotify \/ Join \/ DrainTake \/ DrainWrite

Next ==
  \/ \E m \in Messages : Push(m)
  \/ Run
  \/ LogThreadStep
  \/ WaitSpurious
  \/ StopStore
  \/ StopStep

Spec == Init /\ [][Next]_vars

\* The log thread and main are scheduled.
FairSpec ==
  /\ Spec
  /\ WF_vars(LogThreadStep)
  /\ WF_vars(StopStep)
-----------------------------------------------------------------------------
\* Properties

\* Every variable stays in its type.
TypeOK ==
  /\ owner \in Threads \cup {NoThread}
  /\ asleep \in SUBSET Threads
  /\ pc \in [Threads -> {"idle", "loop", "lock", "test", "sleep", "blocked", "take",
                         "write", "relock", "done"}]
  /\ {log_queue, current, remaining, pushed, written} \subseteq Seq(Messages)
  /\ current # <<>> <=> pc[LogThread] = "write"
  /\ running \in BOOLEAN
  /\ main \in {"new", "running", "stopping", "joining", "draining", "writing", "stopped"}
  /\ mark \in Nat

\* No message is lost, duplicated or reordered, although two threads pop the
\* queue and each writes what it popped after it has released the mutex.
Fifo == written \o current \o remaining \o log_queue = pushed

\* stop() returns only when all that was pushed before it was called is written.
StopFlushes == main = "stopped" => Len(written) >= mark

\* A message pushed while the queue runs is written, by the log thread or by
\* stop(), if it is called before.
EventuallyWritten ==
  \A n \in 1 .. MaxPushes :
    main = "running" /\ Len(pushed) >= n ~> Len(written) >= n

\* stop() returns: the log thread does not sleep through it, although running
\* is stored without the mutex.
StopReturns == main = "stopping" ~> main = "stopped"

\* The queue and its two readers implement an ordered log.
Ordered == INSTANCE MessageLog
WritesInOrder == Ordered!Spec
=============================================================================
