---------------------------- MODULE LogQueueProofs ----------------------------
(***************************************************************************)
(* Proofs about LogQueue, for any messages and any number of pushes.       *)
(*                                                                         *)
(* Fifo is not inductive: with a message in the hands of the log thread    *)
(* and one in those of stop() the order would depend on who writes first.  *)
(* Turns says that it does not happen, because stop() pops only after it   *)
(* has joined the log thread.                                              *)
(***************************************************************************)
EXTENDS LogQueue, SequenceTheorems, TLAPS

AtMostOne(s) == s = <<>> \/ \E m \in Messages : s = <<m>>

\* Who may hold a message, and what stop() has seen of the pushes.
Turns ==
  /\ AtMostOne(current)
  /\ AtMostOne(remaining)
  /\ remaining # <<>> <=> main = "writing"
  /\ main = "new" => pc[LogThread] = "idle"
  /\ main \in {"draining", "writing", "stopped"} => pc[LogThread] \in {"idle", "done"}
  /\ mark <= Len(pushed)

IInv == TypeOK /\ Turns /\ Fifo /\ StopFlushes

-----------------------------------------------------------------------------
\* Sequences

\* A message that leaves the queue for a hand between it and the log.
LEMMA TakeKeepsOrder ==
  ASSUME NEW S, NEW w \in Seq(S), NEW q \in Seq(S), q # <<>>
  PROVE  (w \o <<Head(q)>>) \o Tail(q) = w \o q
<1>1. /\ Head(q) \in S
      /\ Tail(q) \in Seq(S)
      /\ Len(Tail(q)) = Len(q) - 1
      /\ \A i \in 1 .. Len(Tail(q)) : Tail(q)[i] = q[i + 1]
  BY HeadTailProperties
<1>2. <<Head(q)>> \in Seq(S) /\ Len(<<Head(q)>>) = 1 /\ <<Head(q)>>[1] = Head(q)
  BY <1>1
<1>3. Len(q) \in Nat /\ Head(q) = q[1]
  BY LenProperties, EmptySeq
<1>4. /\ <<Head(q)>> \o Tail(q) \in Seq(S)
      /\ Len(<<Head(q)>> \o Tail(q)) = Len(q)
      /\ \A i \in 1 .. Len(q) : (<<Head(q)>> \o Tail(q))[i] =
           IF i <= 1 THEN <<Head(q)>>[i] ELSE Tail(q)[i - 1]
  BY <1>1, <1>2, <1>3, ConcatProperties
<1>5. \A i \in 1 .. Len(q) : (<<Head(q)>> \o Tail(q))[i] = q[i]
  BY <1>1, <1>2, <1>3, <1>4
<1>6. <<Head(q)>> \o Tail(q) = q
  BY <1>4, <1>5, SeqEqual
<1> QED
  BY <1>1, <1>2, <1>6, ConcatAssociative

\* A push extends the order at its end.
LEMMA PushKeepsOrder ==
  ASSUME NEW S, NEW s \in Seq(S), NEW q \in Seq(S), NEW m \in S
  PROVE  s \o Append(q, m) = Append(s \o q, m)
<1>1. <<m>> \in Seq(S) /\ s \o q \in Seq(S)
  BY ConcatProperties
<1>2. s \o (q \o <<m>>) = (s \o q) \o <<m>>
  BY <1>1, ConcatAssociative
<1> QED
  BY <1>1, <1>2, AppendIsConcat

\* A log that precedes the held messages and the queue can be continued with
\* the message held.
LEMMA WritesNext ==
  ASSUME NEW S, NEW w \in Seq(S), NEW q \in Seq(S), NEW m \in S
  PROVE  /\ w \o <<m>> = Append(w, m)
         /\ Len(w) < Len((w \o <<m>>) \o q)
         /\ ((w \o <<m>>) \o q)[Len(w) + 1] = m
<1>1. w \o <<m>> = Append(w, m)
  BY AppendIsConcat
<1>2. /\ Append(w, m) \in Seq(S)
      /\ Len(Append(w, m)) = Len(w) + 1
      /\ Append(w, m)[Len(w) + 1] = m
  BY AppendProperties
<1>3. Len(w) \in Nat /\ Len(q) \in Nat
  BY LenProperties
<1>4. /\ Len(Append(w, m) \o q) = Len(w) + 1 + Len(q)
      /\ (Append(w, m) \o q)[Len(w) + 1] = Append(w, m)[Len(w) + 1]
  BY <1>2, <1>3, ConcatProperties
<1> QED
  BY <1>1, <1>2, <1>3, <1>4

-----------------------------------------------------------------------------
\* The inductive invariant

LEMMA InitIInv == Init => IInv
<1> SUFFICES ASSUME Init PROVE IInv
  OBVIOUS
<1> USE MonitorAssumption, LogQueueAssumption DEF Init, MonitorInit
<1>1. <<>> \in Seq(Messages) /\ Len(<<>>) = 0
  BY EmptySeq
<1>2. TypeOK
  BY <1>1 DEF TypeOK
<1>3. Turns
  BY <1>1 DEF Turns, AtMostOne
<1>4. Fifo
  BY <1>1, ConcatEmptySeq DEF Fifo
<1>5. StopFlushes
  BY DEF StopFlushes
<1> QED
  BY <1>2, <1>3, <1>4, <1>5 DEF IInv

\* The types of the messages on their way.
LEMMA Types ==
  ASSUME TypeOK
  PROVE  /\ log_queue \in Seq(Messages) /\ current \in Seq(Messages)
         /\ remaining \in Seq(Messages) /\ pushed \in Seq(Messages)
         /\ written \in Seq(Messages)
         /\ written \o current \in Seq(Messages)
         /\ (written \o current) \o remaining \in Seq(Messages)
         /\ Len(written) \in Nat /\ Len(pushed) \in Nat
<1>1. /\ log_queue \in Seq(Messages) /\ current \in Seq(Messages)
      /\ remaining \in Seq(Messages) /\ pushed \in Seq(Messages)
      /\ written \in Seq(Messages)
  BY DEF TypeOK
<1> QED
  BY <1>1, ConcatProperties, LenProperties

\* A push puts the message behind all others.
LEMMA PushStep ==
  ASSUME IInv, NEW m \in Messages, Push(m)
  PROVE  IInv'
<1> USE MonitorAssumption, LogQueueAssumption
<1>1. TypeOK /\ Turns /\ Fifo /\ StopFlushes
  BY DEF IInv
<1>2. /\ log_queue' = Append(log_queue, m) /\ pushed' = Append(pushed, m)
      /\ asleep' \subseteq asleep
      /\ UNCHANGED <<owner, pc, running, main, current, remaining, written, mark>>
  BY DEF Push, NotifyOne
<1>3. /\ log_queue' \in Seq(Messages) /\ pushed' \in Seq(Messages)
      /\ Len(pushed') = Len(pushed) + 1
  BY <1>1, <1>2, Types, AppendProperties
<1>4. TypeOK'
  BY <1>1, <1>2, <1>3 DEF TypeOK
<1>5. Turns'
  <2>1. mark <= Len(pushed) /\ mark \in Nat
    BY <1>1 DEF Turns, TypeOK
  <2>2. mark' <= Len(pushed)'
    BY <1>2, <1>3, <1>1, <2>1, Types
  <2> QED
    BY <1>1, <1>2, <2>2 DEF Turns, AtMostOne
<1>6. Fifo'
  <2> DEFINE ahead == (written \o current) \o remaining
  <2>1. ahead \in Seq(Messages) /\ log_queue \in Seq(Messages) /\ ahead \o log_queue = pushed
    BY <1>1, Types DEF Fifo
  <2>2. ahead' = ahead
    BY <1>2
  <2> HIDE DEF ahead
  <2>3. ahead \o Append(log_queue, m) = Append(pushed, m)
    BY <2>1, PushKeepsOrder
  <2>4. (ahead \o log_queue = pushed)'
    BY <1>2, <2>2, <2>3
  <2> QED
    BY <2>4 DEF Fifo, ahead
<1>7. StopFlushes'
  BY <1>1, <1>2 DEF StopFlushes
<1> QED
  BY <1>4, <1>5, <1>6, <1>7 DEF IInv

\* The log thread takes a message while stop() holds none, or leaves its loop.
LEMMA TakeStep ==
  ASSUME IInv, Take
  PROVE  IInv'
<1> USE MonitorAssumption, LogQueueAssumption
<1>1. TypeOK /\ Turns /\ Fifo /\ StopFlushes
  BY DEF IInv
<1>2. /\ pc[LogThread] = "take" /\ owner' = NoThread
      /\ UNCHANGED <<asleep, running, main, remaining, pushed, written, mark>>
  BY DEF Take
<1>3. /\ current = <<>>
      /\ main \notin {"draining", "writing", "stopped"}
      /\ remaining = <<>>
  BY <1>1, <1>2 DEF TypeOK, Turns
<1>4. CASE Pop /\ current' = <<Head(log_queue)>> /\ pc' = [pc EXCEPT ![LogThread] = "write"]
  <2>1. /\ log_queue # <<>> /\ log_queue' = Tail(log_queue)
        /\ Head(log_queue) \in Messages /\ Tail(log_queue) \in Seq(Messages)
    BY <1>1, <1>4, Types, HeadTailProperties DEF Pop
  <2>2. current' \in Seq(Messages) /\ current' # <<>>
    BY <1>4, <2>1
  <2>3. TypeOK'
    BY <1>1, <1>2, <1>4, <2>1, <2>2 DEF TypeOK
  <2>4. Turns'
    BY <1>1, <1>2, <1>3, <1>4, <2>1 DEF Turns, AtMostOne
  <2>5. Fifo'
    <3>1. written \o log_queue = pushed
      BY <1>1, <1>3, Types, ConcatEmptySeq DEF Fifo
    <3>2. (written \o <<Head(log_queue)>>) \o Tail(log_queue) = pushed
      BY <1>1, <2>1, <3>1, Types, TakeKeepsOrder
    <3>3. written \o <<Head(log_queue)>> \in Seq(Messages)
      BY <1>1, <1>4, <2>2, Types, ConcatProperties
    <3> QED
      BY <1>2, <1>3, <1>4, <2>1, <3>2, <3>3, ConcatEmptySeq DEF Fifo
  <2>6. StopFlushes'
    BY <1>1, <1>2 DEF StopFlushes
  <2> QED
    BY <2>3, <2>4, <2>5, <2>6 DEF IInv
<1>5. CASE UNCHANGED <<log_queue, current>> /\ pc' = [pc EXCEPT ![LogThread] = "loop"]
  <2>1. TypeOK'
    BY <1>1, <1>2, <1>3, <1>5 DEF TypeOK
  <2>2. Turns'
    BY <1>1, <1>2, <1>3, <1>5 DEF Turns, AtMostOne
  <2>3. Fifo' /\ StopFlushes'
    BY <1>1, <1>2, <1>5 DEF Fifo, StopFlushes
  <2> QED
    BY <2>1, <2>2, <2>3 DEF IInv
<1> QED
  BY <1>4, <1>5 DEF Take, Goto

\* The log thread writes the message it holds, which precedes all others.
LEMMA WriteStep ==
  ASSUME IInv, Write
  PROVE  IInv'
<1> USE MonitorAssumption, LogQueueAssumption
<1>1. TypeOK /\ Turns /\ Fifo /\ StopFlushes
  BY DEF IInv
<1>2. /\ pc[LogThread] = "write"
      /\ written' = written \o current /\ current' = <<>>
      /\ pc' = [pc EXCEPT ![LogThread] = "relock"]
      /\ UNCHANGED <<owner, asleep, log_queue, running, main, remaining, pushed, mark>>
  BY DEF Write, Goto
<1>3. main \notin {"draining", "writing", "stopped"}
  BY <1>1, <1>2 DEF Turns
<1>4. written' \in Seq(Messages) /\ current' \in Seq(Messages)
  BY <1>1, <1>2, Types, EmptySeq
<1>5. TypeOK'
  BY <1>1, <1>2, <1>4 DEF TypeOK
<1>6. Turns'
  BY <1>1, <1>2, <1>3 DEF Turns, AtMostOne
<1>7. Fifo'
  BY <1>1, <1>2, Types, ConcatEmptySeq DEF Fifo
<1>8. StopFlushes'
  BY <1>2, <1>3 DEF StopFlushes
<1> QED
  BY <1>5, <1>6, <1>7, <1>8 DEF IInv

\* run(), the steps of the log thread's lock and wait, and those of stop()
\* before the join: no message moves.
LEMMA QuietStep ==
  ASSUME IInv,
         \/ Run \/ Loop \/ Lock \/ Wait \/ WaitSpurious
         \/ StopStore \/ StopNotify \/ Join \/ UNCHANGED vars
  PROVE  IInv'
<1> USE MonitorAssumption, LogQueueAssumption
<1>1. TypeOK /\ Turns /\ Fifo /\ StopFlushes
  BY DEF IInv
<1>2. UNCHANGED <<log_queue, current, remaining, pushed, written>>
  BY DEF Run, Loop, Lock, Wait, WaitSpurious, StopStore, StopNotify, Join, queue, vars
<1>3. Fifo'
  BY <1>1, <1>2 DEF Fifo
<1>4. CASE Run
  <2>1. main = "new" /\ main' = "running" /\ running' = TRUE /\ UNCHANGED <<owner, asleep, mark>>
        /\ pc' = [pc EXCEPT ![LogThread] = "loop"]
    BY <1>4 DEF Run, Goto
  <2>2. current = <<>>
    BY <1>1, <2>1 DEF Turns, TypeOK
  <2>3. TypeOK'
    BY <1>1, <1>2, <2>1, <2>2 DEF TypeOK
  <2>4. Turns' /\ StopFlushes'
    BY <1>1, <1>2, <2>1 DEF Turns, AtMostOne, StopFlushes
  <2> QED
    BY <1>3, <2>3, <2>4 DEF IInv
<1>5. CASE Loop \/ Lock \/ Wait \/ WaitSpurious
  <2>1. UNCHANGED <<running, main, mark>>
    BY <1>5 DEF Loop, Lock, Wait, WaitSpurious
  <2>2. /\ owner' \in Threads \cup {NoThread}
        /\ asleep' \in SUBSET Threads
    BY <1>1, <1>5 DEF TypeOK, Loop, Lock, Wait, WaitSpurious, Acquire, Test, Sleep, Wake,
                      SpuriousWakeup
  <2>3. \/ pc' = pc
        \/ /\ pc[LogThread] \notin {"idle", "done", "write"}
           /\ \E label \in {"loop", "lock", "test", "sleep", "blocked", "take", "relock", "done"} :
                pc' = [pc EXCEPT ![LogThread] = label]
    BY <1>5 DEF Loop, Lock, Wait, WaitSpurious, Acquire, Test, Sleep, Wake, SpuriousWakeup, Goto
  <2>4. TypeOK'
    BY <1>1, <1>2, <2>1, <2>2, <2>3 DEF TypeOK
  <2>5. Turns'
    BY <1>1, <1>2, <2>1, <2>3 DEF Turns, AtMostOne, TypeOK
  <2>6. StopFlushes'
    BY <1>1, <1>2, <2>1 DEF StopFlushes
  <2> QED
    BY <1>3, <2>4, <2>5, <2>6 DEF IInv
<1>6. CASE StopStore
  <2>1. /\ main' = "stopping" /\ running' = FALSE /\ mark' = Len(pushed)
        /\ main \in {"new", "running"}
        /\ UNCHANGED <<owner, asleep, pc>>
    BY <1>6 DEF StopStore, monitor
  <2>2. Len(pushed) \in Nat
    BY <1>1, Types
  <2>3. TypeOK'
    BY <1>1, <1>2, <2>1, <2>2 DEF TypeOK
  <2>4. mark' <= Len(pushed)'
    BY <1>2, <2>1, <2>2
  <2>5. Turns' /\ StopFlushes'
    BY <1>1, <1>2, <2>1, <2>4 DEF Turns, AtMostOne, StopFlushes
  <2> QED
    BY <1>3, <2>3, <2>5 DEF IInv
<1>7. CASE StopNotify
  BY <1>1, <1>2, <1>3, <1>7
  DEF IInv, TypeOK, Turns, AtMostOne, StopFlushes, StopNotify, NotifyAll
<1>8. CASE Join
  BY <1>1, <1>2, <1>3, <1>8 DEF IInv, TypeOK, Turns, AtMostOne, StopFlushes, Join, monitor
<1>9. CASE UNCHANGED vars
  BY <1>1, <1>2, <1>3, <1>9 DEF IInv, TypeOK, Turns, AtMostOne, StopFlushes, vars, monitor
<1> QED
  BY <1>4, <1>5, <1>6, <1>7, <1>8, <1>9

\* stop() takes a message when the log thread holds none and never will, or
\* finds that all are written.
LEMMA DrainTakeStep ==
  ASSUME IInv, DrainTake
  PROVE  IInv'
<1> USE MonitorAssumption, LogQueueAssumption
<1>1. TypeOK /\ Turns /\ Fifo /\ StopFlushes
  BY DEF IInv
<1>2. /\ main = "draining"
      /\ UNCHANGED <<owner, asleep, pc, current, running, pushed, written, mark>>
  BY DEF DrainTake, monitor
<1>3. current = <<>> /\ remaining = <<>> /\ pc[LogThread] \in {"idle", "done"}
  BY <1>1, <1>2 DEF TypeOK, Turns
<1>4. written \o log_queue = pushed
  BY <1>1, <1>3, Types, ConcatEmptySeq DEF Fifo
<1>5. CASE Pop /\ remaining' = <<Head(log_queue)>> /\ main' = "writing"
  <2>1. /\ log_queue # <<>> /\ log_queue' = Tail(log_queue)
        /\ Head(log_queue) \in Messages /\ Tail(log_queue) \in Seq(Messages)
    BY <1>1, <1>5, Types, HeadTailProperties DEF Pop
  <2>2. remaining' \in Seq(Messages) /\ remaining' # <<>>
    BY <1>5, <2>1
  <2>3. TypeOK'
    BY <1>1, <1>2, <1>5, <2>1, <2>2 DEF TypeOK
  <2>4. Turns'
    BY <1>1, <1>2, <1>3, <1>5, <2>1 DEF Turns, AtMostOne
  <2>5. (written \o <<Head(log_queue)>>) \o Tail(log_queue) = pushed
    BY <1>1, <1>4, <2>1, Types, TakeKeepsOrder
  <2>6. Fifo'
    BY <1>1, <1>2, <1>3, <1>5, <2>1, <2>5, Types, ConcatEmptySeq DEF Fifo
  <2>7. StopFlushes'
    BY <1>5 DEF StopFlushes
  <2> QED
    BY <2>3, <2>4, <2>6, <2>7 DEF IInv
<1>6. CASE log_queue = <<>> /\ main' = "stopped" /\ UNCHANGED <<log_queue, remaining>>
  <2>1. written = pushed
    BY <1>1, <1>4, <1>6, Types, ConcatEmptySeq
  <2>2. StopFlushes'
    BY <1>1, <1>2, <2>1 DEF StopFlushes, Turns
  <2>3. TypeOK'
    BY <1>1, <1>2, <1>6 DEF TypeOK
  <2>4. Turns' /\ Fifo'
    BY <1>1, <1>2, <1>3, <1>6 DEF Turns, AtMostOne, Fifo
  <2> QED
    BY <2>2, <2>3, <2>4 DEF IInv
<1> QED
  BY <1>5, <1>6 DEF DrainTake

\* stop() writes the message it holds: the log thread holds none before it.
LEMMA DrainWriteStep ==
  ASSUME IInv, DrainWrite
  PROVE  IInv'
<1> USE MonitorAssumption, LogQueueAssumption
<1>1. TypeOK /\ Turns /\ Fifo /\ StopFlushes
  BY DEF IInv
<1>2. /\ main = "writing" /\ main' = "draining"
      /\ written' = written \o remaining /\ remaining' = <<>>
      /\ UNCHANGED <<owner, asleep, pc, log_queue, current, running, pushed, mark>>
  BY DEF DrainWrite, monitor
<1>3. current = <<>> /\ pc[LogThread] \in {"idle", "done"}
  BY <1>1, <1>2 DEF TypeOK, Turns
<1>4. written' \in Seq(Messages) /\ remaining' \in Seq(Messages)
  BY <1>1, <1>2, Types, ConcatProperties, EmptySeq
<1>5. TypeOK'
  BY <1>1, <1>2, <1>4 DEF TypeOK
<1>6. Turns'
  BY <1>1, <1>2, <1>3 DEF Turns, AtMostOne
<1>7. Fifo'
  <2>1. (written \o remaining) \o log_queue = pushed
    BY <1>1, <1>3, Types, ConcatEmptySeq DEF Fifo
  <2> QED
    BY <1>2, <1>3, <1>4, <2>1, ConcatEmptySeq DEF Fifo
<1>8. StopFlushes'
  BY <1>2 DEF StopFlushes
<1> QED
  BY <1>5, <1>6, <1>7, <1>8 DEF IInv

LEMMA NextIInv == IInv /\ [Next]_vars => IInv'
BY PushStep, TakeStep, WriteStep, QuietStep, DrainTakeStep, DrainWriteStep
DEF Next, LogThreadStep, StopStep

-----------------------------------------------------------------------------
\* The theorems

\* The strengthened invariant holds of every behaviour.
THEOREM Inductive == Spec => []IInv
BY InitIInv, NextIInv, PTL DEF Spec

\* Every variable of the log queue stays in its type.
THEOREM TypeCorrect == Spec => []TypeOK
<1>1. IInv => TypeOK
  BY DEF IInv
<1> QED
  BY <1>1, Inductive, PTL

\* The log thread and stop() lose, duplicate and reorder no message.
THEOREM FifoHolds == Spec => []Fifo
<1>1. IInv => Fifo
  BY DEF IInv
<1> QED
  BY <1>1, Inductive, PTL

\* When stop() has returned, every message pushed before it was called is
\* written.
THEOREM FlushHolds == Spec => []StopFlushes
<1>1. IInv => StopFlushes
  BY DEF IInv
<1> QED
  BY <1>1, Inductive, PTL

-----------------------------------------------------------------------------
\* The refinement

\* The empty queue is an empty log.
LEMMA InitMaps == Init => Ordered!Init
BY DEF Init, Ordered!Init

\* Whoever hands a message to the log hands over the next one.
LEMMA HandWrites ==
  ASSUME TypeOK, Fifo,
         \/ written' = written \o current /\ current # <<>> /\ AtMostOne(current)
         \/ written' = written \o remaining /\ remaining # <<>> /\ AtMostOne(remaining)
            /\ current = <<>>,
         UNCHANGED pushed
  PROVE  Ordered!Write
<1>1. PICK m \in Messages, q \in Seq(Messages) :
         /\ written' = written \o <<m>>
         /\ (written \o <<m>>) \o q = pushed
  <2>1. CASE written' = written \o current /\ current # <<>> /\ AtMostOne(current)
    <3>1. PICK m \in Messages : current = <<m>>
      BY <2>1 DEF AtMostOne
    <3>2. /\ written \o current \in Seq(Messages)
          /\ remaining \in Seq(Messages) /\ log_queue \in Seq(Messages)
      BY Types
    <3>3. \A a, b, c \in Seq(Messages) : a \o (b \o c) = (a \o b) \o c
      BY ConcatAssociative
    <3>4. remaining \o log_queue \in Seq(Messages)
      BY <3>2, ConcatProperties
    <3>5. (written \o current) \o (remaining \o log_queue) = pushed
      BY <3>2, <3>3 DEF Fifo
    <3>6. written' = written \o <<m>> /\ (written \o <<m>>) \o (remaining \o log_queue) = pushed
      BY <2>1, <3>1, <3>5
    <3> QED
      BY <3>4, <3>6
  <2>2. CASE written' = written \o remaining /\ remaining # <<>> /\ AtMostOne(remaining)
             /\ current = <<>>
    <3>1. PICK m \in Messages : remaining = <<m>>
      BY <2>2 DEF AtMostOne
    <3>2. (written \o remaining) \o log_queue = pushed
      BY <2>2, Types, ConcatEmptySeq DEF Fifo
    <3> QED
      BY <2>2, <3>1, <3>2, Types
  <2> QED
    BY <2>1, <2>2
<1>2. /\ written \o <<m>> = Append(written, m)
      /\ Len(written) < Len((written \o <<m>>) \o q)
      /\ ((written \o <<m>>) \o q)[Len(written) + 1] = m
  BY Types, WritesNext
<1> QED
  BY <1>1, <1>2 DEF Ordered!Write

\* Each step pushes a message, writes the next one, or is not seen.
LEMMA StepMaps == IInv /\ [Next]_vars => [Ordered!Next]_(Ordered!vars)
<1> SUFFICES ASSUME IInv, [Next]_vars PROVE [Ordered!Next]_(Ordered!vars)
  OBVIOUS
<1>1. TypeOK /\ Turns /\ Fifo
  BY DEF IInv
<1>2. ASSUME NEW m \in Messages, Push(m) PROVE Ordered!Push(m)
  BY <1>2 DEF Push, Ordered!Push
<1>3. ASSUME Write PROVE Ordered!Write
  <2>1. /\ written' = written \o current /\ current # <<>> /\ AtMostOne(current)
        /\ UNCHANGED pushed
    BY <1>1, <1>3 DEF Write, TypeOK, Turns
  <2> QED
    BY <1>1, <2>1, HandWrites
<1>4. ASSUME DrainWrite PROVE Ordered!Write
  <2>1. /\ written' = written \o remaining /\ remaining # <<>> /\ AtMostOne(remaining)
        /\ current = <<>>
        /\ UNCHANGED pushed
    BY <1>1, <1>4 DEF DrainWrite, TypeOK, Turns
  <2> QED
    BY <1>1, <2>1, HandWrites
<1>5. ASSUME \/ Run \/ Loop \/ Lock \/ Wait \/ WaitSpurious \/ Take
             \/ StopStore \/ StopNotify \/ Join \/ DrainTake \/ UNCHANGED vars
      PROVE  UNCHANGED Ordered!vars
  BY <1>5 DEF Run, Loop, Lock, Wait, WaitSpurious, Take, StopStore, StopNotify, Join,
              DrainTake, queue, vars, Ordered!vars
<1> QED
  BY <1>2, <1>3, <1>4, <1>5 DEF Next, LogThreadStep, StopStep, Ordered!Next

\* LogQueue implements MessageLog, whatever the interleaving of push, the log
\* thread and stop().
THEOREM Implements == Spec => WritesInOrder
BY InitMaps, StepMaps, Inductive, PTL DEF Spec, WritesInOrder, Ordered!Spec
=============================================================================
