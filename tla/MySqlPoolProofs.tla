--------------------------- MODULE MySqlPoolProofs ---------------------------
(***************************************************************************)
(* Proofs about MySqlPool, for any threads, any connections and any number *)
(* of calls, before and after close().                                     *)
(*                                                                         *)
(* That the pool lends exclusively rests on the mutex (LockInv), on when a *)
(* query runs (HoldInv), and on front() finding a connection (NoEmptyPop). *)
(***************************************************************************)
EXTENDS MySqlPool, FiniteSetTheorems, SequenceTheorems, TLAPS

\* A thread holds the mutex exactly between its lock and its unlock.
LockInv == \A t \in Threads : owner = t <=> pc[t] \in {"test", "sleep", "take"}

\* A thread has a connection exactly while its query runs.
HoldInv == \A t \in Threads : conn[t] # NoConn <=> pc[t] = "using"

\* The connection the test has found is still there when it is taken.
NoEmptyPop == \A t \in Threads : pc[t] = "take" => available # <<>>

Elements(s) == {s[i] : i \in DOMAIN s}

\* A connection is queued once, or lent to one thread, or gone.
ExclusiveLoan ==
  /\ IsDuplicateFree(available)
  /\ \A t \in Threads : conn[t] \notin Elements(available)
  /\ \A t, u \in Threads : conn[t] = conn[u] /\ t # u => conn[t] = NoConn

IInv == TypeOK /\ LockInv /\ HoldInv /\ NoEmptyPop /\ ExclusiveLoan

-----------------------------------------------------------------------------
\* Queues without duplicates

\* front() and pop() remove one element, and no other copy of it.
LEMMA PopOne ==
  ASSUME NEW S, NEW s \in Seq(S), s # <<>>, IsDuplicateFree(s)
  PROVE  /\ Head(s) \in S /\ Head(s) \in Elements(s)
         /\ Tail(s) \in Seq(S) /\ IsDuplicateFree(Tail(s))
         /\ Elements(Tail(s)) = Elements(s) \ {Head(s)}
<1>1. /\ Head(s) \in S /\ Head(s) = s[1]
      /\ Tail(s) \in Seq(S)
      /\ DOMAIN Tail(s) = 1 .. Len(s) - 1
      /\ \A i \in 1 .. Len(s) - 1 : Tail(s)[i] = s[i + 1]
  BY HeadTailProperties, LenProperties
<1>2. Len(s) \in Nat \ {0} /\ DOMAIN s = 1 .. Len(s)
  BY EmptySeq, LenProperties
<1>3. \A j \in DOMAIN s : j = 1 \/ (j - 1 \in DOMAIN Tail(s) /\ s[j] = Tail(s)[j - 1])
  BY <1>1, <1>2
<1>4. \A i \in DOMAIN Tail(s) : i + 1 \in DOMAIN s /\ i + 1 # 1 /\ Tail(s)[i] = s[i + 1]
  BY <1>1, <1>2
<1>5. IsDuplicateFree(Tail(s))
  BY <1>1, <1>4 DEF IsDuplicateFree
<1>6. 1 \in DOMAIN s
  BY <1>2
<1>7. Elements(Tail(s)) \subseteq Elements(s) \ {Head(s)}
  <2> SUFFICES ASSUME NEW i \in DOMAIN Tail(s)
               PROVE  Tail(s)[i] \in Elements(s) /\ Tail(s)[i] # Head(s)
    BY DEF Elements
  <2>1. i + 1 \in DOMAIN s /\ i + 1 # 1 /\ Tail(s)[i] = s[i + 1]
    BY <1>4
  <2>2. s[i + 1] # s[1]
    BY <1>6, <2>1 DEF IsDuplicateFree
  <2> QED
    BY <1>1, <2>1, <2>2 DEF Elements
<1>8. Elements(s) \ {Head(s)} \subseteq Elements(Tail(s))
  <2> SUFFICES ASSUME NEW j \in DOMAIN s, s[j] # Head(s)
               PROVE  s[j] \in Elements(Tail(s))
    BY DEF Elements
  <2>1. j - 1 \in DOMAIN Tail(s) /\ s[j] = Tail(s)[j - 1]
    BY <1>1, <1>3
  <2> QED
    BY <2>1 DEF Elements
<1> QED
  BY <1>1, <1>5, <1>6, <1>7, <1>8 DEF Elements

\* push() adds one element; if it is new there are still no duplicates.
LEMMA PushOne ==
  ASSUME NEW S, NEW s \in Seq(S), NEW e \in S, IsDuplicateFree(s), e \notin Elements(s)
  PROVE  /\ Append(s, e) \in Seq(S) /\ IsDuplicateFree(Append(s, e))
         /\ Elements(Append(s, e)) = Elements(s) \cup {e}
<1>1. /\ Append(s, e) \in Seq(S)
      /\ DOMAIN Append(s, e) = 1 .. Len(s) + 1
      /\ \A i \in 1 .. Len(s) : Append(s, e)[i] = s[i]
      /\ Append(s, e)[Len(s) + 1] = e
      /\ Len(s) \in Nat /\ DOMAIN s = 1 .. Len(s)
  BY AppendProperties, LenProperties
<1>2. \A i \in DOMAIN Append(s, e) :
        \/ i = Len(s) + 1 /\ Append(s, e)[i] = e
        \/ i \in DOMAIN s /\ Append(s, e)[i] = s[i]
  BY <1>1
<1>3. DOMAIN s \subseteq DOMAIN Append(s, e) /\ Len(s) + 1 \in DOMAIN Append(s, e)
  BY <1>1
<1>4. IsDuplicateFree(Append(s, e))
  BY <1>2 DEF IsDuplicateFree, Elements
<1>5. Elements(Append(s, e)) \subseteq Elements(s) \cup {e}
  BY <1>2 DEF Elements
<1>6. Elements(s) \cup {e} \subseteq Elements(Append(s, e))
  BY <1>1, <1>3 DEF Elements
<1> QED
  BY <1>1, <1>4, <1>5, <1>6

-----------------------------------------------------------------------------
\* The inductive invariant

LEMMA InitIInv == Init => IInv
<1> SUFFICES ASSUME Init PROVE IInv
  OBVIOUS
<1> USE MonitorAssumption, MySqlPoolAssumption DEF Init, MonitorInit
<1>1. available \in Seq(Conns) /\ IsDuplicateFree(available)
  OBVIOUS
<1>2. Elements(available) \subseteq Conns
  BY <1>1, ElementOfSeq, LenProperties DEF Elements
<1>3. TypeOK
  BY <1>1 DEF TypeOK, Labels
<1>4. LockInv /\ HoldInv /\ NoEmptyPop /\ ExclusiveLoan
  BY <1>1, <1>2 DEF LockInv, HoldInv, NoEmptyPop, ExclusiveLoan
<1> QED
  BY <1>3, <1>4 DEF IInv

\* What getConnection does to the queue and the loans.
LEMMA TakeLends ==
  ASSUME IInv, NEW t \in Threads, Take(t)
  PROVE  /\ Head(available) \in Conns /\ Head(available) \in Elements(available)
         /\ available' \in Seq(Conns) /\ IsDuplicateFree(available')
         /\ Elements(available') = Elements(available) \ {Head(available)}
         /\ conn[t] = NoConn
         /\ conn' = [conn EXCEPT ![t] = Head(available)]
<1>1. available \in Seq(Conns) /\ available # <<>> /\ IsDuplicateFree(available)
  BY DEF IInv, TypeOK, NoEmptyPop, ExclusiveLoan, Take
<1>2. /\ Head(available) \in Conns /\ Head(available) \in Elements(available)
      /\ Tail(available) \in Seq(Conns) /\ IsDuplicateFree(Tail(available))
      /\ Elements(Tail(available)) = Elements(available) \ {Head(available)}
  BY <1>1, PopOne
<1> QED
  BY <1>2 DEF Take, IInv, HoldInv

\* What releaseConnection does to the queue and the loans.
LEMMA ReleaseReturns ==
  ASSUME IInv, NEW t \in Threads, Release(t)
  PROVE  /\ conn[t] \in Conns
         /\ available' \in Seq(Conns) /\ IsDuplicateFree(available')
         /\ Elements(available') = Elements(available) \cup {conn[t]}
         /\ conn' = [conn EXCEPT ![t] = NoConn]
<1>1. available \in Seq(Conns) /\ IsDuplicateFree(available)
      /\ conn[t] \in Conns /\ conn[t] \notin Elements(available)
  BY DEF IInv, TypeOK, HoldInv, ExclusiveLoan, Release
<1>2. /\ Append(available, conn[t]) \in Seq(Conns)
      /\ IsDuplicateFree(Append(available, conn[t]))
      /\ Elements(Append(available, conn[t])) = Elements(available) \cup {conn[t]}
  BY <1>1, PushOne
<1> QED
  BY <1>1, <1>2 DEF Release

LEMMA TypeStep == IInv /\ [Next]_vars => TypeOK'
<1> SUFFICES ASSUME IInv, [Next]_vars PROVE TypeOK'
  OBVIOUS
<1> USE DEF TypeOK, Labels, Goto
<1>1. TypeOK
  BY DEF IInv
<1>2. ASSUME NEW t \in Threads, Call(t) PROVE TypeOK'
  BY <1>1, <1>2 DEF Call
<1>3. ASSUME NEW t \in Threads, Lock(t) PROVE TypeOK'
  BY <1>1, <1>3 DEF Lock, Acquire
<1>4. ASSUME NEW t \in Threads, Wait(t) PROVE TypeOK'
  BY <1>1, <1>4 DEF Wait, Test, Sleep, Wake, Acquire
<1>5. ASSUME NEW t \in Threads, WaitSpurious(t) PROVE TypeOK'
  BY <1>1, <1>5 DEF WaitSpurious, SpuriousWakeup
<1>6. ASSUME NEW t \in Threads, Take(t) PROVE TypeOK'
  <2>1. available' \in Seq(Conns) /\ conn' \in [Threads -> Conns \cup {NoConn}]
    BY <1>1, <1>6, TakeLends
  <2> QED
    BY <1>1, <1>6, <2>1 DEF Take
<1>7. ASSUME NEW t \in Threads, Release(t) PROVE TypeOK'
  <2>1. available' \in Seq(Conns)
    BY <1>7, ReleaseReturns
  <2> QED
    BY <1>1, <1>7, <2>1 DEF Release, NotifyOne
<1>8. ASSUME NEW t \in Threads, Drop(t) PROVE TypeOK'
  BY <1>1, <1>8 DEF Drop
<1>9. CASE Close
  BY <1>1, <1>9, EmptySeq DEF Close, NotifyAll
<1>10. CASE UNCHANGED vars
  BY <1>1, <1>10 DEF vars, monitor
<1> QED
  BY <1>2, <1>3, <1>4, <1>5, <1>6, <1>7, <1>8, <1>9, <1>10 DEF Next, Proceed

\* The mutex, the borrowed connections and the found ones follow the labels.
LEMMA ControlStep == IInv /\ [Next]_vars => LockInv' /\ HoldInv' /\ NoEmptyPop'
<1> DEFINE Control == LockInv /\ HoldInv /\ NoEmptyPop
<1> SUFFICES ASSUME IInv, [Next]_vars PROVE Control'
  OBVIOUS
<1> USE MonitorAssumption, MySqlPoolAssumption
    DEF LockInv, HoldInv, NoEmptyPop, Goto, TypeOK, Labels
<1>1. TypeOK /\ Control
  BY DEF IInv
<1>2. ASSUME NEW t \in Threads, Call(t) PROVE Control'
  BY <1>1, <1>2 DEF Call
<1>3. ASSUME NEW t \in Threads, Lock(t) PROVE Control'
  BY <1>1, <1>3 DEF Lock, Acquire
<1>4. ASSUME NEW t \in Threads, Wait(t) PROVE Control'
  BY <1>1, <1>4 DEF Wait, Test, Sleep, Wake, Acquire
<1>5. ASSUME NEW t \in Threads, WaitSpurious(t) PROVE Control'
  BY <1>1, <1>5 DEF WaitSpurious, SpuriousWakeup
<1>6. ASSUME NEW t \in Threads, Take(t) PROVE Control'
  <2>1. conn' = [conn EXCEPT ![t] = Head(available)] /\ Head(available) # NoConn
    BY <1>6, TakeLends
  <2> QED
    BY <1>1, <1>6, <2>1 DEF Take
<1>7. ASSUME NEW t \in Threads, Release(t) PROVE Control'
  BY <1>1, <1>7 DEF Release, NotifyOne
<1>8. ASSUME NEW t \in Threads, Drop(t) PROVE Control'
  BY <1>1, <1>8 DEF Drop
<1>9. CASE Close
  BY <1>1, <1>9 DEF Close, NotifyAll
<1>10. CASE UNCHANGED vars
  BY <1>1, <1>10 DEF vars, monitor
<1> QED
  BY <1>2, <1>3, <1>4, <1>5, <1>6, <1>7, <1>8, <1>9, <1>10 DEF Next, Proceed

LEMMA LoanStep == IInv /\ [Next]_vars => ExclusiveLoan'
<1> SUFFICES ASSUME IInv, [Next]_vars PROVE ExclusiveLoan'
  OBVIOUS
<1>1. conn \in [Threads -> Conns \cup {NoConn}] /\ available \in Seq(Conns) /\ ExclusiveLoan
  BY DEF IInv, TypeOK
<1>2. NoConn \notin Elements(available)
  BY <1>1, MySqlPoolAssumption, ElementOfSeq, LenProperties DEF Elements
<1>3. CASE UNCHANGED <<available, conn>>
  BY <1>1, <1>3 DEF ExclusiveLoan, IsDuplicateFree, Elements
<1>4. ASSUME NEW t \in Threads, Take(t) PROVE ExclusiveLoan'
  <2>1. /\ Head(available) \in Elements(available) /\ IsDuplicateFree(available)'
        /\ Elements(available)' = Elements(available) \ {Head(available)}
        /\ conn' = [conn EXCEPT ![t] = Head(available)]
    BY <1>4, TakeLends DEF IsDuplicateFree, Elements
  <2> QED
    BY <1>1, <1>2, <2>1 DEF ExclusiveLoan
<1>5. ASSUME NEW t \in Threads, Release(t) PROVE ExclusiveLoan'
  <2>1. /\ conn[t] \in Conns /\ IsDuplicateFree(available)'
        /\ Elements(available)' = Elements(available) \cup {conn[t]}
        /\ conn' = [conn EXCEPT ![t] = NoConn]
    BY <1>5, ReleaseReturns DEF IsDuplicateFree, Elements
  <2> QED
    BY <1>1, <1>2, <2>1, MySqlPoolAssumption DEF ExclusiveLoan
<1>6. ASSUME NEW t \in Threads, Drop(t) PROVE ExclusiveLoan'
  <2>1. UNCHANGED available /\ conn' = [conn EXCEPT ![t] = NoConn]
    BY <1>6 DEF Drop
  <2>2. IsDuplicateFree(available)' /\ Elements(available)' = Elements(available)
    BY <1>1, <2>1 DEF ExclusiveLoan, IsDuplicateFree, Elements
  <2> QED
    BY <1>1, <1>2, <2>1, <2>2 DEF ExclusiveLoan
<1>7. CASE Close
  BY <1>1, <1>7 DEF Close, ExclusiveLoan, IsDuplicateFree, Elements
<1>8. ASSUME NEW t \in Threads, Call(t) \/ Lock(t) \/ Wait(t) \/ WaitSpurious(t)
      PROVE  ExclusiveLoan'
  BY <1>3, <1>8 DEF Call, Lock, Wait, WaitSpurious
<1>9. CASE UNCHANGED vars
  BY <1>3, <1>9 DEF vars
<1> QED
  BY <1>4, <1>5, <1>6, <1>7, <1>8, <1>9 DEF Next, Proceed

-----------------------------------------------------------------------------
\* IInv holds in every reachable state of the pool.
THEOREM Inductive == Spec => []IInv
<1>1. IInv /\ [Next]_vars => IInv'
  BY TypeStep, ControlStep, LoanStep DEF IInv
<1> QED
  BY InitIInv, <1>1, PTL DEF Spec

\* The variables of the pool and its callers keep their types.
THEOREM TypeCorrect == Spec => []TypeOK
BY Inductive, PTL DEF IInv

-----------------------------------------------------------------------------
\* No wakeup is lost

\* Threads that have been notified, or are past the test, and will take one.
Awake == {t \in Threads : \/ pc[t] \in {"test", "take"}
                          \/ pc[t] = "blocked" /\ t \notin asleep}

\* While a thread sleeps, each queued connection has a thread on its way to it,
\* also in the queue of a closed pool, which only releases fill again.
NoLostWakeup == asleep # {} => Len(available) <= Cardinality(Awake)

\* The queue stays empty from the test that found it empty until its thread
\* sleeps; only threads in the wait are to be notified.
SleepInv == \A t \in Threads :
  /\ pc[t] = "sleep" => available = <<>>
  /\ t \in asleep => pc[t] = "blocked"

LEMMA SleepStep == IInv /\ SleepInv /\ [Next]_vars => SleepInv'
<1> SUFFICES ASSUME IInv, SleepInv, [Next]_vars PROVE SleepInv'
  OBVIOUS
<1> USE MonitorAssumption DEF SleepInv, Goto
<1>1. LockInv /\ DOMAIN pc = Threads
  BY DEF IInv, TypeOK
<1>2. ASSUME NEW t \in Threads, Call(t) \/ Lock(t) PROVE SleepInv'
  BY <1>1, <1>2 DEF Call, Lock, Acquire
<1>3. ASSUME NEW t \in Threads, Wait(t) \/ WaitSpurious(t) PROVE SleepInv'
  BY <1>1, <1>3 DEF Wait, Test, Sleep, Wake, Acquire, WaitSpurious, SpuriousWakeup
<1>4. ASSUME NEW t \in Threads, Take(t) PROVE SleepInv'
  BY <1>1, <1>4 DEF Take, LockInv
<1>5. ASSUME NEW t \in Threads, Drop(t) PROVE SleepInv'
  BY <1>1, <1>5 DEF Drop
<1>6. ASSUME NEW t \in Threads, Release(t) PROVE SleepInv'
  <2>1. asleep' \subseteq asleep
    BY <1>6 DEF Release, NotifyOne
  <2>2. \A u \in Threads : pc[u] # "sleep"
    BY <1>1, <1>6 DEF Release, LockInv
  <2> QED
    BY <1>1, <1>6, <2>1, <2>2 DEF Release
<1>7. CASE Close
  BY <1>7 DEF Close, NotifyAll
<1>8. CASE UNCHANGED vars
  BY <1>8 DEF vars, monitor
<1> QED
  BY <1>2, <1>3, <1>4, <1>5, <1>6, <1>7, <1>8 DEF Next, Proceed

LEMMA WakeupStep == IInv /\ SleepInv /\ NoLostWakeup /\ [Next]_vars => NoLostWakeup'
<1> SUFFICES ASSUME IInv, SleepInv, NoLostWakeup, [Next]_vars, asleep' # {}
             PROVE  Len(available') <= Cardinality(Awake')
  BY DEF NoLostWakeup
<1> USE DEF Goto
<1>1. /\ LockInv /\ DOMAIN pc = Threads /\ asleep \subseteq Threads
      /\ available \in Seq(Conns) /\ Len(available) \in Nat
  BY LenProperties DEF IInv, TypeOK
<1>2. /\ IsFiniteSet(Awake) /\ Cardinality(Awake) \in Nat
      /\ IsFiniteSet(Awake') /\ Cardinality(Awake') \in Nat
  BY MySqlPoolAssumption, FS_Subset, FS_CardinalityType DEF Awake
<1>3. asleep # {} => Len(available) <= Cardinality(Awake)
  BY DEF NoLostWakeup
<1>4. ASSUME available' = available, asleep # {}, Awake \subseteq Awake'
      PROVE  Len(available') <= Cardinality(Awake')
  <2>1. Cardinality(Awake) <= Cardinality(Awake')
    BY <1>2, <1>4, FS_Subset
  <2> QED
    BY <1>1, <1>2, <1>3, <1>4, <2>1
<1>5. ASSUME available' = <<>> PROVE Len(available') <= Cardinality(Awake')
  BY <1>2, <1>5
<1>6. ASSUME NEW t \in Threads, Call(t) \/ Lock(t) \/ Wake(t) \/ WaitSpurious(t),
             available' = available
      PROVE  Len(available') <= Cardinality(Awake')
  <2>1. asleep # {}
    BY <1>6 DEF Call, Lock, Acquire, Wake, WaitSpurious, SpuriousWakeup
  <2>2. Awake \subseteq Awake'
    BY <1>1, <1>6 DEF Awake, Call, Lock, Acquire, Wake, WaitSpurious, SpuriousWakeup, SleepInv
  <2> QED
    BY <1>4, <1>6, <2>1, <2>2
<1>7. ASSUME NEW t \in Threads, Test(t, available # <<>>), available' = available
      PROVE  Len(available') <= Cardinality(Awake')
  <2>1. asleep # {}
    BY <1>7 DEF Test
  <2>2. CASE available = <<>>
    BY <1>5, <1>7, <2>2
  <2>3. CASE available # <<>>
    <3>1. Awake \subseteq Awake'
      BY <1>1, <1>7, <2>3 DEF Awake, Test
    <3> QED
      BY <1>4, <1>7, <2>1, <3>1
  <2> QED
    BY <2>2, <2>3
<1>8. ASSUME NEW t \in Threads, Sleep(t), available' = available
      PROVE  Len(available') <= Cardinality(Awake')
  BY <1>5, <1>8 DEF Sleep, SleepInv
<1>9. ASSUME NEW t \in Threads, Wait(t) PROVE Len(available') <= Cardinality(Awake')
  BY <1>6, <1>7, <1>8, <1>9 DEF Wait
<1>10. ASSUME NEW t \in Threads, Take(t) PROVE Len(available') <= Cardinality(Awake')
  <2>1. asleep # {} /\ pc[t] = "take" /\ asleep' = asleep /\ pc' = [pc EXCEPT ![t] = "using"]
    BY <1>10 DEF Take
  <2>2. Len(available') = Len(available) - 1
    BY <1>1, <1>10, HeadTailProperties DEF Take, IInv, NoEmptyPop
  <2>3. Awake' = Awake \ {t} /\ t \in Awake
    BY <1>1, <2>1 DEF Awake
  <2>4. Cardinality(Awake') = Cardinality(Awake) - 1
    BY <1>2, <2>3, FS_RemoveElement
  <2> QED
    BY <1>1, <1>2, <1>3, <2>1, <2>2, <2>4
<1>11. ASSUME NEW t \in Threads, Release(t) PROVE Len(available') <= Cardinality(Awake')
  <2>1. PICK u \in asleep : asleep' = asleep \ {u}
    BY <1>11 DEF Release, NotifyOne
  <2>2. pc[u] = "blocked" /\ u \in Threads
    BY <1>1, <2>1 DEF SleepInv
  <2>3. pc[t] = "using" /\ pc' = [pc EXCEPT ![t] = "idle"]
    BY <1>11 DEF Release
  <2>4. Awake' = Awake \cup {u} /\ u \notin Awake
    BY <1>1, <2>1, <2>2, <2>3 DEF Awake
  <2>5. Cardinality(Awake') = Cardinality(Awake) + 1
    BY <1>2, <2>4, FS_AddElement
  <2>6. Len(available') = Len(available) + 1
    BY <1>1, <1>11, ReleaseReturns, AppendProperties DEF Release
  <2> QED
    BY <1>1, <1>2, <1>3, <2>1, <2>5, <2>6
<1>12. ASSUME NEW t \in Threads, Drop(t) PROVE Len(available') <= Cardinality(Awake')
  <2>1. available' = available /\ asleep # {}
    BY <1>12 DEF Drop
  <2>2. Awake \subseteq Awake'
    BY <1>1, <1>12 DEF Awake, Drop
  <2> QED
    BY <1>4, <2>1, <2>2
<1>13. CASE Close
  BY <1>13 DEF Close, NotifyAll
<1>14. CASE UNCHANGED vars
  <2>1. available' = available /\ asleep # {} /\ Awake' = Awake
    BY <1>14 DEF vars, monitor, Awake
  <2> QED
    BY <1>4, <2>1
<1>15. ASSUME NEW t \in Threads, Call(t) \/ Lock(t) \/ WaitSpurious(t)
       PROVE  Len(available') <= Cardinality(Awake')
  BY <1>6, <1>15 DEF Call, Lock, WaitSpurious
<1> QED
  BY <1>9, <1>10, <1>11, <1>12, <1>13, <1>14, <1>15 DEF Next, Proceed

\* No wakeup is lost in getConnection, before or after close(): notify_one is
\* called once for each connection released.
THEOREM NoWakeupLost == Spec => []NoLostWakeup
<1>1. Init => SleepInv /\ NoLostWakeup
  BY DEF Init, MonitorInit, SleepInv, NoLostWakeup
<1>2. IInv /\ SleepInv /\ NoLostWakeup /\ [Next]_vars => SleepInv' /\ NoLostWakeup'
  BY SleepStep, WakeupStep
<1> QED
  BY Inductive, <1>1, <1>2, PTL DEF Spec

-----------------------------------------------------------------------------
\* Refinement of ConnectionPool

\* The constructor's connections are idle.
LEMMA InitMaps == Init => Lending!Init
<1> SUFFICES ASSUME Init PROVE Lending!Init
  OBVIOUS
<1>1. available \in Seq(Conns)
  BY InitIInv DEF IInv, TypeOK
<1> QED
  BY <1>1, ElementOfSeq, LenProperties DEF Init, Lending!Init

\* Each step lends, takes back, drops or empties, or is not seen.
LEMMA StepMaps == IInv /\ [Next]_vars => [Lending!Next]_(Lending!vars)
<1> SUFFICES ASSUME IInv, [Next]_vars PROVE [Lending!Next]_(Lending!vars)
  OBVIOUS
<1>1. CASE UNCHANGED <<available, conn>>
  BY <1>1 DEF Lending!vars
<1>2. ASSUME NEW t \in Threads, Take(t) PROVE Lending!Borrow(t)
  BY <1>2, TakeLends DEF Lending!Borrow, Elements
<1>3. ASSUME NEW t \in Threads, Release(t) PROVE Lending!GiveBack(t)
  BY <1>3, ReleaseReturns, MySqlPoolAssumption DEF Lending!GiveBack, Elements
<1>4. ASSUME NEW t \in Threads, Drop(t) PROVE Lending!Drop(t)
  BY <1>4 DEF Drop, Lending!Drop
<1>5. CASE Close
  BY <1>5 DEF Close, Lending!Empty, Lending!Next
<1>6. ASSUME NEW t \in Threads, Call(t) \/ Lock(t) \/ Wait(t) \/ WaitSpurious(t)
      PROVE  UNCHANGED <<available, conn>>
  BY <1>6 DEF Call, Lock, Wait, WaitSpurious
<1>7. CASE UNCHANGED vars
  BY <1>1, <1>7 DEF vars
<1> QED
  BY <1>1, <1>2, <1>3, <1>4, <1>5, <1>6, <1>7 DEF Next, Proceed, Lending!Next

\* MySqlPool implements exclusive lending, whatever the interleaving of
\* getConnection, releaseConnection, dropped connections and close().
THEOREM Implements == Spec => LendsExclusively
BY InitMaps, StepMaps, Inductive, PTL DEF Spec, LendsExclusively, Lending!Spec
=============================================================================
