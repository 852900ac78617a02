------------------------- MODULE gRPCServerPoolProofs -------------------------
(***************************************************************************)
(* Proofs about gRPCServerPool, for any threads, any stubs and any number  *)
(* of calls, with stop() at any moment.                                    *)
(*                                                                         *)
(* AtMostOneStranded is not inductive: it depends on who holds the mutex   *)
(* (LockInv), and on how far stop() has come (StopInv).                    *)
(***************************************************************************)
EXTENDS gRPCServerPool, FiniteSetTheorems, SequenceTheorems, TLAPS

\* A thread holds the mutex exactly between its lock and its unlock.
LockInv == \A t \in Threads : owner = t <=> pc[t] \in {"test", "sleep", "take"}

\* A thread has a stub exactly while it uses it.
HoldInv == \A t \in Threads : stub[t] # NoStub <=> pc[t] = "using"

\* The stub the test has found is still there when it is taken.
NoEmptyPop == \A t \in Threads : pc[t] = "take" => stub_pool # <<>> \/ is_stop

\* After the notify_all of stop() no two threads sleep or are about to.
Stranded == asleep \cup {t \in Threads : pc[t] = "sleep"}
StopInv ==
  /\ is_stop <=> stopper # "open"
  /\ stopper = "stopped" => \A t, u \in Stranded : t = u

Elements(s) == {s[i] : i \in DOMAIN s}

\* A stub is queued once, or lent to one thread, or gone.
ExclusiveLoan ==
  /\ IsDuplicateFree(stub_pool)
  /\ \A t \in Threads : stub[t] \notin Elements(stub_pool)
  /\ \A t, u \in Threads : stub[t] = stub[u] /\ t # u => stub[t] = NoStub

IInv == TypeOK /\ LockInv /\ HoldInv /\ NoEmptyPop /\ StopInv /\ ExclusiveLoan

-----------------------------------------------------------------------------
\* Queues without duplicates

\* front() and pop() remove one element, and no other copy of it.
LEMMA PopOne ==
  ASSUME NEW S, NEW s \in Seq(S), s # <<>>, IsDuplicateFree(s)
  PROVE  /\ Head(s) \in S /\ Head(s) \in Elements(s)
         /\ Tail(s) \in Seq(S) /\ IsDuplicateFree(Tail(s))
         /\ Elements(Tail(s)) = Elements(s) \ {Head(s)}
<1>1. /\ Head(s) \in S /\ Head(s) = s[1]
      /\ Tail(s) \in Seq(S)
      /\ DOMAIN Tail(s) = 1 .. Len(s) - 1
      /\ \A i \in 1 .. Len(s) - 1 : Tail(s)[i] = s[i + 1]
  BY HeadTailProperties, LenProperties
<1>2. Len(s) \in Nat \ {0} /\ DOMAIN s = 1 .. Len(s)
  BY EmptySeq, LenProperties
<1>3. \A j \in DOMAIN s : j = 1 \/ (j - 1 \in DOMAIN Tail(s) /\ s[j] = Tail(s)[j - 1])
  BY <1>1, <1>2
<1>4. \A i \in DOMAIN Tail(s) : i + 1 \in DOMAIN s /\ i + 1 # 1 /\ Tail(s)[i] = s[i + 1]
  BY <1>1, <1>2
<1>5. IsDuplicateFree(Tail(s))
  BY <1>1, <1>4 DEF IsDuplicateFree
<1>6. 1 \in DOMAIN s
  BY <1>2
<1>7. Elements(Tail(s)) \subseteq Elements(s) \ {Head(s)}
  <2> SUFFICES ASSUME NEW i \in DOMAIN Tail(s)
               PROVE  Tail(s)[i] \in Elements(s) /\ Tail(s)[i] # Head(s)
    BY DEF Elements
  <2>1. i + 1 \in DOMAIN s /\ i + 1 # 1 /\ Tail(s)[i] = s[i + 1]
    BY <1>4
  <2>2. s[i + 1] # s[1]
    BY <1>6, <2>1 DEF IsDuplicateFree
  <2> QED
    BY <1>1, <2>1, <2>2 DEF Elements
<1>8. Elements(s) \ {Head(s)} \subseteq Elements(Tail(s))
  <2> SUFFICES ASSUME NEW j \in DOMAIN s, s[j] # Head(s)
               PROVE  s[j] \in Elements(Tail(s))
    BY DEF Elements
  <2>1. j - 1 \in DOMAIN Tail(s) /\ s[j] = Tail(s)[j - 1]
    BY <1>1, <1>3
  <2> QED
    BY <2>1 DEF Elements
<1> QED
  BY <1>1, <1>5, <1>6, <1>7, <1>8 DEF Elements

\* push() adds one element; if it is new there are still no duplicates.
LEMMA PushOne ==
  ASSUME NEW S, NEW s \in Seq(S), NEW e \in S, IsDuplicateFree(s), e \notin Elements(s)
  PROVE  /\ Append(s, e) \in Seq(S) /\ IsDuplicateFree(Append(s, e))
         /\ Elements(Append(s, e)) = Elements(s) \cup {e}
<1>1. /\ Append(s, e) \in Seq(S)
      /\ DOMAIN Append(s, e) = 1 .. Len(s) + 1
      /\ \A i \in 1 .. Len(s) : Append(s, e)[i] = s[i]
      /\ Append(s, e)[Len(s) + 1] = e
      /\ Len(s) \in Nat /\ DOMAIN s = 1 .. Len(s)
  BY AppendProperties, LenProperties
<1>2. \A i \in DOMAIN Append(s, e) :
        \/ i = Len(s) + 1 /\ Append(s, e)[i] = e
        \/ i \in DOMAIN s /\ Append(s, e)[i] = s[i]
  BY <1>1
<1>3. DOMAIN s \subseteq DOMAIN Append(s, e) /\ Len(s) + 1 \in DOMAIN Append(s, e)
  BY <1>1
<1>4. IsDuplicateFree(Append(s, e))
  BY <1>2 DEF IsDuplicateFree, Elements
<1>5. Elements(Append(s, e)) \subseteq Elements(s) \cup {e}
  BY <1>2 DEF Elements
<1>6. Elements(s) \cup {e} \subseteq Elements(Append(s, e))
  BY <1>1, <1>3 DEF Elements
<1> QED
  BY <1>1, <1>4, <1>5, <1>6

-----------------------------------------------------------------------------
\* The inductive invariant

LEMMA InitIInv == Init => IInv
<1> SUFFICES ASSUME Init PROVE IInv
  OBVIOUS
<1> USE MonitorAssumption, gRPCServerPoolAssumption DEF Init, MonitorInit
<1>1. stub_pool \in Seq(Stubs) /\ IsDuplicateFree(stub_pool)
  BY FS_CardinalityType
<1>2. Elements(stub_pool) \subseteq Stubs
  BY <1>1, ElementOfSeq, LenProperties DEF Elements
<1>3. TypeOK
  BY <1>1 DEF TypeOK, Labels
<1>4. LockInv /\ HoldInv /\ NoEmptyPop /\ StopInv /\ ExclusiveLoan
  BY <1>1, <1>2 DEF LockInv, HoldInv, NoEmptyPop, StopInv, ExclusiveLoan
<1> QED
  BY <1>3, <1>4 DEF IInv

\* What get_stub does to the queue and the loans of a pool that is not stopped.
LEMMA TakeLends ==
  ASSUME IInv, NEW t \in Threads, Take(t), ~is_stop
  PROVE  /\ Head(stub_pool) \in Stubs /\ Head(stub_pool) \in Elements(stub_pool)
         /\ stub_pool' \in Seq(Stubs) /\ IsDuplicateFree(stub_pool')
         /\ Elements(stub_pool') = Elements(stub_pool) \ {Head(stub_pool)}
         /\ stub[t] = NoStub
         /\ stub' = [stub EXCEPT ![t] = Head(stub_pool)]
         /\ pc' = [pc EXCEPT ![t] = "using"]
<1>1. stub_pool \in Seq(Stubs) /\ stub_pool # <<>> /\ IsDuplicateFree(stub_pool)
  BY DEF IInv, TypeOK, NoEmptyPop, ExclusiveLoan, Take
<1>2. /\ Head(stub_pool) \in Stubs /\ Head(stub_pool) \in Elements(stub_pool)
      /\ Tail(stub_pool) \in Seq(Stubs) /\ IsDuplicateFree(Tail(stub_pool))
      /\ Elements(Tail(stub_pool)) = Elements(stub_pool) \ {Head(stub_pool)}
  BY <1>1, PopOne
<1> QED
  BY <1>2 DEF Take, IInv, HoldInv, Goto

\* What release_stub does to the queue of a pool that is not stopped.
LEMMA ReleaseReturns ==
  ASSUME IInv, NEW t \in Threads, Release(t), ~is_stop
  PROVE  /\ stub[t] \in Stubs
         /\ stub_pool' \in Seq(Stubs) /\ IsDuplicateFree(stub_pool')
         /\ Elements(stub_pool') = Elements(stub_pool) \cup {stub[t]}
         /\ stub' = [stub EXCEPT ![t] = NoStub]
<1>1. stub_pool \in Seq(Stubs) /\ IsDuplicateFree(stub_pool)
      /\ stub[t] \in Stubs /\ stub[t] \notin Elements(stub_pool)
  BY DEF IInv, TypeOK, HoldInv, ExclusiveLoan, Release
<1>2. /\ Append(stub_pool, stub[t]) \in Seq(Stubs)
      /\ IsDuplicateFree(Append(stub_pool, stub[t]))
      /\ Elements(Append(stub_pool, stub[t])) = Elements(stub_pool) \cup {stub[t]}
  BY <1>1, PushOne
<1> QED
  BY <1>1, <1>2 DEF Release

LEMMA TypeStep == IInv /\ [Next]_vars => TypeOK'
<1> SUFFICES ASSUME IInv, [Next]_vars PROVE TypeOK'
  OBVIOUS
<1> USE DEF TypeOK, Labels, Goto
<1>1. TypeOK
  BY DEF IInv
<1>2. ASSUME NEW t \in Threads, Call(t) PROVE TypeOK'
  BY <1>1, <1>2 DEF Call
<1>3. ASSUME NEW t \in Threads, Lock(t) PROVE TypeOK'
  BY <1>1, <1>3 DEF Lock, Acquire
<1>4. ASSUME NEW t \in Threads, Wait(t) PROVE TypeOK'
  BY <1>1, <1>4 DEF Wait, Test, Sleep, Wake, Acquire
<1>5. ASSUME NEW t \in Threads, WaitSpurious(t) PROVE TypeOK'
  BY <1>1, <1>5 DEF WaitSpurious, SpuriousWakeup
<1>6. ASSUME NEW t \in Threads, Take(t) PROVE TypeOK'
  <2>1. CASE is_stop
    BY <1>1, <1>6, <2>1 DEF Take
  <2>2. CASE ~is_stop
    <3>1. stub_pool' \in Seq(Stubs) /\ stub' \in [Threads -> Stubs \cup {NoStub}]
      BY <1>1, <1>6, <2>2, TakeLends
    <3> QED
      BY <1>1, <1>6, <2>2, <3>1 DEF Take
  <2> QED
    BY <2>1, <2>2
<1>7. ASSUME NEW t \in Threads, Release(t) PROVE TypeOK'
  <2>1. stub_pool' \in Seq(Stubs)
    BY <1>1, <1>7, ReleaseReturns DEF Release
  <2> QED
    BY <1>1, <1>7, <2>1 DEF Release, NotifyOne
<1>8. CASE StopStore
  BY <1>1, <1>8 DEF StopStore, monitor
<1>9. CASE StopNotify
  BY <1>1, <1>9 DEF StopNotify, NotifyAll
<1>10. CASE UNCHANGED vars
  BY <1>1, <1>10 DEF vars, monitor
<1> QED
  BY <1>2, <1>3, <1>4, <1>5, <1>6, <1>7, <1>8, <1>9, <1>10 DEF Next, Proceed

\* The mutex, the borrowed stubs and the found ones follow the labels.
LEMMA ControlStep == IInv /\ [Next]_vars => LockInv' /\ HoldInv' /\ NoEmptyPop'
<1> DEFINE Control == LockInv /\ HoldInv /\ NoEmptyPop
<1> SUFFICES ASSUME IInv, [Next]_vars PROVE Control'
  OBVIOUS
<1> USE MonitorAssumption, gRPCServerPoolAssumption
    DEF LockInv, HoldInv, NoEmptyPop, Goto, TypeOK, Labels
<1>1. TypeOK /\ Control
  BY DEF IInv
<1>2. ASSUME NEW t \in Threads, Call(t) PROVE Control'
  BY <1>1, <1>2 DEF Call
<1>3. ASSUME NEW t \in Threads, Lock(t) PROVE Control'
  BY <1>1, <1>3 DEF Lock, Acquire
<1>4. ASSUME NEW t \in Threads, Wait(t) PROVE Control'
  BY <1>1, <1>4 DEF Wait, Test, Sleep, Wake, Acquire
<1>5. ASSUME NEW t \in Threads, WaitSpurious(t) PROVE Control'
  BY <1>1, <1>5 DEF WaitSpurious, SpuriousWakeup
<1>6. ASSUME NEW t \in Threads, Take(t) PROVE Control'
  <2>1. CASE is_stop
    BY <1>1, <1>6, <2>1 DEF Take
  <2>2. CASE ~is_stop
    <3>1. stub' = [stub EXCEPT ![t] = Head(stub_pool)] /\ Head(stub_pool) # NoStub
      BY <1>6, <2>2, TakeLends
    <3> QED
      BY <1>1, <1>6, <2>2, <3>1 DEF Take
  <2> QED
    BY <2>1, <2>2
<1>7. ASSUME NEW t \in Threads, Release(t) PROVE Control'
  BY <1>1, <1>7 DEF Release, NotifyOne
<1>8. CASE StopStore
  BY <1>1, <1>8 DEF StopStore, monitor
<1>9. CASE StopNotify
  BY <1>1, <1>9 DEF StopNotify, NotifyAll
<1>10. CASE UNCHANGED vars
  BY <1>1, <1>10 DEF vars, monitor
<1> QED
  BY <1>2, <1>3, <1>4, <1>5, <1>6, <1>7, <1>8, <1>9, <1>10 DEF Next, Proceed

\* Once is_stop is set no thread goes to sleep that was not on its way: a test
\* now succeeds, and a new call ends at once.
LEMMA StopStep == IInv /\ [Next]_vars => StopInv'
<1> SUFFICES ASSUME IInv, [Next]_vars PROVE StopInv'
  OBVIOUS
<1>1. StopInv /\ LockInv /\ pc \in [Threads -> Labels] /\ asleep \in SUBSET Threads
  BY DEF IInv, TypeOK
<1>2. ASSUME UNCHANGED <<is_stop, stopper>>, is_stop => Stranded' \subseteq Stranded
      PROVE  StopInv'
  BY <1>1, <1>2 DEF StopInv
<1>3. ASSUME NEW t \in Threads, Call(t) \/ Lock(t) PROVE StopInv'
  <2>1. Stranded' \subseteq Stranded
    BY <1>1, <1>3 DEF Call, Lock, Acquire, Goto, Stranded
  <2> QED
    BY <1>2, <1>3, <2>1 DEF Call, Lock
<1>4. ASSUME NEW t \in Threads, Wait(t) PROVE StopInv'
  <2>1. CASE Test(t, stub_pool # <<>> \/ is_stop)
    <3>1. is_stop => pc' = [pc EXCEPT ![t] = "take"] /\ UNCHANGED asleep
      BY <2>1 DEF Test, Goto
    <3>2. is_stop => Stranded' \subseteq Stranded
      BY <1>1, <3>1 DEF Stranded
    <3> QED
      BY <1>2, <1>4, <3>2 DEF Wait
  <2>2. CASE Sleep(t)
    <3>1. Stranded' \subseteq Stranded
      BY <1>1, <2>2 DEF Sleep, Goto, Stranded
    <3> QED
      BY <1>2, <1>4, <3>1 DEF Wait
  <2>3. CASE Wake(t)
    <3>1. Stranded' \subseteq Stranded
      BY <1>1, <2>3 DEF Wake, Acquire, Goto, Stranded
    <3> QED
      BY <1>2, <1>4, <3>1 DEF Wait
  <2> QED
    BY <1>4, <2>1, <2>2, <2>3 DEF Wait
<1>5. ASSUME NEW t \in Threads, WaitSpurious(t) PROVE StopInv'
  <2>1. Stranded' \subseteq Stranded
    BY <1>5 DEF WaitSpurious, SpuriousWakeup, Stranded
  <2> QED
    BY <1>2, <1>5, <2>1 DEF WaitSpurious
<1>6. ASSUME NEW t \in Threads, Take(t) \/ Release(t) PROVE StopInv'
  <2>1. Stranded' \subseteq Stranded
    BY <1>1, <1>6 DEF Take, Release, NotifyOne, Goto, Stranded
  <2> QED
    BY <1>2, <1>6, <2>1 DEF Take, Release
<1>7. CASE StopStore
  BY <1>1, <1>7 DEF StopStore, StopInv
<1>8. CASE StopNotify
  <2>1. \A t, u \in Stranded' : t = u
    BY <1>1, <1>8 DEF StopNotify, NotifyAll, Stranded, LockInv
  <2> QED
    BY <1>1, <1>8, <2>1 DEF StopNotify, StopInv
<1>9. CASE UNCHANGED vars
  BY <1>2, <1>9 DEF vars, monitor, Stranded
<1> QED
  BY <1>3, <1>4, <1>5, <1>6, <1>7, <1>8, <1>9 DEF Next, Proceed

LEMMA LoanStep == IInv /\ [Next]_vars => ExclusiveLoan'
<1> SUFFICES ASSUME IInv, [Next]_vars PROVE ExclusiveLoan'
  OBVIOUS
<1>1. stub \in [Threads -> Stubs \cup {NoStub}] /\ stub_pool \in Seq(Stubs) /\ ExclusiveLoan
  BY DEF IInv, TypeOK
<1>2. NoStub \notin Elements(stub_pool)
  BY <1>1, gRPCServerPoolAssumption, ElementOfSeq, LenProperties DEF Elements
<1>3. CASE UNCHANGED <<stub_pool, stub>>
  BY <1>1, <1>3 DEF ExclusiveLoan, IsDuplicateFree, Elements
<1>4. ASSUME NEW t \in Threads, Take(t), ~is_stop PROVE ExclusiveLoan'
  <2>1. /\ Head(stub_pool) \in Elements(stub_pool) /\ IsDuplicateFree(stub_pool)'
        /\ Elements(stub_pool)' = Elements(stub_pool) \ {Head(stub_pool)}
        /\ stub' = [stub EXCEPT ![t] = Head(stub_pool)]
    BY <1>4, TakeLends DEF IsDuplicateFree, Elements
  <2> QED
    BY <1>1, <1>2, <2>1 DEF ExclusiveLoan
<1>5. ASSUME NEW t \in Threads, Release(t), ~is_stop PROVE ExclusiveLoan'
  <2>1. /\ stub[t] \in Stubs /\ IsDuplicateFree(stub_pool)'
        /\ Elements(stub_pool)' = Elements(stub_pool) \cup {stub[t]}
        /\ stub' = [stub EXCEPT ![t] = NoStub]
    BY <1>5, ReleaseReturns DEF IsDuplicateFree, Elements
  <2> QED
    BY <1>1, <1>2, <2>1, gRPCServerPoolAssumption DEF ExclusiveLoan
<1>6. ASSUME NEW t \in Threads, Release(t), is_stop PROVE ExclusiveLoan'
  <2>1. UNCHANGED stub_pool /\ stub' = [stub EXCEPT ![t] = NoStub]
    BY <1>6 DEF Release
  <2>2. IsDuplicateFree(stub_pool)' /\ Elements(stub_pool)' = Elements(stub_pool)
    BY <1>1, <2>1 DEF ExclusiveLoan, IsDuplicateFree, Elements
  <2> QED
    BY <1>1, <1>2, <2>1, <2>2 DEF ExclusiveLoan
<1>7. ASSUME NEW t \in Threads, Take(t), is_stop PROVE ExclusiveLoan'
  BY <1>3, <1>7 DEF Take
<1>8. ASSUME NEW t \in Threads, Call(t) \/ Lock(t) \/ Wait(t) \/ WaitSpurious(t)
      PROVE  ExclusiveLoan'
  BY <1>3, <1>8 DEF Call, Lock, Wait, WaitSpurious
<1>9. CASE StopStore \/ StopNotify \/ UNCHANGED vars
  BY <1>3, <1>9 DEF StopStore, StopNotify, vars
<1> QED
  BY <1>4, <1>5, <1>6, <1>7, <1>8, <1>9 DEF Next, Proceed

-----------------------------------------------------------------------------
\* IInv holds in every reachable state of the pool.
THEOREM Inductive == Spec => []IInv
<1>1. IInv /\ [Next]_vars => IInv'
  BY TypeStep, ControlStep, StopStep, LoanStep DEF IInv
<1> QED
  BY InitIInv, <1>1, PTL DEF Spec

\* The variables of the pool and its callers keep their types.
THEOREM TypeCorrect == Spec => []TypeOK
BY Inductive, PTL DEF IInv

\* stop(), which never takes the mutex, leaves at most one thread asleep for
\* good in get_stub, of however many.
THEOREM StrandsAtMostOne == Spec => []AtMostOneStranded
<1>1. IInv => AtMostOneStranded
  <2> SUFFICES ASSUME IInv, stopper = "stopped" PROVE Cardinality(Stranded) <= 1
    BY DEF AtMostOneStranded, Stranded
  <2>1. \A t, u \in Stranded : t = u
    BY DEF IInv, StopInv
  <2>2. CASE Stranded = {}
    BY <2>2, FS_EmptySet
  <2>3. CASE Stranded # {}
    <3>1. PICK t : Stranded = {t}
      BY <2>1, <2>3
    <3>2. Cardinality(Stranded) = 1
      BY <3>1, FS_Singleton
    <3> QED
      BY <3>2
  <2> QED
    BY <2>2, <2>3
<1> QED
  BY Inductive, <1>1, PTL

-----------------------------------------------------------------------------
\* No wakeup is lost

\* Threads that have been notified, or are past the test, and will take one.
Awake == {t \in Threads : \/ pc[t] \in {"test", "take"}
                          \/ pc[t] = "blocked" /\ t \notin asleep}

\* While a thread sleeps in a pool that is not stopped, each queued stub has a
\* thread on its way to it.
NoLostWakeup == asleep # {} /\ ~is_stop => Len(stub_pool) <= Cardinality(Awake)

\* The queue of a pool in use stays empty from the test that found it empty
\* until its thread sleeps; only threads in the wait are to be notified.
SleepInv == \A t \in Threads :
  /\ pc[t] = "sleep" /\ ~is_stop => stub_pool = <<>>
  /\ t \in asleep => pc[t] = "blocked"

LEMMA SleepStep == IInv /\ SleepInv /\ [Next]_vars => SleepInv'
<1> SUFFICES ASSUME IInv, SleepInv, [Next]_vars PROVE SleepInv'
  OBVIOUS
<1> USE MonitorAssumption DEF SleepInv, Goto
<1>1. LockInv /\ DOMAIN pc = Threads
  BY DEF IInv, TypeOK
<1>2. ASSUME NEW t \in Threads, Call(t) \/ Lock(t) PROVE SleepInv'
  BY <1>1, <1>2 DEF Call, Lock, Acquire
<1>3. ASSUME NEW t \in Threads, Wait(t) \/ WaitSpurious(t) PROVE SleepInv'
  BY <1>1, <1>3 DEF Wait, Test, Sleep, Wake, Acquire, WaitSpurious, SpuriousWakeup
<1>4. ASSUME NEW t \in Threads, Take(t) PROVE SleepInv'
  BY <1>1, <1>4 DEF Take, LockInv
<1>5. ASSUME NEW t \in Threads, Release(t) PROVE SleepInv'
  <2>1. asleep' \subseteq asleep
    BY <1>5 DEF Release, NotifyOne
  <2>2. \A u \in Threads : pc[u] # "sleep"
    BY <1>1, <1>5 DEF Release, LockInv
  <2> QED
    BY <1>1, <1>5, <2>1, <2>2 DEF Release
<1>6. CASE StopStore \/ StopNotify
  BY <1>6 DEF StopStore, StopNotify, NotifyAll, monitor
<1>7. CASE UNCHANGED vars
  BY <1>7 DEF vars, monitor
<1> QED
  BY <1>2, <1>3, <1>4, <1>5, <1>6, <1>7 DEF Next, Proceed

LEMMA WakeupStep == IInv /\ SleepInv /\ NoLostWakeup /\ [Next]_vars => NoLostWakeup'
<1> SUFFICES ASSUME IInv, SleepInv, NoLostWakeup, [Next]_vars, asleep' # {}, ~is_stop'
             PROVE  Len(stub_pool') <= Cardinality(Awake')
  BY DEF NoLostWakeup
<1> USE DEF Goto
<1>0. ~is_stop
  <2>1. is_stop' = is_stop \/ StopStore
    BY DEF Next, Proceed, Call, Lock, Wait, Take, Release, WaitSpurious, StopNotify, vars
  <2> QED
    BY <2>1 DEF StopStore
<1>1. /\ LockInv /\ DOMAIN pc = Threads /\ asleep \subseteq Threads
      /\ stub_pool \in Seq(Stubs) /\ Len(stub_pool) \in Nat
  BY LenProperties DEF IInv, TypeOK
<1>2. /\ IsFiniteSet(Awake) /\ Cardinality(Awake) \in Nat
      /\ IsFiniteSet(Awake') /\ Cardinality(Awake') \in Nat
  BY gRPCServerPoolAssumption, FS_Subset, FS_CardinalityType DEF Awake
<1>3. asleep # {} /\ ~is_stop => Len(stub_pool) <= Cardinality(Awake)
  BY DEF NoLostWakeup
<1>4. ASSUME stub_pool' = stub_pool, asleep # {}, ~is_stop, Awake \subseteq Awake'
      PROVE  Len(stub_pool') <= Cardinality(Awake')
  <2>1. Cardinality(Awake) <= Cardinality(Awake')
    BY <1>2, <1>4, FS_Subset
  <2> QED
    BY <1>1, <1>2, <1>3, <1>4, <2>1
<1>5. ASSUME stub_pool' = <<>> PROVE Len(stub_pool') <= Cardinality(Awake')
  BY <1>2, <1>5
<1>6. ASSUME NEW t \in Threads, Call(t) \/ Lock(t) \/ Wake(t) \/ WaitSpurious(t),
             stub_pool' = stub_pool
      PROVE  Len(stub_pool') <= Cardinality(Awake')
  <2>1. asleep # {}
    BY <1>6 DEF Call, Lock, Acquire, Wake, WaitSpurious, SpuriousWakeup
  <2>2. Awake \subseteq Awake'
    BY <1>1, <1>6 DEF Awake, Call, Lock, Acquire, Wake, WaitSpurious, SpuriousWakeup, SleepInv
  <2> QED
    BY <1>0, <1>4, <1>6, <2>1, <2>2
<1>7. ASSUME NEW t \in Threads, Test(t, stub_pool # <<>> \/ is_stop), stub_pool' = stub_pool
      PROVE  Len(stub_pool') <= Cardinality(Awake')
  <2>1. asleep # {}
    BY <1>7 DEF Test
  <2>2. CASE stub_pool = <<>>
    BY <1>5, <1>7, <2>2
  <2>3. CASE stub_pool # <<>>
    <3>1. Awake \subseteq Awake'
      BY <1>1, <1>7, <2>3 DEF Awake, Test
    <3> QED
      BY <1>0, <1>4, <1>7, <2>1, <3>1
  <2> QED
    BY <2>2, <2>3
<1>8. ASSUME NEW t \in Threads, Sleep(t), stub_pool' = stub_pool
      PROVE  Len(stub_pool') <= Cardinality(Awake')
  BY <1>0, <1>5, <1>8 DEF Sleep, SleepInv
<1>9. ASSUME NEW t \in Threads, Wait(t) PROVE Len(stub_pool') <= Cardinality(Awake')
  BY <1>6, <1>7, <1>8, <1>9 DEF Wait
<1>10. ASSUME NEW t \in Threads, Take(t) PROVE Len(stub_pool') <= Cardinality(Awake')
  <2>1. asleep # {} /\ pc[t] = "take" /\ asleep' = asleep /\ pc' = [pc EXCEPT ![t] = "using"]
    BY <1>0, <1>10 DEF Take
  <2>2. Len(stub_pool') = Len(stub_pool) - 1
    BY <1>0, <1>1, <1>10, HeadTailProperties DEF Take, IInv, NoEmptyPop
  <2>3. Awake' = Awake \ {t} /\ t \in Awake
    BY <1>1, <2>1 DEF Awake
  <2>4. Cardinality(Awake') = Cardinality(Awake) - 1
    BY <1>2, <2>3, FS_RemoveElement
  <2> QED
    BY <1>0, <1>1, <1>2, <1>3, <2>1, <2>2, <2>4
<1>11. ASSUME NEW t \in Threads, Release(t) PROVE Len(stub_pool') <= Cardinality(Awake')
  <2>1. PICK u \in asleep : asleep' = asleep \ {u}
    BY <1>0, <1>11 DEF Release, NotifyOne
  <2>2. pc[u] = "blocked" /\ u \in Threads
    BY <1>1, <2>1 DEF SleepInv
  <2>3. pc[t] = "using" /\ pc' = [pc EXCEPT ![t] = "idle"]
    BY <1>11 DEF Release
  <2>4. Awake' = Awake \cup {u} /\ u \notin Awake
    BY <1>1, <2>1, <2>2, <2>3 DEF Awake
  <2>5. Cardinality(Awake') = Cardinality(Awake) + 1
    BY <1>2, <2>4, FS_AddElement
  <2>6. Len(stub_pool') = Len(stub_pool) + 1
    BY <1>0, <1>1, <1>11, ReleaseReturns, AppendProperties DEF Release
  <2> QED
    BY <1>0, <1>1, <1>2, <1>3, <2>1, <2>5, <2>6
<1>12. CASE StopStore \/ StopNotify
  BY <1>12 DEF StopStore, StopNotify, NotifyAll
<1>13. CASE UNCHANGED vars
  <2>1. stub_pool' = stub_pool /\ asleep # {} /\ Awake' = Awake
    BY <1>13 DEF vars, monitor, Awake
  <2> QED
    BY <1>0, <1>4, <2>1
<1>14. ASSUME NEW t \in Threads, Call(t) \/ Lock(t) \/ WaitSpurious(t)
       PROVE  Len(stub_pool') <= Cardinality(Awake')
  BY <1>6, <1>14 DEF Call, Lock, WaitSpurious
<1> QED
  BY <1>9, <1>10, <1>11, <1>12, <1>13, <1>14 DEF Next, Proceed

\* No wakeup is lost in get_stub before stop(): notify_one is called once for
\* each stub released, and a woken thread that finds none takes none.
THEOREM NoWakeupLost == Spec => []NoLostWakeup
<1>1. Init => SleepInv /\ NoLostWakeup
  BY DEF Init, MonitorInit, SleepInv, NoLostWakeup
<1>2. IInv /\ SleepInv /\ NoLostWakeup /\ [Next]_vars => SleepInv' /\ NoLostWakeup'
  BY SleepStep, WakeupStep
<1> QED
  BY Inductive, <1>1, <1>2, PTL DEF Spec

-----------------------------------------------------------------------------
\* Refinement of ConnectionPool

\* The constructor's stubs are idle.
LEMMA InitMaps == Init => Lending!Init
<1> SUFFICES ASSUME Init PROVE Lending!Init
  OBVIOUS
<1>1. stub_pool \in Seq(Stubs)
  BY InitIInv DEF IInv, TypeOK
<1> QED
  BY <1>1, ElementOfSeq, LenProperties DEF Init, Lending!Init

\* Each step lends, takes back or loses a stub, or is not seen.
LEMMA StepMaps == IInv /\ [Next]_vars => [Lending!Next]_(Lending!vars)
<1> SUFFICES ASSUME IInv, [Next]_vars PROVE [Lending!Next]_(Lending!vars)
  OBVIOUS
<1>1. CASE UNCHANGED <<stub_pool, stub>>
  BY <1>1 DEF Lending!vars
<1>2. ASSUME NEW t \in Threads, Take(t), ~is_stop PROVE Lending!Borrow(t)
  BY <1>2, TakeLends DEF Lending!Borrow, Elements
<1>3. ASSUME NEW t \in Threads, Release(t), ~is_stop PROVE Lending!GiveBack(t)
  BY <1>3, ReleaseReturns, gRPCServerPoolAssumption DEF Lending!GiveBack, Elements
<1>4. ASSUME NEW t \in Threads, Release(t), is_stop PROVE Lending!Drop(t)
  BY <1>4 DEF Release, Lending!Drop
<1>5. ASSUME NEW t \in Threads,
             Call(t) \/ Lock(t) \/ Wait(t) \/ WaitSpurious(t) \/ (Take(t) /\ is_stop)
      PROVE  UNCHANGED <<stub_pool, stub>>
  BY <1>5 DEF Call, Lock, Wait, WaitSpurious, Take
<1>6. CASE StopStore \/ StopNotify \/ UNCHANGED vars
  BY <1>1, <1>6 DEF StopStore, StopNotify, vars
<1> QED
  BY <1>1, <1>2, <1>3, <1>4, <1>5, <1>6 DEF Next, Proceed, Lending!Next

\* gRPCServerPool implements exclusive lending, whatever the interleaving of
\* get_stub, release_stub and stop().
THEOREM Implements == Spec => LendsExclusively
BY InitMaps, StepMaps, Inductive, PTL DEF Spec, LendsExclusively, Lending!Spec
=============================================================================
