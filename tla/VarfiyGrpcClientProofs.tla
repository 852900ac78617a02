------------------------ MODULE VarfiyGrpcClientProofs ------------------------
(***************************************************************************)
(* Proofs about VarfiyGrpcClient, for any threads, any size of the pool    *)
(* and any number of calls.                                                *)
(*                                                                         *)
(* The count of what is left of the pool rests on the mutex (LockInv), on  *)
(* when a thread holds a stub (HoldInv) and on front() finding an element  *)
(* (NoEmptyPop).  That one RPC runs at a time rests on the defect of       *)
(* getConnection: no stub but the first is ever lent (OnlyFirstStub),      *)
(* because of what may stand at the front of the vector (FrontInv).        *)
(***************************************************************************)
EXTENDS VarfiyGrpcClient, FiniteSetTheorems, SequenceTheorems, TLAPS

\* A thread holds the mutex exactly between its lock and its unlock.
LockInv == \A t \in Threads : owner = t <=> pc[t] \in {"test", "sleep", "take"}

\* A thread holds a stub exactly from its RPC to the return of the stub.
HoldInv == \A t \in Threads : stub[t] # Null <=> pc[t] \in {"rpc", "push"}

\* The element the test has found is still there when it is taken.
NoEmptyPop == \A t \in Threads : pc[t] = "take" => connections # <<>>

\* At the front stands the first stub or an emptied element.
FrontInv == connections # <<>> => connections[1] \in {Null, 1}

\* No stub but the first is lent: getConnection moves the front out, pops the
\* back, and so destroys every other stub unused.
OnlyFirstStub == \A t \in Threads : stub[t] \in {Null, 1}

Holding == {t \in Threads : stub[t] # Null}

IInv ==
  /\ TypeOK
  /\ LockInv
  /\ HoldInv
  /\ NoEmptyPop
  /\ FrontInv
  /\ OnlyFirstStub
  /\ NullsShrinkThePool

-----------------------------------------------------------------------------
\* What getConnection leaves in the vector

\* One element less, the front emptied, the others as they were.
LEMMA AfterTakeShape ==
  ASSUME NEW S, NEW v \in Seq(S), v # <<>>, Null \in S
  PROVE  /\ AfterTake(v) \in Seq(S)
         /\ Len(AfterTake(v)) = Len(v) - 1
         /\ AfterTake(v) # <<>> => AfterTake(v)[1] = Null
<1>1. Len(v) \in Nat \ {0} /\ \A i \in 1 .. Len(v) : v[i] \in S
  BY EmptySeq, LenProperties, ElementOfSeq
<1>2. Len(v) - 1 \in Nat
  BY <1>1
<1>3. AfterTake(v) \in [1 .. Len(v) - 1 -> S]
  BY <1>1 DEF AfterTake
<1>4. AfterTake(v) \in Seq(S) /\ Len(AfterTake(v)) = Len(v) - 1
  BY <1>2, <1>3, IsASeq, LenProperties
<1>5. AfterTake(v) # <<>> => 1 \in 1 .. Len(v) - 1
  BY <1>1, <1>4, EmptySeq
<1> QED
  BY <1>4, <1>5 DEF AfterTake

-----------------------------------------------------------------------------
\* The inductive invariant

LEMMA InitIInv == Init => IInv
<1> SUFFICES ASSUME Init PROVE IInv
  OBVIOUS
<1> USE MonitorAssumption, VarfiyGrpcClientAssumption DEF Init, MonitorInit
<1>1. connections \in [1 .. PoolSize -> 0 .. PoolSize]
  OBVIOUS
<1>2. connections \in Seq(0 .. PoolSize) /\ Len(connections) = PoolSize
  BY <1>1, IsASeq, LenProperties
<1>3. TypeOK
  <2>1. PoolSize <= PoolSize /\ 0 \in 0 .. PoolSize
    OBVIOUS
  <2>2. stub \in [Threads -> 0 .. PoolSize] /\ calls \in [Threads -> Nat]
    BY <2>1
  <2>3. /\ owner \in Threads \cup {NoThread} /\ asleep \in SUBSET Threads
        /\ pc \in [Threads -> Labels] /\ nulls \in Nat
    BY DEF Labels
  <2> QED
    BY <1>2, <2>1, <2>2, <2>3 DEF TypeOK
<1>4. FrontInv
  <2> SUFFICES ASSUME connections # <<>> PROVE connections[1] = 1
    BY DEF FrontInv
  <2>1. 1 \in 1 .. PoolSize
    BY <1>2, EmptySeq
  <2> QED
    BY <2>1
<1>5. {t \in Threads : stub[t] # Null} = {}
  OBVIOUS
<1>6. NullsShrinkThePool
  <2>1. Cardinality({t \in Threads : stub[t] # Null}) = 0
    BY <1>5, FS_EmptySet
  <2>2. PoolSize + 0 + 0 = PoolSize
    OBVIOUS
  <2>3. nulls = 0
    OBVIOUS
  <2> QED
    BY <1>2, <2>1, <2>2, <2>3 DEF NullsShrinkThePool
<1>7. LockInv /\ HoldInv /\ NoEmptyPop /\ OnlyFirstStub
  BY DEF LockInv, HoldInv, NoEmptyPop, OnlyFirstStub
<1> QED
  BY <1>3, <1>4, <1>6, <1>7 DEF IInv

\* What getConnection does to the vector and the thread.
LEMMA TakeMoves ==
  ASSUME IInv, NEW t \in Threads, Take(t)
  PROVE  /\ connections' \in Seq(0 .. PoolSize)
         /\ Len(connections) \in Nat \ {0} /\ Len(connections') = Len(connections) - 1
         /\ connections' # <<>> => connections'[1] = Null
         /\ connections[1] \in {Null, 1} /\ connections[1] \in 0 .. PoolSize
         /\ stub[t] = Null
         /\ stub' = [stub EXCEPT ![t] = connections[1]]
         /\ \/ connections[1] = Null /\ nulls' = nulls + 1 /\ pc' = [pc EXCEPT ![t] = "idle"]
            \/ connections[1] # Null /\ nulls' = nulls /\ pc' = [pc EXCEPT ![t] = "rpc"]
<1>1. /\ connections \in Seq(0 .. PoolSize) /\ connections # <<>>
      /\ connections[1] \in {Null, 1} /\ stub[t] = Null
  BY DEF IInv, TypeOK, NoEmptyPop, FrontInv, HoldInv, Take
<1>2. Len(connections) \in Nat \ {0} /\ Head(connections) = connections[1]
      /\ connections[1] \in 0 .. PoolSize
  <2>1. Len(connections) \in Nat \ {0}
    BY <1>1, EmptySeq, LenProperties
  <2>2. Head(connections) = connections[1]
    BY <1>1, HeadTailProperties
  <2>3. 1 \in 1 .. Len(connections)
    BY <2>1
  <2>4. connections[1] \in 0 .. PoolSize
    BY <1>1, <2>3, ElementOfSeq
  <2> QED
    BY <2>1, <2>2, <2>4
<1>3. Null \in 0 .. PoolSize
  BY VarfiyGrpcClientAssumption
<1>4. connections' = AfterTake(connections)
  BY DEF Take
<1>5. /\ connections' \in Seq(0 .. PoolSize) /\ Len(connections') = Len(connections) - 1
      /\ connections' # <<>> => connections'[1] = Null
  BY <1>1, <1>3, <1>4, AfterTakeShape
<1> QED
  BY <1>1, <1>2, <1>5 DEF Take, Goto

\* What returnConnection does to the vector and the thread.
LEMMA PushReturns ==
  ASSUME IInv, NEW t \in Threads, ReturnPush(t)
  PROVE  /\ stub[t] = 1 /\ stub[t] # Null
         /\ connections' \in Seq(0 .. PoolSize)
         /\ Len(connections) \in Nat /\ Len(connections') = Len(connections) + 1
         /\ connections' # <<>> /\ connections'[1] \in {Null, 1}
         /\ stub' = [stub EXCEPT ![t] = Null]
<1>1. /\ connections \in Seq(0 .. PoolSize) /\ connections' = Append(connections, stub[t])
      /\ stub[t] \in 0 .. PoolSize /\ stub[t] # Null /\ stub[t] \in {Null, 1}
      /\ stub' = [stub EXCEPT ![t] = Null]
  BY DEF IInv, TypeOK, HoldInv, OnlyFirstStub, ReturnPush
<1>2. /\ connections' \in Seq(0 .. PoolSize) /\ Len(connections) \in Nat
      /\ Len(connections') = Len(connections) + 1
      /\ \A i \in 1 .. Len(connections) : connections'[i] = connections[i]
      /\ connections'[Len(connections) + 1] = stub[t]
  BY <1>1, AppendProperties, LenProperties
<1>3. connections' # <<>>
  BY <1>2, EmptySeq
<1>4. connections'[1] \in {Null, 1}
  <2>1. CASE connections = <<>>
    BY <1>1, <1>2, <2>1, EmptySeq
  <2>2. CASE connections # <<>>
    <3>1. 1 \in 1 .. Len(connections)
      BY <1>1, <1>2, <2>2, EmptySeq
    <3> QED
      BY <1>2, <2>2, <3>1 DEF IInv, FrontInv
  <2> QED
    BY <2>1, <2>2
<1> QED
  BY <1>1, <1>2, <1>3, <1>4

\* An element leaves the vector for a thread or is a null; it comes back from
\* a thread.
LEMMA CountStep == IInv /\ [Next]_vars => NullsShrinkThePool'
<1> SUFFICES ASSUME IInv, [Next]_vars PROVE NullsShrinkThePool'
  OBVIOUS
<1>1. stub \in [Threads -> 0 .. PoolSize] /\ nulls \in Nat /\ Len(connections) \in Nat
  BY LenProperties DEF IInv, TypeOK
<1>2. IsFiniteSet(Holding) /\ Cardinality(Holding) \in Nat /\ PoolSize \in Nat
  BY VarfiyGrpcClientAssumption, FS_Subset, FS_CardinalityType DEF Holding
<1>3. Len(connections) + Cardinality(Holding) + nulls = PoolSize
  BY DEF IInv, NullsShrinkThePool, Holding
<1>4. ASSUME Len(connections') + Cardinality(Holding') + nulls' = PoolSize
      PROVE  NullsShrinkThePool'
  BY <1>4 DEF NullsShrinkThePool, Holding
<1>5. CASE UNCHANGED <<connections, stub, nulls>>
  BY <1>5 DEF IInv, NullsShrinkThePool
<1>6. ASSUME NEW t \in Threads, Take(t) PROVE NullsShrinkThePool'
  <2>1. /\ Len(connections') = Len(connections) - 1 /\ stub[t] = Null
        /\ stub' = [stub EXCEPT ![t] = connections[1]]
        /\ \/ connections[1] = Null /\ nulls' = nulls + 1
           \/ connections[1] # Null /\ nulls' = nulls
    BY <1>6, TakeMoves
  <2>2. CASE connections[1] = Null
    <3>1. Holding' = Holding
      BY <1>1, <2>1, <2>2 DEF Holding
    <3> QED
      BY <1>1, <1>2, <1>3, <1>4, <2>1, <2>2, <3>1
  <2>3. CASE connections[1] # Null
    <3>1. Holding' = Holding \cup {t} /\ t \notin Holding
      BY <1>1, <2>1, <2>3 DEF Holding
    <3>2. Cardinality(Holding') = Cardinality(Holding) + 1
      BY <1>2, <3>1, FS_AddElement
    <3> QED
      BY <1>1, <1>2, <1>3, <1>4, <2>1, <2>3, <3>2
  <2> QED
    BY <2>2, <2>3
<1>7. ASSUME NEW t \in Threads, ReturnPush(t) PROVE NullsShrinkThePool'
  <2>1. /\ Len(connections') = Len(connections) + 1 /\ stub[t] # Null
        /\ stub' = [stub EXCEPT ![t] = Null] /\ nulls' = nulls
    BY <1>7, PushReturns DEF ReturnPush
  <2>2. Holding' = Holding \ {t} /\ t \in Holding
    BY <1>1, <2>1 DEF Holding
  <2>3. Cardinality(Holding') = Cardinality(Holding) - 1
    BY <1>2, <2>2, FS_RemoveElement
  <2> QED
    BY <1>1, <1>2, <1>3, <1>4, <2>1, <2>3
<1>8. ASSUME NEW t \in Threads, GetVarifyCode(t) \/ Lock(t) \/ Wait(t) \/ WaitSpurious(t) \/ Rpc(t)
      PROVE  NullsShrinkThePool'
  BY <1>5, <1>8 DEF GetVarifyCode, Lock, Wait, WaitSpurious, Rpc
<1>9. CASE UNCHANGED vars
  BY <1>5, <1>9 DEF vars
<1> QED
  BY <1>6, <1>7, <1>8, <1>9 DEF Next, Proceed

\* The vector never holds more than the constructor has put into it.
LEMMA CountBoundsVector ==
  ASSUME IInv, [Next]_vars, connections' \in Seq(0 .. PoolSize), nulls' \in Nat
  PROVE  Len(connections') <= PoolSize
<1>1. Cardinality(Holding') \in Nat
  BY VarfiyGrpcClientAssumption, FS_Subset, FS_CardinalityType DEF Holding
<1>2. Len(connections') + Cardinality(Holding') + nulls' = PoolSize
  BY CountStep DEF NullsShrinkThePool, Holding
<1>3. Len(connections') \in Nat /\ PoolSize \in Nat
  BY LenProperties, VarfiyGrpcClientAssumption
<1> QED
  BY <1>1, <1>2, <1>3

LEMMA TypeStep == IInv /\ [Next]_vars => TypeOK'
<1> SUFFICES ASSUME IInv, [Next]_vars PROVE TypeOK'
  OBVIOUS
<1> USE DEF TypeOK, Labels, Goto
<1>1. TypeOK
  BY DEF IInv
<1>2. ASSUME NEW t \in Threads, GetVarifyCode(t) PROVE TypeOK'
  BY <1>1, <1>2 DEF GetVarifyCode
<1>3. ASSUME NEW t \in Threads, Lock(t) PROVE TypeOK'
  BY <1>1, <1>3 DEF Lock, Acquire
<1>4. ASSUME NEW t \in Threads, Wait(t) PROVE TypeOK'
  BY <1>1, <1>4 DEF Wait, Test, Sleep, Wake, Acquire
<1>5. ASSUME NEW t \in Threads, WaitSpurious(t) PROVE TypeOK'
  BY <1>1, <1>5 DEF WaitSpurious, SpuriousWakeup
<1>6. ASSUME NEW t \in Threads, Take(t) PROVE TypeOK'
  <2>0. /\ connections' \in Seq(0 .. PoolSize) /\ nulls' \in {nulls, nulls + 1}
        /\ stub' = [stub EXCEPT ![t] = connections[1]] /\ connections[1] \in 0 .. PoolSize
    BY <1>6, TakeMoves
  <2>1. connections' \in Seq(0 .. PoolSize) /\ nulls' \in Nat
        /\ stub' \in [Threads -> 0 .. PoolSize]
    BY <1>1, <2>0
  <2>2. Len(connections') <= PoolSize
    BY <2>1, CountBoundsVector
  <2> QED
    BY <1>1, <1>6, <2>1, <2>2 DEF Take
<1>7. ASSUME NEW t \in Threads, Rpc(t) PROVE TypeOK'
  BY <1>1, <1>7 DEF Rpc
<1>8. ASSUME NEW t \in Threads, ReturnPush(t) PROVE TypeOK'
  <2>1. connections' \in Seq(0 .. PoolSize) /\ nulls' \in Nat
        /\ stub' \in [Threads -> 0 .. PoolSize]
    BY <1>1, <1>8, PushReturns, VarfiyGrpcClientAssumption DEF ReturnPush
  <2>2. Len(connections') <= PoolSize
    BY <2>1, CountBoundsVector
  <2> QED
    BY <1>1, <1>8, <2>1, <2>2 DEF ReturnPush, NotifyOne
<1>9. CASE UNCHANGED vars
  BY <1>1, <1>9 DEF vars, monitor
<1> QED
  BY <1>2, <1>3, <1>4, <1>5, <1>6, <1>7, <1>8, <1>9 DEF Next, Proceed

\* The mutex, the stubs that are out and the elements found follow the labels.
LEMMA ControlStep == IInv /\ [Next]_vars => LockInv' /\ HoldInv' /\ NoEmptyPop'
<1> DEFINE Control == LockInv /\ HoldInv /\ NoEmptyPop
<1> SUFFICES ASSUME IInv, [Next]_vars PROVE Control'
  OBVIOUS
<1> USE MonitorAssumption DEF LockInv, HoldInv, NoEmptyPop, Goto, TypeOK, Labels
<1>1. TypeOK /\ Control
  BY DEF IInv
<1>2. ASSUME NEW t \in Threads, GetVarifyCode(t) PROVE Control'
  BY <1>1, <1>2 DEF GetVarifyCode
<1>3. ASSUME NEW t \in Threads, Lock(t) PROVE Control'
  BY <1>1, <1>3 DEF Lock, Acquire
<1>4. ASSUME NEW t \in Threads, Wait(t) PROVE Control'
  BY <1>1, <1>4 DEF Wait, Test, Sleep, Wake, Acquire
<1>5. ASSUME NEW t \in Threads, WaitSpurious(t) PROVE Control'
  BY <1>1, <1>5 DEF WaitSpurious, SpuriousWakeup
<1>6. ASSUME NEW t \in Threads, Take(t) PROVE Control'
  BY <1>1, <1>6, TakeMoves DEF Take
<1>7. ASSUME NEW t \in Threads, Rpc(t) PROVE Control'
  BY <1>1, <1>7 DEF Rpc
<1>8. ASSUME NEW t \in Threads, ReturnPush(t) PROVE Control'
  BY <1>1, <1>8 DEF ReturnPush, NotifyOne
<1>9. CASE UNCHANGED vars
  BY <1>1, <1>9 DEF vars, monitor
<1> QED
  BY <1>2, <1>3, <1>4, <1>5, <1>6, <1>7, <1>8, <1>9 DEF Next, Proceed

\* The first stub comes back behind an emptied front, or into an empty vector.
LEMMA FrontStep == IInv /\ [Next]_vars => FrontInv' /\ OnlyFirstStub'
<1> SUFFICES ASSUME IInv, [Next]_vars PROVE FrontInv' /\ OnlyFirstStub'
  OBVIOUS
<1>1. stub \in [Threads -> 0 .. PoolSize] /\ FrontInv /\ OnlyFirstStub
  BY DEF IInv, TypeOK
<1>2. CASE UNCHANGED <<connections, stub>>
  BY <1>1, <1>2 DEF FrontInv, OnlyFirstStub
<1>3. ASSUME NEW t \in Threads, Take(t) PROVE FrontInv' /\ OnlyFirstStub'
  BY <1>1, <1>3, TakeMoves DEF FrontInv, OnlyFirstStub
<1>4. ASSUME NEW t \in Threads, ReturnPush(t) PROVE FrontInv' /\ OnlyFirstStub'
  BY <1>1, <1>4, PushReturns DEF FrontInv, OnlyFirstStub
<1>5. ASSUME NEW t \in Threads, GetVarifyCode(t) \/ Lock(t) \/ Wait(t) \/ WaitSpurious(t) \/ Rpc(t)
      PROVE  FrontInv' /\ OnlyFirstStub'
  BY <1>2, <1>5 DEF GetVarifyCode, Lock, Wait, WaitSpurious, Rpc
<1>6. CASE UNCHANGED vars
  BY <1>2, <1>6 DEF vars
<1> QED
  BY <1>3, <1>4, <1>5, <1>6 DEF Next, Proceed

-----------------------------------------------------------------------------
\* IInv holds in every reachable state of the client.
THEOREM Inductive == Spec => []IInv
<1>1. IInv /\ [Next]_vars => IInv'
  BY TypeStep, ControlStep, FrontStep, CountStep DEF IInv
<1> QED
  BY InitIInv, <1>1, PTL DEF Spec

\* The variables keep their types, and the vector never outgrows the pool.
THEOREM TypeCorrect == Spec => []TypeOK
BY Inductive, PTL DEF IInv

\* Each null answer costs the pool one element for good, and nothing else does.
THEOREM NullsCounted == Spec => []NullsShrinkThePool
BY Inductive, PTL DEF IInv
-----------------------------------------------------------------------------
\* No wakeup is lost

\* The vector stays empty from the test that found it empty until its thread
\* sleeps; only threads in the wait are to be notified.
SleepInv == \A t \in Threads :
  /\ pc[t] = "sleep" => connections = <<>>
  /\ t \in asleep => pc[t] = "blocked"

LEMMA SleepStep == IInv /\ SleepInv /\ [Next]_vars => SleepInv'
<1> SUFFICES ASSUME IInv, SleepInv, [Next]_vars PROVE SleepInv'
  OBVIOUS
<1> USE MonitorAssumption DEF SleepInv, Goto
<1>1. LockInv /\ DOMAIN pc = Threads
  BY DEF IInv, TypeOK
<1>2. ASSUME NEW t \in Threads, GetVarifyCode(t) \/ Lock(t) PROVE SleepInv'
  BY <1>1, <1>2 DEF GetVarifyCode, Lock, Acquire
<1>3. ASSUME NEW t \in Threads, Wait(t) \/ WaitSpurious(t) PROVE SleepInv'
  BY <1>1, <1>3 DEF Wait, Test, Sleep, Wake, Acquire, WaitSpurious, SpuriousWakeup
<1>4. ASSUME NEW t \in Threads, Take(t) PROVE SleepInv'
  BY <1>1, <1>4, TakeMoves DEF Take, LockInv
<1>5. ASSUME NEW t \in Threads, Rpc(t) PROVE SleepInv'
  BY <1>1, <1>5 DEF Rpc
<1>6. ASSUME NEW t \in Threads, ReturnPush(t) PROVE SleepInv'
  <2>1. asleep' \subseteq asleep
    BY <1>6 DEF ReturnPush, NotifyOne
  <2>2. \A u \in Threads : pc[u] # "sleep"
    BY <1>1, <1>6 DEF ReturnPush, LockInv
  <2> QED
    BY <1>1, <1>6, <2>1, <2>2 DEF ReturnPush
<1>7. CASE UNCHANGED vars
  BY <1>7 DEF vars, monitor
<1> QED
  BY <1>2, <1>3, <1>4, <1>5, <1>6, <1>7 DEF Next, Proceed

LEMMA WakeupStep == IInv /\ SleepInv /\ NoLostWakeup /\ [Next]_vars => NoLostWakeup'
<1> SUFFICES ASSUME IInv, SleepInv, NoLostWakeup, [Next]_vars, asleep' # {}
             PROVE  Len(connections') <= Cardinality(Awake')
  BY DEF NoLostWakeup
<1> USE DEF Goto
<1>1. /\ LockInv /\ DOMAIN pc = Threads /\ asleep \subseteq Threads
      /\ connections \in Seq(0 .. PoolSize) /\ Len(connections) \in Nat
  BY LenProperties DEF IInv, TypeOK
<1>2. /\ IsFiniteSet(Awake) /\ Cardinality(Awake) \in Nat
      /\ IsFiniteSet(Awake') /\ Cardinality(Awake') \in Nat
  BY VarfiyGrpcClientAssumption, FS_Subset, FS_CardinalityType DEF Awake
<1>3. asleep # {} => Len(connections) <= Cardinality(Awake)
  BY DEF NoLostWakeup
<1>4. ASSUME connections' = connections, asleep # {}, Awake \subseteq Awake'
      PROVE  Len(connections') <= Cardinality(Awake')
  <2>1. Cardinality(Awake) <= Cardinality(Awake')
    BY <1>2, <1>4, FS_Subset
  <2> QED
    BY <1>1, <1>2, <1>3, <1>4, <2>1
<1>5. ASSUME connections' = <<>> PROVE Len(connections') <= Cardinality(Awake')
  BY <1>2, <1>5
<1>6. ASSUME NEW t \in Threads, GetVarifyCode(t) \/ Lock(t) \/ Wake(t) \/ WaitSpurious(t),
             connections' = connections
      PROVE  Len(connections') <= Cardinality(Awake')
  <2>1. asleep # {}
    BY <1>6 DEF GetVarifyCode, Lock, Acquire, Wake, WaitSpurious, SpuriousWakeup
  <2>2. Awake \subseteq Awake'
    BY <1>1, <1>6 DEF Awake, GetVarifyCode, Lock, Acquire, Wake, WaitSpurious, SpuriousWakeup, SleepInv
  <2> QED
    BY <1>4, <1>6, <2>1, <2>2
<1>7. ASSUME NEW t \in Threads, Test(t, connections # <<>>), connections' = connections
      PROVE  Len(connections') <= Cardinality(Awake')
  <2>1. asleep # {}
    BY <1>7 DEF Test
  <2>2. CASE connections = <<>>
    BY <1>5, <1>7, <2>2
  <2>3. CASE connections # <<>>
    <3>1. Awake \subseteq Awake'
      BY <1>1, <1>7, <2>3 DEF Awake, Test
    <3> QED
      BY <1>4, <1>7, <2>1, <3>1
  <2> QED
    BY <2>2, <2>3
<1>8. ASSUME NEW t \in Threads, Sleep(t), connections' = connections
      PROVE  Len(connections') <= Cardinality(Awake')
  BY <1>5, <1>8 DEF Sleep, SleepInv
<1>9. ASSUME NEW t \in Threads, Wait(t) PROVE Len(connections') <= Cardinality(Awake')
  BY <1>6, <1>7, <1>8, <1>9 DEF Wait
<1>10. ASSUME NEW t \in Threads, Take(t) PROVE Len(connections') <= Cardinality(Awake')
  <2>1. /\ asleep # {} /\ pc[t] = "take" /\ asleep' = asleep
        /\ pc' = [pc EXCEPT ![t] = "idle"] \/ pc' = [pc EXCEPT ![t] = "rpc"]
    BY <1>10 DEF Take
  <2>2. Len(connections') = Len(connections) - 1
    BY <1>10, TakeMoves
  <2>3. Awake' = Awake \ {t} /\ t \in Awake
    BY <1>1, <2>1 DEF Awake
  <2>4. Cardinality(Awake') = Cardinality(Awake) - 1
    BY <1>2, <2>3, FS_RemoveElement
  <2> QED
    BY <1>1, <1>2, <1>3, <2>1, <2>2, <2>4
<1>11. ASSUME NEW t \in Threads, ReturnPush(t) PROVE Len(connections') <= Cardinality(Awake')
  <2>1. PICK u \in asleep : asleep' = asleep \ {u}
    BY <1>11 DEF ReturnPush, NotifyOne
  <2>2. pc[u] = "blocked" /\ u \in Threads
    BY <1>1, <2>1 DEF SleepInv
  <2>3. pc[t] = "push" /\ pc' = [pc EXCEPT ![t] = "idle"]
    BY <1>11 DEF ReturnPush
  <2>4. Awake' = Awake \cup {u} /\ u \notin Awake
    BY <1>1, <2>1, <2>2, <2>3 DEF Awake
  <2>5. Cardinality(Awake') = Cardinality(Awake) + 1
    BY <1>2, <2>4, FS_AddElement
  <2>6. Len(connections') = Len(connections) + 1
    BY <1>11, PushReturns
  <2> QED
    BY <1>1, <1>2, <1>3, <2>1, <2>5, <2>6
<1>12. ASSUME NEW t \in Threads, Rpc(t) PROVE Len(connections') <= Cardinality(Awake')
  <2>1. connections' = connections /\ asleep # {}
    BY <1>12 DEF Rpc
  <2>2. Awake \subseteq Awake'
    BY <1>1, <1>12 DEF Awake, Rpc
  <2> QED
    BY <1>4, <2>1, <2>2
<1>13. CASE UNCHANGED vars
  <2>1. connections' = connections /\ asleep # {} /\ Awake' = Awake
    BY <1>13 DEF vars, monitor, Awake
  <2> QED
    BY <1>4, <2>1
<1>14. ASSUME NEW t \in Threads, GetVarifyCode(t) \/ Lock(t) \/ WaitSpurious(t)
       PROVE  Len(connections') <= Cardinality(Awake')
  BY <1>6, <1>14 DEF GetVarifyCode, Lock, WaitSpurious
<1> QED
  BY <1>9, <1>10, <1>11, <1>12, <1>13, <1>14 DEF Next, Proceed

\* No wakeup is lost in getConnection: what a waiter depends on is elements, and
\* the nulls use them up.
THEOREM NoWakeupLost == Spec => []NoLostWakeup
<1>1. Init => SleepInv /\ NoLostWakeup
  BY DEF Init, MonitorInit, SleepInv, NoLostWakeup
<1>2. IInv /\ SleepInv /\ NoLostWakeup /\ [Next]_vars => SleepInv' /\ NoLostWakeup'
  BY SleepStep, WakeupStep
<1> QED
  BY Inductive, <1>1, <1>2, PTL DEF Spec

-----------------------------------------------------------------------------
\* One RPC at a time

\* The first stub is in one place: an element of the vector, or a thread.
FirstOnce ==
  /\ \A i, j \in DOMAIN connections : connections[i] = 1 /\ connections[j] = 1 => i = j
  /\ \A t \in Threads, i \in DOMAIN connections : stub[t] = 1 => connections[i] # 1
  /\ \A t, u \in Threads : stub[t] = 1 /\ stub[u] = 1 => t = u

\* Two calls of GetVarifyCode are never in their RPC at the same time.
OneRpc == \A t, u \in Threads : pc[t] = "rpc" /\ pc[u] = "rpc" => t = u

LEMMA OnceStep == IInv /\ FirstOnce /\ [Next]_vars => FirstOnce'
<1> SUFFICES ASSUME IInv, FirstOnce, [Next]_vars PROVE FirstOnce'
  OBVIOUS
<1>1. /\ stub \in [Threads -> 0 .. PoolSize] /\ connections \in Seq(0 .. PoolSize)
      /\ Len(connections) \in Nat /\ DOMAIN connections = 1 .. Len(connections)
      /\ Null # 1
  BY VarfiyGrpcClientAssumption, LenProperties DEF IInv, TypeOK
<1>2. CASE UNCHANGED <<connections, stub>>
  BY <1>2 DEF FirstOnce
<1>3. ASSUME NEW t \in Threads, Take(t) PROVE FirstOnce'
  <2>1. /\ Len(connections) \in Nat \ {0} /\ connections[1] \in 0 .. PoolSize
        /\ stub' = [stub EXCEPT ![t] = connections[1]]
    BY <1>3, TakeMoves
  <2>2. connections' = AfterTake(connections)
    BY <1>3 DEF Take
  <2>3. \A i \in DOMAIN connections' :
          i \in DOMAIN connections /\ (connections'[i] = 1 => i # 1 /\ connections[i] = 1)
    BY <1>1, <2>1, <2>2 DEF AfterTake
  <2>4. 1 \in DOMAIN connections
    BY <1>1, <2>1
  <2> QED
    BY <1>1, <2>1, <2>3, <2>4 DEF FirstOnce
<1>4. ASSUME NEW t \in Threads, ReturnPush(t) PROVE FirstOnce'
  <2>1. stub[t] = 1 /\ stub' = [stub EXCEPT ![t] = Null]
    BY <1>4, PushReturns
  <2>2. connections' = Append(connections, 1)
    BY <1>4, <2>1 DEF ReturnPush
  <2>3. /\ DOMAIN connections' = 1 .. Len(connections) + 1
        /\ \A i \in 1 .. Len(connections) : connections'[i] = connections[i]
    BY <1>1, <2>1, <2>2, AppendProperties, LenProperties
  <2>4. \A i \in DOMAIN connections :  connections[i] # 1
    BY <2>1 DEF FirstOnce
  <2>5. \A i \in DOMAIN connections' : connections'[i] = 1 => i = Len(connections) + 1
    BY <1>1, <2>3, <2>4
  <2>6. \A u \in Threads : stub'[u] # 1
    BY <1>1, <2>1 DEF FirstOnce
  <2> QED
    BY <2>5, <2>6 DEF FirstOnce
<1>5. ASSUME NEW t \in Threads, GetVarifyCode(t) \/ Lock(t) \/ Wait(t) \/ WaitSpurious(t) \/ Rpc(t)
      PROVE  FirstOnce'
  BY <1>2, <1>5 DEF GetVarifyCode, Lock, Wait, WaitSpurious, Rpc
<1>6. CASE UNCHANGED vars
  BY <1>2, <1>6 DEF vars
<1> QED
  BY <1>3, <1>4, <1>5, <1>6 DEF Next, Proceed

\* However many stubs the pool was made with, one verification RPC runs at a
\* time: the pool that was to make them concurrent does not, because its
\* getConnection destroys every stub but the one it has lent.
THEOREM RpcsExclusive == Spec => []OneRpc
<1>1. Init => FirstOnce
  BY VarfiyGrpcClientAssumption DEF Init, FirstOnce
<1>2. IInv /\ FirstOnce /\ [Next]_vars => FirstOnce'
  BY OnceStep
<1>3. IInv /\ FirstOnce => OneRpc
  BY DEF IInv, HoldInv, OnlyFirstStub, FirstOnce, OneRpc
<1> QED
  BY Inductive, <1>1, <1>2, <1>3, PTL DEF Spec
=============================================================================
