---------------------------- MODULE RedisMgrProofs ----------------------------
(***************************************************************************)
(* Proofs about RedisMgr, for any threads, any size of the pool and any    *)
(* number of connect(), close() and other calls.                           *)
(*                                                                         *)
(* That a null pointer means a busy pool rests on a count that only        *)
(* close() lowers (StockInv), and on what the last test has seen           *)
(* (FoundInv); that a connection can be numbered at all rests on the count *)
(* of those still to be created (RoomInv).                                 *)
(***************************************************************************)
EXTENDS RedisMgr, FiniteSetTheorems, SequenceTheorems, WellFoundedInduction, TLAPS

\* A thread holds the mutex exactly between its lock and its unlock, and is in
\* the wait as long as it may be notified.
LockInv == \A t \in Threads :
  /\ owner = t <=> pc[t] \in {"test", "sleep", "take", "give_up"}
  /\ t \in asleep => pc[t] = "blocked"

\* How far each connect() has come.
OpenInv == \A t \in Threads :
  /\ pc[t] \in {"open", "fill"} => opened[t] < PoolSize
  /\ pc[t] = "filled" => opened[t] = PoolSize
  /\ pc[t] \notin {"open", "fill", "filled"} => opened[t] = 0

\* Who may hold a connection, and who does.
HoldInv == \A t \in Threads :
  /\ conn[t] # NoConn => pc[t] \in {"fill", "using", "done", "failed"}
  /\ pc[t] \in {"fill", "done", "failed"} => conn[t] # NoConn

\* What a test has found of the queue is still so when its thread acts on it.
FoundInv == \A t \in Threads :
  /\ pc[t] = "take" => connection_pool # <<>>
  /\ pc[t] = "give_up" => connection_pool = <<>>

\* The connections each connect() has yet to create.
Pending ==
  {p \in Threads \X (1 .. PoolSize) :
     \/ pc[p[1]] = "open" /\ p[2] > opened[p[1]]
     \/ pc[p[1]] = "fill" /\ p[2] > opened[p[1]] + 1}

Holding == {t \in Threads : conn[t] # NoConn}

\* No more connections exist and are to come than connect() was called for.
RoomInv ==
  Len(connection_pool) + Cardinality(Holding) + Cardinality(Pending) <= PoolSize * connects

\* Connections that are queued or in use by an operation.
Stock == Len(connection_pool) + Cardinality(Busy)

Calling == {"lock", "test", "sleep", "blocked", "take", "expired", "give_up", "using", "done",
            "failed"}

\* Before the first close() the stock holds all that any connect() has queued,
\* and operations begin only with PoolSize connections in it.
StockInv ==
  closes = 0 =>
    /\ \A t \in Threads : opened[t] <= Stock
    /\ connected \/ (\E t \in Threads : pc[t] \in Calling) => PoolSize <= Stock

IInv ==
  /\ TypeOK
  /\ LockInv
  /\ OpenInv
  /\ HoldInv
  /\ FoundInv
  /\ RoomInv
  /\ StockInv

-----------------------------------------------------------------------------
\* Finite sets, and the number of a new connection

LEMMA FiniteCounts ==
  /\ IsFiniteSet(Holding) /\ Cardinality(Holding) \in Nat
  /\ IsFiniteSet(Holding') /\ Cardinality(Holding') \in Nat
  /\ IsFiniteSet(Busy) /\ Cardinality(Busy) \in Nat
  /\ IsFiniteSet(Busy') /\ Cardinality(Busy') \in Nat
  /\ IsFiniteSet(Pending) /\ Cardinality(Pending) \in Nat
  /\ IsFiniteSet(Pending') /\ Cardinality(Pending') \in Nat
<1>1. ASSUME NEW S \in SUBSET Threads PROVE IsFiniteSet(S) /\ Cardinality(S) \in Nat
  BY RedisMgrAssumption, FS_Subset, FS_CardinalityType
<1>2. IsFiniteSet(1 .. PoolSize)
  BY RedisMgrAssumption, FS_Interval
<1>3. IsFiniteSet(Threads \X (1 .. PoolSize))
  BY <1>2, RedisMgrAssumption, FS_Product
<1>4. ASSUME NEW S \in SUBSET (Threads \X (1 .. PoolSize))
      PROVE  IsFiniteSet(S) /\ Cardinality(S) \in Nat
  BY <1>3, FS_Subset, FS_CardinalityType
<1>5. Holding \subseteq Threads /\ Holding' \subseteq Threads
  BY DEF Holding
<1>6. Busy \subseteq Threads /\ Busy' \subseteq Threads
  BY DEF Busy
<1>7. Pending \subseteq Threads \X (1 .. PoolSize) /\ Pending' \subseteq Threads \X (1 .. PoolSize)
  BY DEF Pending
<1> QED
  BY <1>1, <1>4, <1>5, <1>6, <1>7

LEMMA CountTo ==
  ASSUME NEW n \in Nat
  PROVE  IsFiniteSet(1 .. n) /\ Cardinality(1 .. n) = n
<1>1. /\ IsFiniteSet(1 .. n)
      /\ Cardinality(1 .. n) = IF 1 > n THEN 0 ELSE n - 1 + 1
  BY FS_Interval
<1> QED
  BY <1>1

\* A set of natural numbers that is not empty has a least element.
LEMMA LeastNumber ==
  ASSUME NEW S \in SUBSET Nat, S # {}
  PROVE  \E k \in S : \A j \in S : k <= j
<1> DEFINE R == OpToRel(<, Nat)
<1>1. IsWellFoundedOn(R, Nat)
  BY NatLessThanWellFounded
<1>2. \A i, j \in Nat : i < j => <<i, j>> \in R
  BY DEF OpToRel
<1> HIDE DEF R
<1>3. PICK k \in S : \A j \in S : ~ (<<j, k>> \in R)
  BY <1>1, WFMin
<1>4. \A j \in S : k \in Nat /\ j \in Nat /\ ~ (j < k)
  BY <1>2, <1>3
<1> QED
  BY <1>4

\* A function's values are no more than its arguments.
LEMMA FewValues ==
  ASSUME NEW f, NEW S, IsFiniteSet(S)
  PROVE  /\ IsFiniteSet({f[x] : x \in S})
         /\ Cardinality({f[x] : x \in S}) <= Cardinality(S)
<1> DEFINE T == {f[x] : x \in S}
           g == [x \in S |-> f[x]]
<1>1. g \in Surjection(S, T)
  BY DEF Surjection
<1> HIDE DEF T, g
<1>2. IsFiniteSet(T) /\ Cardinality(T) <= Cardinality(S)
  BY <1>1, FS_Surjection
<1> QED
  BY <1>2 DEF T

\* While a connect() has a connection to create, there is a number for it.
LEMMA NewConnFresh ==
  ASSUME TypeOK, OpenInv, RoomInv, NEW t \in Threads, pc[t] = "open"
  PROVE  NewConn \in Conns /\ NewConn \notin Created
<1> DEFINE Queued == {connection_pool[i] : i \in DOMAIN connection_pool}
           Held == {conn[u] : u \in Holding}
<1>1. /\ PoolSize \in Nat /\ MaxConnects \in Nat /\ PoolSize * MaxConnects \in Nat
      /\ connects \in Nat /\ connects <= MaxConnects
  BY RedisMgrAssumption DEF TypeOK
<1>2. Len(connection_pool) \in Nat /\ DOMAIN connection_pool = 1 .. Len(connection_pool)
  BY LenProperties DEF TypeOK
<1>3. IsFiniteSet(Queued) /\ Cardinality(Queued) <= Len(connection_pool)
  <2>1. /\ IsFiniteSet(DOMAIN connection_pool)
        /\ Cardinality(DOMAIN connection_pool) = Len(connection_pool)
    BY <1>2, CountTo
  <2> QED
    BY <2>1, FewValues
<1>4. IsFiniteSet(Held) /\ Cardinality(Held) <= Cardinality(Holding)
  BY FiniteCounts, FewValues
<1>5. Cardinality(Pending) # 0
  <2>1. opened[t] + 1 \in 1 .. PoolSize /\ opened[t] \in Nat
    BY RedisMgrAssumption DEF TypeOK, OpenInv
  <2>2. <<t, opened[t] + 1>> \in Pending
    BY <2>1 DEF Pending, TypeOK
  <2> QED
    BY <2>2, FiniteCounts, FS_EmptySet
<1> HIDE DEF Queued, Held
<1>6. IsFiniteSet(Queued \cup Held) /\ Cardinality(Queued \cup Held) < PoolSize * connects
  <2>1. /\ IsFiniteSet(Queued \cup Held) /\ Cardinality(Queued \cap Held) \in Nat
        /\ Cardinality(Queued \cup Held)
             = Cardinality(Queued) + Cardinality(Held) - Cardinality(Queued \cap Held)
    BY <1>3, <1>4, FS_Union, FS_Intersection, FS_CardinalityType
  <2>2. /\ Len(connection_pool) + Cardinality(Holding) + Cardinality(Pending)
             <= PoolSize * connects
        /\ PoolSize * connects \in Nat
    BY <1>1 DEF RoomInv
  <2>3. Cardinality(Queued) \in Nat /\ Cardinality(Held) \in Nat
    BY <1>3, <1>4, FS_CardinalityType
  <2> QED
    BY <1>2, <1>3, <1>4, <1>5, <2>1, <2>2, <2>3, FiniteCounts
<1>7. PoolSize * connects <= PoolSize * MaxConnects
  BY <1>1
<1>8. IsFiniteSet(Conns) /\ Cardinality(Conns) = PoolSize * MaxConnects
  BY <1>1, CountTo DEF Conns
<1>9. ~ (Conns \subseteq Queued \cup Held)
  <2> SUFFICES ASSUME Conns \subseteq Queued \cup Held PROVE FALSE
    OBVIOUS
  <2>1. Cardinality(Conns) <= Cardinality(Queued \cup Held)
    BY <1>6, FS_Subset
  <2> QED
    BY <1>1, <1>6, <1>7, <1>8, <2>1, FS_CardinalityType
<1>10. Conns \ Created # {}
  <2>1. NoConn \notin Conns
    BY RedisMgrAssumption, <1>1 DEF Conns
  <2>2. Created \subseteq Queued \cup Held \cup {NoConn}
    BY DEF Created, Queued, Held, Holding
  <2> QED
    BY <1>9, <2>1, <2>2
<1>11. Conns \subseteq Nat
  BY <1>1 DEF Conns
<1>12. \E c \in Conns \ Created : \A d \in Conns \ Created : c <= d
  BY <1>10, <1>11, LeastNumber
<1> QED
  BY <1>12 DEF NewConn

-----------------------------------------------------------------------------
\* The inductive invariant

LEMMA InitIInv == Init => IInv
<1> SUFFICES ASSUME Init PROVE IInv
  OBVIOUS
<1> USE MonitorAssumption, RedisMgrAssumption DEF Init, MonitorInit
<1>1. TypeOK
  <2>1. connected \in BOOLEAN /\ crashed \in BOOLEAN
    OBVIOUS
  <2>2. connection_pool \in Seq(Conns)
    OBVIOUS
  <2>3. opened \in [Threads -> 0 .. PoolSize]
    OBVIOUS
  <2> QED
    BY <2>1, <2>2, <2>3 DEF TypeOK, Labels
<1>2. LockInv /\ OpenInv /\ HoldInv /\ FoundInv
  BY DEF LockInv, OpenInv, HoldInv, FoundInv
<1>3. Holding = {} /\ Pending = {} /\ Busy = {}
  BY DEF Holding, Pending, Busy
<1>4. Len(connection_pool) = 0 /\ Cardinality({}) = 0
  BY FS_EmptySet, EmptySeq
<1>5. RoomInv
  BY <1>3, <1>4 DEF RoomInv
<1>6. StockInv
  BY <1>3, <1>4 DEF StockInv, Stock, Calling
<1> QED
  BY <1>1, <1>2, <1>5, <1>6 DEF IInv

\* What a getConnection that succeeds does to the queue and to the thread.
LEMMA TakeLends ==
  ASSUME IInv, NEW t \in Threads, Take(t)
  PROVE  /\ Len(connection_pool) \in Nat \ {0} /\ connection_pool' \in Seq(Conns)
         /\ Len(connection_pool') = Len(connection_pool) - 1
         /\ Head(connection_pool) \in Conns /\ Head(connection_pool) # NoConn
         /\ conn[t] = NoConn
         /\ conn' = [conn EXCEPT ![t] = Head(connection_pool)]
         /\ pc[t] = "take" /\ pc' = [pc EXCEPT ![t] = "using"]
<1>1. connection_pool \in Seq(Conns) /\ connection_pool # <<>> /\ conn[t] = NoConn
  BY DEF IInv, TypeOK, FoundInv, HoldInv, Take
<1>2. /\ Len(connection_pool) \in Nat \ {0} /\ Head(connection_pool) \in Conns
      /\ Tail(connection_pool) \in Seq(Conns)
      /\ Len(Tail(connection_pool)) = Len(connection_pool) - 1
  BY <1>1, EmptySeq, LenProperties, HeadTailProperties
<1>3. NoConn \notin Conns
  BY RedisMgrAssumption DEF Conns
<1> QED
  BY <1>1, <1>2, <1>3 DEF Take, Goto

\* What queuing a connection does, in connect() and in returnConnection().
LEMMA PushQueues ==
  ASSUME IInv, NEW t \in Threads, Fill(t) \/ Done(t) \/ Failed(t)
  PROVE  /\ Len(connection_pool) \in Nat /\ connection_pool' \in Seq(Conns)
         /\ Len(connection_pool') = Len(connection_pool) + 1
         /\ conn[t] # NoConn /\ conn' = [conn EXCEPT ![t] = NoConn]
         /\ owner = NoThread
<1>1. /\ connection_pool \in Seq(Conns) /\ conn[t] \in Conns /\ conn[t] # NoConn
      /\ connection_pool' = Append(connection_pool, conn[t])
  BY DEF IInv, TypeOK, HoldInv, Fill, Done, Failed, Return
<1> QED
  BY <1>1, AppendProperties, LenProperties DEF Fill, Done, Failed, Return

LEMMA TypeStep == IInv /\ [Next]_vars => TypeOK'
<1> SUFFICES ASSUME IInv, [Next]_vars PROVE TypeOK'
  OBVIOUS
<1> USE DEF TypeOK, Labels, Goto, counters, pool
<1>1. TypeOK
  BY DEF IInv
<1>2. ASSUME NEW t \in Threads, Connect(t) \/ Call(t) PROVE TypeOK'
  BY <1>1, <1>2, RedisMgrAssumption DEF Connect, Call
<1>3. ASSUME NEW t \in Threads, Ping(t) PROVE TypeOK'
  <2>1. NewConn \in Conns /\ 0 \in 0 .. PoolSize
    BY <1>3, NewConnFresh, RedisMgrAssumption DEF IInv, Ping
  <2>2. connected' \in BOOLEAN
    BY <1>1, <1>3 DEF Ping
  <2> QED
    BY <1>1, <1>3, <2>1, <2>2 DEF Ping
<1>4. ASSUME NEW t \in Threads, Fill(t) PROVE TypeOK'
  <2>1. opened[t] + 1 \in 0 .. PoolSize
    BY <1>1, <1>4, RedisMgrAssumption DEF IInv, OpenInv, Fill
  <2>2. connection_pool' \in Seq(Conns)
    BY <1>4, PushQueues
  <2> QED
    BY <1>1, <1>4, <2>1, <2>2 DEF Fill
<1>5. ASSUME NEW t \in Threads, Filled(t) PROVE TypeOK'
  <2>1. connected' \in BOOLEAN /\ 0 \in 0 .. PoolSize
    BY <1>5, RedisMgrAssumption DEF Filled
  <2> QED
    BY <1>1, <1>5, <2>1 DEF Filled
<1>6. ASSUME NEW t \in Threads, Lock(t) \/ Wait(t) \/ WaitSpurious(t) PROVE TypeOK'
  BY <1>1, <1>6 DEF Lock, Wait, Test, Sleep, Wake, Acquire, WaitSpurious, SpuriousWakeup
<1>7. ASSUME NEW t \in Threads, TimeOut(t) \/ LastTest(t) \/ GiveUp(t) PROVE TypeOK'
  BY <1>1, <1>7 DEF TimeOut, LastTest, GiveUp
<1>8. ASSUME NEW t \in Threads, Take(t) PROVE TypeOK'
  <2>1. connection_pool' \in Seq(Conns) /\ Head(connection_pool) \in Conns
    BY <1>8, TakeLends
  <2> QED
    BY <1>1, <1>8, <2>1 DEF Take
<1>9. ASSUME NEW t \in Threads, Command(t) PROVE TypeOK'
  <2>1. crashed' \in BOOLEAN
    BY <1>1, <1>9 DEF Command
  <2> QED
    BY <1>1, <1>9, <2>1 DEF Command
<1>10. ASSUME NEW t \in Threads, Done(t) \/ Failed(t) PROVE TypeOK'
  <2>1. connection_pool' \in Seq(Conns)
    BY <1>10, PushQueues
  <2> QED
    BY <1>1, <1>10, <2>1 DEF Done, Failed, Return, NotifyOne
<1>11. CASE Close
  <2>1. connected' \in BOOLEAN
    BY <1>11 DEF Close
  <2>2. connection_pool' \in Seq(Conns)
    BY <1>11 DEF Close
  <2>3. closes' \in 0 .. MaxCloses
    BY <1>1, <1>11, RedisMgrAssumption DEF Close
  <2> QED
    BY <1>1, <1>11, <2>1, <2>2, <2>3 DEF Close, monitor
<1>12. CASE UNCHANGED vars
  BY <1>1, <1>12 DEF vars, monitor
<1> QED
  BY <1>2, <1>3, <1>4, <1>5, <1>6, <1>7, <1>8, <1>9, <1>10, <1>11, <1>12 DEF Next, Proceed, Operation

\* Mutex, progress of the connect() calls, connections held and what the tests
\* have found follow the labels.
LEMMA ControlStep == IInv /\ [Next]_vars => LockInv' /\ OpenInv' /\ HoldInv' /\ FoundInv'
<1> DEFINE Control == LockInv /\ OpenInv /\ HoldInv /\ FoundInv
<1> SUFFICES ASSUME IInv, [Next]_vars PROVE Control'
  OBVIOUS
<1> USE MonitorAssumption, RedisMgrAssumption
    DEF LockInv, OpenInv, HoldInv, FoundInv, Goto, counters, pool
<1>1. Control
  BY DEF IInv
<1>2. /\ DOMAIN pc = Threads /\ DOMAIN conn = Threads
      /\ opened \in [Threads -> 0 .. PoolSize]
  BY DEF IInv, TypeOK
<1>3. ASSUME NEW t \in Threads, Connect(t) \/ Call(t) PROVE Control'
  BY <1>1, <1>2, <1>3 DEF Connect, Call
<1>4. ASSUME NEW t \in Threads, Ping(t) PROVE Control'
  <2>1. NewConn # NoConn
    BY <1>4, NewConnFresh DEF IInv, Ping, Conns
  <2> QED
    BY <1>1, <1>2, <1>4, <2>1 DEF Ping
<1>5. ASSUME NEW t \in Threads, Fill(t) PROVE Control'
  <2>1. connection_pool' # <<>>
    BY <1>5, PushQueues, EmptySeq
  <2> QED
    BY <1>1, <1>2, <1>5, <2>1 DEF Fill
<1>6. ASSUME NEW t \in Threads, Filled(t) PROVE Control'
  BY <1>1, <1>2, <1>6 DEF Filled
<1>7. ASSUME NEW t \in Threads, Lock(t) \/ Wait(t) \/ WaitSpurious(t) PROVE Control'
  BY <1>1, <1>2, <1>7
  DEF Lock, Wait, Test, Sleep, Wake, Acquire, WaitSpurious, SpuriousWakeup
<1>8. ASSUME NEW t \in Threads, TimeOut(t) \/ LastTest(t) \/ GiveUp(t) PROVE Control'
  BY <1>1, <1>2, <1>8 DEF TimeOut, LastTest, GiveUp
<1>9. ASSUME NEW t \in Threads, Take(t) PROVE Control'
  BY <1>1, <1>2, <1>9 DEF Take
<1>10. ASSUME NEW t \in Threads, Command(t) PROVE Control'
  BY <1>1, <1>2, <1>10 DEF Command
<1>11. ASSUME NEW t \in Threads, Done(t) \/ Failed(t) PROVE Control'
  <2>1. connection_pool' # <<>>
    BY <1>11, PushQueues, EmptySeq
  <2>2. asleep' \subseteq asleep
    BY <1>11 DEF Done, Failed, Return, NotifyOne
  <2>3. /\ pc[t] \in {"done", "failed"} /\ owner = NoThread /\ owner' = owner
        /\ pc' = [pc EXCEPT ![t] = "idle"] /\ conn' = [conn EXCEPT ![t] = NoConn]
        /\ opened' = opened
    BY <1>11 DEF Done, Failed, Return
  <2> QED
    BY <1>1, <1>2, <2>1, <2>2, <2>3
<1>12. CASE Close
  BY <1>1, <1>12 DEF Close, monitor
<1>13. CASE UNCHANGED vars
  BY <1>1, <1>13 DEF vars, monitor
<1> QED
  BY <1>3, <1>4, <1>5, <1>6, <1>7, <1>8, <1>9, <1>10, <1>11, <1>12, <1>13 DEF Next, Proceed, Operation

\* A step that is not one of connect()'s leaves what is pending as it is.
LEMMA PendingKept ==
  ASSUME \A u \in Threads :
           /\ pc'[u] = "open" <=> pc[u] = "open"
           /\ pc'[u] = "fill" <=> pc[u] = "fill"
           /\ pc[u] \in {"open", "fill"} => opened'[u] = opened[u]
  PROVE  Pending' = Pending
BY DEF Pending

\* The numbers that are compared, and what suffices to keep their relation.
LEMMA RoomKept ==
  ASSUME IInv, connects' = connects, Len(connection_pool') \in Nat,
         Len(connection_pool') + Cardinality(Holding') + Cardinality(Pending')
           <= Len(connection_pool) + Cardinality(Holding) + Cardinality(Pending)
  PROVE  RoomInv'
<1>1. Len(connection_pool) \in Nat /\ PoolSize * connects \in Nat
  BY RedisMgrAssumption, LenProperties DEF IInv, TypeOK
<1>2. Len(connection_pool) + Cardinality(Holding) + Cardinality(Pending) <= PoolSize * connects
  BY DEF IInv, RoomInv
<1>3. PoolSize * connects' = PoolSize * connects
  OBVIOUS
<1> QED
  BY <1>1, <1>2, <1>3, FiniteCounts DEF RoomInv

LEMMA RoomStep == IInv /\ [Next]_vars => RoomInv'
<1> SUFFICES ASSUME IInv, [Next]_vars PROVE RoomInv'
  OBVIOUS
<1> USE DEF Goto, counters, pool
<1>1. /\ Len(connection_pool) \in Nat /\ connects \in Nat
      /\ pc \in [Threads -> Labels] /\ opened \in [Threads -> 0 .. PoolSize]
      /\ conn \in [Threads -> Conns \cup {NoConn}]
  BY LenProperties DEF IInv, TypeOK
<1>2. ASSUME connection_pool' = connection_pool, conn' = conn, connects' = connects,
             Pending' = Pending
      PROVE  RoomInv'
  <2>1. Holding' = Holding
    BY <1>2 DEF Holding
  <2> QED
    BY <1>1, <1>2, <2>1, FiniteCounts, RoomKept
<1>3. ASSUME NEW t \in Threads, Connect(t) PROVE RoomInv'
  <2> DEFINE Rest == {t} \X (1 .. PoolSize)
  <2>1. Cardinality(Rest) = PoolSize /\ IsFiniteSet(Rest)
    <3>1. IsFiniteSet({t}) /\ Cardinality({t}) = 1
      BY FS_Singleton
    <3>2. IsFiniteSet(1 .. PoolSize) /\ Cardinality(1 .. PoolSize) = PoolSize /\ PoolSize \in Nat
      BY CountTo, RedisMgrAssumption
    <3>3. IsFiniteSet(Rest) /\ Cardinality(Rest) = Cardinality({t}) * Cardinality(1 .. PoolSize)
      BY <3>1, <3>2, FS_Product
    <3>4. \A k \in Nat : 1 * k = k
      OBVIOUS
    <3> HIDE DEF Rest
    <3> QED
      BY <3>1, <3>2, <3>3, <3>4
  <2>2. opened[t] = 0 /\ opened' = opened /\ pc' = [pc EXCEPT ![t] = "open"]
    BY <1>3 DEF IInv, OpenInv, Connect
  <2>3. Pending' \subseteq Pending \cup Rest
    BY <1>1, <2>2 DEF Pending
  <2>4. Cardinality(Pending') <= Cardinality(Pending) + PoolSize
    <3> HIDE DEF Rest
    <3>1. /\ IsFiniteSet(Pending \cup Rest) /\ Cardinality(Pending \cap Rest) \in Nat
          /\ Cardinality(Pending \cup Rest)
               = Cardinality(Pending) + Cardinality(Rest) - Cardinality(Pending \cap Rest)
      BY <2>1, FiniteCounts, FS_Union, FS_Intersection, FS_CardinalityType
    <3>2. Cardinality(Pending') <= Cardinality(Pending \cup Rest)
      BY <2>3, <3>1, FS_Subset
    <3> QED
      BY <2>1, <3>1, <3>2, FiniteCounts, RedisMgrAssumption
  <2>5. connection_pool' = connection_pool /\ Holding' = Holding /\ connects' = connects + 1
    BY <1>3 DEF Connect, Holding
  <2>6. PoolSize * connects' = PoolSize * connects + PoolSize /\ PoolSize * connects \in Nat
    BY <1>1, <2>5, RedisMgrAssumption
  <2>7. Len(connection_pool) + Cardinality(Holding) + Cardinality(Pending) <= PoolSize * connects
    BY DEF IInv, RoomInv
  <2> QED
    BY <1>1, <2>4, <2>5, <2>6, <2>7, FiniteCounts, RedisMgrAssumption DEF RoomInv
<1>4. ASSUME NEW t \in Threads, Ping(t) PROVE RoomInv'
  <2>1. connection_pool' = connection_pool /\ connects' = connects /\ pc[t] = "open"
        /\ conn[t] = NoConn /\ opened[t] \in 0 .. PoolSize /\ opened[t] < PoolSize
    BY <1>1, <1>4 DEF Ping, IInv, HoldInv, OpenInv
  <2>2. CASE conn' = [conn EXCEPT ![t] = NewConn] /\ pc' = [pc EXCEPT ![t] = "fill"]
             /\ opened' = opened
    <3>1. NewConn # NoConn
      BY <1>4, NewConnFresh, RedisMgrAssumption DEF IInv, Ping, Conns
    <3>2. Holding' = Holding \cup {t} /\ t \notin Holding
      BY <1>1, <2>1, <2>2, <3>1 DEF Holding
    <3>3. Cardinality(Holding') = Cardinality(Holding) + 1
      BY <3>2, FiniteCounts, FS_AddElement
    <3>4. Pending' = Pending \ {<<t, opened[t] + 1>>} /\ <<t, opened[t] + 1>> \in Pending
      BY <1>1, <2>1, <2>2, RedisMgrAssumption DEF Pending
    <3>5. Cardinality(Pending') = Cardinality(Pending) - 1
      BY <3>4, FiniteCounts, FS_RemoveElement
    <3> QED
      BY <1>1, <2>1, <3>3, <3>5, FiniteCounts, RoomKept
  <2>3. CASE conn' = conn /\ pc' = [pc EXCEPT ![t] = "idle"]
             /\ opened' = [opened EXCEPT ![t] = 0]
    <3>1. Pending' \subseteq Pending
      BY <1>1, <2>3 DEF Pending
    <3>2. Cardinality(Pending') <= Cardinality(Pending)
      BY <3>1, FiniteCounts, FS_Subset
    <3>3. Holding' = Holding
      BY <2>3 DEF Holding
    <3> QED
      BY <1>1, <2>1, <3>2, <3>3, FiniteCounts, RoomKept
  <2> QED
    BY <1>4, <2>2, <2>3 DEF Ping
<1>5. ASSUME NEW t \in Threads, Fill(t) PROVE RoomInv'
  <2>1. /\ Len(connection_pool') = Len(connection_pool) + 1
        /\ Holding' = Holding \ {t} /\ t \in Holding
    BY <1>1, <1>5, PushQueues DEF Holding
  <2>2. Cardinality(Holding') = Cardinality(Holding) - 1
    BY <2>1, FiniteCounts, FS_RemoveElement
  <2>3. Pending' \subseteq Pending
    <3>1. opened[t] \in Nat /\ pc[t] = "fill"
      BY <1>1, <1>5, RedisMgrAssumption DEF Fill
    <3>2. opened' = [opened EXCEPT ![t] = opened[t] + 1]
      BY <1>5 DEF Fill
    <3>3. pc' = [pc EXCEPT ![t] = "filled"] \/ pc' = [pc EXCEPT ![t] = "open"]
      BY <1>5 DEF Fill
    <3> QED
      BY <1>1, <3>1, <3>2, <3>3 DEF Pending
  <2>4. Cardinality(Pending') <= Cardinality(Pending)
    BY <2>3, FiniteCounts, FS_Subset
  <2>5. connects' = connects
    BY <1>5 DEF Fill
  <2> QED
    BY <1>1, <2>1, <2>2, <2>4, <2>5, FiniteCounts, RoomKept
<1>6. ASSUME NEW t \in Threads, Filled(t) \/ Call(t) PROVE RoomInv'
  <2>1. Pending' = Pending
    BY <1>1, <1>6, PendingKept DEF Filled, Call
  <2> QED
    BY <1>2, <1>6, <2>1 DEF Filled, Call
<1>7. ASSUME NEW t \in Threads, Lock(t) \/ Wait(t) \/ WaitSpurious(t) PROVE RoomInv'
  <2>1. Pending' = Pending
    BY <1>1, <1>7, PendingKept
    DEF Lock, Wait, Test, Sleep, Wake, Acquire, WaitSpurious, SpuriousWakeup
  <2> QED
    BY <1>2, <1>7, <2>1 DEF Lock, Wait, WaitSpurious
<1>8. ASSUME NEW t \in Threads, TimeOut(t) \/ LastTest(t) \/ GiveUp(t) PROVE RoomInv'
  <2>1. t \in asleep => pc[t] = "blocked"
    BY DEF IInv, LockInv
  <2>2. Pending' = Pending
    BY <1>1, <1>8, <2>1, PendingKept DEF TimeOut, LastTest, GiveUp
  <2> QED
    BY <1>2, <1>8, <2>2 DEF TimeOut, LastTest, GiveUp
<1>9. ASSUME NEW t \in Threads, Take(t) PROVE RoomInv'
  <2>1. /\ Len(connection_pool') = Len(connection_pool) - 1 /\ Len(connection_pool') \in Nat
        /\ Holding' = Holding \cup {t} /\ t \notin Holding
    BY <1>1, <1>9, TakeLends DEF Holding
  <2>2. Cardinality(Holding') = Cardinality(Holding) + 1
    BY <2>1, FiniteCounts, FS_AddElement
  <2>3. Pending' = Pending
    BY <1>1, <1>9, PendingKept DEF Take
  <2>4. connects' = connects
    BY <1>9 DEF Take
  <2> QED
    BY <1>1, <2>1, <2>2, <2>3, <2>4, FiniteCounts, RoomKept
<1>10. ASSUME NEW t \in Threads, Command(t) PROVE RoomInv'
  <2>1. pc' = pc \/ pc' = [pc EXCEPT ![t] = "done"] \/ pc' = [pc EXCEPT ![t] = "failed"]
    BY <1>10 DEF Command
  <2>2. Pending' = Pending
    BY <1>1, <1>10, <2>1, PendingKept DEF Command
  <2> QED
    BY <1>2, <1>10, <2>2 DEF Command
<1>11. ASSUME NEW t \in Threads, Done(t) \/ Failed(t) PROVE RoomInv'
  <2>1. /\ Len(connection_pool') = Len(connection_pool) + 1
        /\ Holding' = Holding \ {t} /\ t \in Holding
    BY <1>1, <1>11, PushQueues DEF Holding
  <2>2. Cardinality(Holding') = Cardinality(Holding) - 1
    BY <2>1, FiniteCounts, FS_RemoveElement
  <2>3. Pending' = Pending
    BY <1>1, <1>11, PendingKept DEF Done, Failed, Return
  <2>4. connects' = connects
    BY <1>11 DEF Done, Failed, Return
  <2> QED
    BY <1>1, <2>1, <2>2, <2>3, <2>4, FiniteCounts, RoomKept
<1>12. CASE Close
  <2>1. Len(connection_pool') = 0 /\ connects' = connects
    BY <1>12, EmptySeq DEF Close
  <2>2. Holding' = Holding /\ Pending' = Pending
    BY <1>12 DEF Close, Holding, Pending, monitor
  <2> QED
    BY <1>1, <2>1, <2>2, FiniteCounts, RoomKept
<1>13. CASE UNCHANGED vars
  BY <1>2, <1>13 DEF vars, monitor, Pending
<1> QED
  BY <1>3, <1>4, <1>5, <1>6, <1>7, <1>8, <1>9, <1>10, <1>11, <1>12, <1>13 DEF Next, Proceed, Operation

\* Nothing but close() lowers the stock; what suffices for a step to keep it.
LEMMA StockKept ==
  ASSUME IInv, TypeOK', closes' = closes,
         Len(connection_pool) + Cardinality(Busy)
           <= Len(connection_pool') + Cardinality(Busy'),
         \A t \in Threads : opened'[t] <= opened[t] \/ opened'[t] <= Stock',
         \/ ~ (connected' \/ \E t \in Threads : pc'[t] \in Calling)
         \/ connected \/ \E t \in Threads : pc[t] \in Calling
         \/ \E t \in Threads : opened[t] = PoolSize
  PROVE  StockInv'
<1>1. /\ Len(connection_pool) \in Nat /\ PoolSize \in Nat
      /\ \A t \in Threads : opened[t] \in Nat /\ opened'[t] \in Nat
      /\ Len(connection_pool') \in Nat
  BY RedisMgrAssumption, LenProperties DEF IInv, TypeOK
<1>2. Stock \in Nat /\ Stock' \in Nat /\ Stock <= Stock'
  BY <1>1, FiniteCounts DEF Stock
<1> SUFFICES ASSUME closes' = 0
             PROVE  /\ \A t \in Threads : opened'[t] <= Stock'
                    /\ connected' \/ (\E t \in Threads : pc'[t] \in Calling) => PoolSize <= Stock'
  BY DEF StockInv, Calling
<1>3. /\ \A t \in Threads : opened[t] <= Stock
      /\ connected \/ (\E t \in Threads : pc[t] \in Calling) => PoolSize <= Stock
  BY DEF IInv, StockInv
<1>4. ASSUME NEW t \in Threads PROVE opened'[t] <= Stock'
  BY <1>1, <1>2, <1>3
<1>5. ASSUME connected' \/ \E t \in Threads : pc'[t] \in Calling PROVE PoolSize <= Stock'
  <2>1. PoolSize <= Stock
    BY <1>3, <1>5
  <2> QED
    BY <1>1, <1>2, <2>1
<1> QED
  BY <1>4, <1>5

LEMMA StockStep == IInv /\ [Next]_vars => StockInv'
<1> SUFFICES ASSUME IInv, [Next]_vars PROVE StockInv'
  OBVIOUS
<1> USE DEF Goto, counters, pool
<1>0. TypeOK'
  BY TypeStep
<1>1. /\ Len(connection_pool) \in Nat /\ Len(connection_pool') \in Nat
      /\ pc \in [Threads -> Labels] /\ opened \in [Threads -> 0 .. PoolSize]
      /\ conn \in [Threads -> Conns \cup {NoConn}]
      /\ \A t \in Threads : opened[t] \in Nat /\ 0 <= opened[t]
  BY <1>0, LenProperties DEF IInv, TypeOK
<1>2. ASSUME connection_pool' = connection_pool, closes' = closes,
             Busy' = Busy, \A t \in Threads : opened'[t] <= opened[t],
             \/ ~ (connected' \/ \E t \in Threads : pc'[t] \in Calling)
             \/ connected \/ \E t \in Threads : pc[t] \in Calling
             \/ \E t \in Threads : opened[t] = PoolSize
      PROVE  StockInv'
  BY <1>0, <1>1, <1>2, FiniteCounts, StockKept
<1>3. ASSUME NEW t \in Threads, Connect(t) \/ Call(t) PROVE StockInv'
  <2>1. /\ connected' = connected /\ opened' = opened /\ Busy' = Busy
        /\ connection_pool' = connection_pool /\ closes' = closes
    BY <1>1, <1>3 DEF Connect, Call, Busy
  <2>2. ASSUME NEW u \in Threads, pc'[u] \in Calling
        PROVE  connected \/ pc[u] \in Calling
    BY <1>1, <1>3, <2>2 DEF Connect, Call, Calling
  <2> QED
    BY <1>1, <1>2, <2>1, <2>2
<1>4. ASSUME NEW t \in Threads, Ping(t) PROVE StockInv'
  <2>1. /\ connected' => connected
        /\ connection_pool' = connection_pool /\ closes' = closes
    BY <1>4 DEF Ping
  <2>2. /\ pc[t] = "open"
        /\ \/ pc' = [pc EXCEPT ![t] = "fill"] /\ opened' = opened
           \/ pc' = [pc EXCEPT ![t] = "idle"] /\ opened' = [opened EXCEPT ![t] = 0]
        /\ \A u \in Threads \ {t} : conn'[u] = conn[u]
    BY <1>1, <1>4 DEF Ping
  <2>3. Busy' = Busy
    BY <1>1, <2>2 DEF Busy
  <2>4. \A u \in Threads : opened'[u] <= opened[u]
    BY <1>1, <2>2
  <2>5. \A u \in Threads : pc'[u] \in Calling => pc[u] \in Calling
    BY <1>1, <2>2 DEF Calling
  <2> QED
    BY <1>2, <2>1, <2>3, <2>4, <2>5
<1>5. ASSUME NEW t \in Threads, Fill(t) PROVE StockInv'
  <2>1. /\ Len(connection_pool') = Len(connection_pool) + 1
        /\ connected' = connected /\ closes' = closes
    BY <1>5, PushQueues DEF Fill
  <2>2. /\ pc[t] = "fill" /\ opened' = [opened EXCEPT ![t] = opened[t] + 1]
        /\ \/ pc' = [pc EXCEPT ![t] = "filled"]
           \/ pc' = [pc EXCEPT ![t] = "open"]
        /\ \A u \in Threads \ {t} : conn'[u] = conn[u]
    <3>1. opened' = [opened EXCEPT ![t] = opened[t] + 1]
      BY <1>5 DEF Fill
    <3>2. pc' = [pc EXCEPT ![t] = "filled"] \/ pc' = [pc EXCEPT ![t] = "open"]
      BY <1>5 DEF Fill
    <3> QED
      BY <1>1, <1>5, <3>1, <3>2 DEF Fill
  <2>3. Busy' = Busy
    BY <1>1, <2>2 DEF Busy
  <2>4. ASSUME closes = 0, NEW u \in Threads
        PROVE  opened'[u] <= opened[u] \/ opened'[u] <= Stock'
    <3>1. opened[t] <= Stock
      BY <2>4 DEF IInv, StockInv
    <3>2. Stock' = Stock + 1 /\ Stock \in Nat
      BY <1>1, <2>1, <2>3, FiniteCounts DEF Stock
    <3> QED
      BY <1>1, <2>2, <3>1, <3>2
  <2>5. \A u \in Threads : pc'[u] \in Calling => pc[u] \in Calling
    BY <1>1, <2>2 DEF Calling
  <2>6. CASE closes # 0
    BY <2>1, <2>6 DEF StockInv
  <2> QED
    BY <1>0, <1>1, <2>1, <2>3, <2>4, <2>5, <2>6, FiniteCounts, StockKept
<1>6. ASSUME NEW t \in Threads, Filled(t) PROVE StockInv'
  <2>1. /\ pc[t] = "filled" /\ pc' = [pc EXCEPT ![t] = "idle"] /\ conn' = conn
        /\ opened' = [opened EXCEPT ![t] = 0] /\ closes' = closes
        /\ connection_pool' = connection_pool /\ opened[t] = PoolSize
    BY <1>6 DEF Filled, IInv, OpenInv
  <2>2. Busy' = Busy
    BY <1>1, <2>1 DEF Busy
  <2>3. \A u \in Threads : opened'[u] <= opened[u]
    BY <1>1, <2>1
  <2> QED
    BY <1>2, <2>1, <2>2, <2>3
<1>7. ASSUME NEW t \in Threads,
             pc[t] \in Calling, conn' = conn, connection_pool' = connection_pool,
             opened' = opened, closes' = closes,
             \/ pc' = pc
             \/ \E l \in Calling :
                  /\ pc' = [pc EXCEPT ![t] = l]
                  /\ \/ conn[t] = NoConn
                     \/ pc[t] = "using" /\ l \in {"done", "failed"}
      PROVE  StockInv'
  <2>1. Busy' = Busy
    BY <1>1, <1>7 DEF Busy
  <2>2. \A u \in Threads : opened'[u] <= opened[u]
    BY <1>1, <1>7
  <2> QED
    BY <1>2, <1>7, <2>1, <2>2
<1>8. ASSUME NEW t \in Threads, Lock(t) \/ Wait(t) \/ WaitSpurious(t) PROVE StockInv'
  <2>1. /\ conn' = conn /\ connection_pool' = connection_pool
        /\ opened' = opened /\ closes' = closes
    BY <1>8 DEF Lock, Wait, WaitSpurious
  <2>2. pc[t] \in {"lock", "test", "sleep", "blocked"}
    BY <1>8
    DEF Lock, Wait, Test, Sleep, Wake, Acquire, WaitSpurious, SpuriousWakeup, IInv, LockInv
  <2>3. pc[t] \in Calling /\ conn[t] = NoConn
    BY <2>2 DEF Calling, IInv, HoldInv
  <2>4. pc' = pc \/ \E l \in {"test", "take", "sleep", "blocked"} : pc' = [pc EXCEPT ![t] = l]
    BY <1>8 DEF Lock, Wait, Test, Sleep, Wake, Acquire, WaitSpurious, SpuriousWakeup
  <2>5. {"test", "take", "sleep", "blocked"} \subseteq Calling
    BY DEF Calling
  <2> QED
    BY <1>7, <2>1, <2>3, <2>4, <2>5
<1>9. ASSUME NEW t \in Threads, TimeOut(t) \/ LastTest(t) \/ GiveUp(t) PROVE StockInv'
  <2>1. /\ conn' = conn /\ connection_pool' = connection_pool
        /\ opened' = opened /\ closes' = closes
    BY <1>9 DEF TimeOut, LastTest, GiveUp
  <2>2. pc[t] \in {"blocked", "expired", "give_up"}
    BY <1>9 DEF TimeOut, LastTest, GiveUp, IInv, LockInv
  <2>3. pc[t] \in Calling /\ conn[t] = NoConn
    BY <2>2 DEF Calling, IInv, HoldInv
  <2>4. \E l \in {"expired", "take", "give_up", "using"} : pc' = [pc EXCEPT ![t] = l]
    BY <1>9 DEF TimeOut, LastTest, GiveUp
  <2>5. {"expired", "take", "give_up", "using"} \subseteq Calling
    BY DEF Calling
  <2> QED
    BY <1>7, <2>1, <2>3, <2>4, <2>5
<1>10. ASSUME NEW t \in Threads, Command(t) PROVE StockInv'
  <2>1. /\ conn' = conn /\ connection_pool' = connection_pool
        /\ opened' = opened /\ closes' = closes
    BY <1>10 DEF Command
  <2>2. pc[t] \in Calling /\ pc[t] = "using"
    BY <1>10 DEF Calling, Command
  <2>3. pc' = pc \/ \E l \in {"done", "failed"} : pc' = [pc EXCEPT ![t] = l]
    BY <1>10 DEF Command
  <2>4. {"done", "failed"} \subseteq Calling
    BY DEF Calling
  <2> QED
    BY <1>7, <2>1, <2>2, <2>3, <2>4
<1>11. ASSUME NEW t \in Threads, Take(t) PROVE StockInv'
  <2>1. /\ Len(connection_pool') = Len(connection_pool) - 1
        /\ Busy' = Busy \cup {t} /\ t \notin Busy
    BY <1>1, <1>11, TakeLends DEF Busy
  <2>2. Cardinality(Busy') = Cardinality(Busy) + 1
    BY <2>1, FiniteCounts, FS_AddElement
  <2>3. opened' = opened /\ closes' = closes /\ pc[t] \in Calling
    BY <1>11 DEF Take, Calling
  <2> QED
    BY <1>0, <1>1, <2>1, <2>2, <2>3, FiniteCounts, StockKept
<1>12. ASSUME NEW t \in Threads, Done(t) \/ Failed(t) PROVE StockInv'
  <2>1. pc[t] \in {"done", "failed"} /\ pc' = [pc EXCEPT ![t] = "idle"]
    BY <1>12 DEF Done, Failed, Return
  <2>2. /\ Len(connection_pool') = Len(connection_pool) + 1
        /\ Busy' = Busy \ {t} /\ t \in Busy
    BY <1>1, <1>12, <2>1, PushQueues DEF Busy
  <2>3. Cardinality(Busy') = Cardinality(Busy) - 1
    BY <2>2, FiniteCounts, FS_RemoveElement
  <2>4. opened' = opened /\ closes' = closes /\ pc[t] \in Calling
    BY <1>12 DEF Done, Failed, Return, Calling
  <2> QED
    BY <1>0, <1>1, <2>2, <2>3, <2>4, FiniteCounts, StockKept
<1>13. CASE Close
  <2>1. closes' # 0
    BY <1>13 DEF Close, IInv, TypeOK
  <2> QED
    BY <2>1 DEF StockInv
<1>14. CASE UNCHANGED vars
  <2>1. Busy' = Busy
    BY <1>14 DEF vars, monitor, Busy
  <2>2. \A t \in Threads : opened'[t] <= opened[t]
    BY <1>1, <1>14 DEF vars
  <2> QED
    BY <1>2, <1>14, <2>1, <2>2 DEF vars, monitor
<1> QED
  BY <1>3, <1>4, <1>5, <1>6, <1>8, <1>9, <1>10, <1>11, <1>12, <1>13, <1>14 DEF Next, Proceed, Operation

-----------------------------------------------------------------------------
\* The theorems

THEOREM Inductive == Spec => []IInv
<1>1. IInv /\ [Next]_vars => IInv'
  BY TypeStep, ControlStep, RoomStep, StockStep DEF IInv
<1> QED
  BY InitIInv, <1>1, PTL DEF Spec

\* Every variable stays in its type; above all, a connection that connect()
\* makes always has a number of its own.
THEOREM TypeCorrect == Spec => []TypeOK
<1>1. IInv => TypeOK
  BY DEF IInv
<1> QED
  BY Inductive, <1>1, PTL

\* Until the first close(), getConnection answers null only while PoolSize
\* connections are in use: none is lost on the way out of an operation.
THEOREM NullMeansBusy == Spec => NullOnlyIfBusy
<1>1. ASSUME IInv, NEW t \in Threads, GiveUp(t)
      PROVE  closes > 0 \/ Cardinality(Busy) >= PoolSize
  <2>1. connection_pool = <<>> /\ pc[t] \in Calling
    BY <1>1 DEF GiveUp, IInv, FoundInv, Calling
  <2>2. closes \in Nat /\ PoolSize \in Nat
    BY RedisMgrAssumption, <1>1 DEF IInv, TypeOK
  <2>3. Stock = Cardinality(Busy) /\ Cardinality(Busy) \in Nat
    BY <2>1, EmptySeq, FiniteCounts DEF Stock
  <2>4. closes = 0 => PoolSize <= Stock
    BY <1>1, <2>1 DEF IInv, StockInv
  <2> QED
    BY <2>2, <2>3, <2>4
<1>2. IInv /\ [Next]_vars
        => [\A t \in Threads : GiveUp(t) => closes > 0 \/ Cardinality(Busy) >= PoolSize]_vars
  BY <1>1
<1> QED
  BY Inductive, <1>2, PTL DEF Spec, NullOnlyIfBusy

-----------------------------------------------------------------------------
\* Queues without duplicates

IsDuplicateFree(s) == \A i, j \in DOMAIN s : s[i] = s[j] => i = j

Elements(s) == {s[i] : i \in DOMAIN s}

\* front() and pop() remove one element, and no other copy of it.
LEMMA PopOne ==
  ASSUME NEW S, NEW s \in Seq(S), s # <<>>, IsDuplicateFree(s)
  PROVE  /\ Head(s) \in S /\ Head(s) \in Elements(s)
         /\ Tail(s) \in Seq(S) /\ IsDuplicateFree(Tail(s))
         /\ Elements(Tail(s)) = Elements(s) \ {Head(s)}
<1>1. /\ Head(s) \in S /\ Head(s) = s[1]
      /\ Tail(s) \in Seq(S)
      /\ DOMAIN Tail(s) = 1 .. Len(s) - 1
      /\ \A i \in 1 .. Len(s) - 1 : Tail(s)[i] = s[i + 1]
  BY HeadTailProperties, LenProperties
<1>2. Len(s) \in Nat \ {0} /\ DOMAIN s = 1 .. Len(s)
  BY EmptySeq, LenProperties
<1>3. \A j \in DOMAIN s : j = 1 \/ (j - 1 \in DOMAIN Tail(s) /\ s[j] = Tail(s)[j - 1])
  BY <1>1, <1>2
<1>4. \A i \in DOMAIN Tail(s) : i + 1 \in DOMAIN s /\ i + 1 # 1 /\ Tail(s)[i] = s[i + 1]
  BY <1>1, <1>2
<1>5. IsDuplicateFree(Tail(s))
  BY <1>1, <1>4 DEF IsDuplicateFree
<1>6. 1 \in DOMAIN s
  BY <1>2
<1>7. Elements(Tail(s)) \subseteq Elements(s) \ {Head(s)}
  <2> SUFFICES ASSUME NEW i \in DOMAIN Tail(s)
               PROVE  Tail(s)[i] \in Elements(s) /\ Tail(s)[i] # Head(s)
    BY DEF Elements
  <2>1. i + 1 \in DOMAIN s /\ i + 1 # 1 /\ Tail(s)[i] = s[i + 1]
    BY <1>4
  <2>2. s[i + 1] # s[1]
    BY <1>6, <2>1 DEF IsDuplicateFree
  <2> QED
    BY <1>1, <2>1, <2>2 DEF Elements
<1>8. Elements(s) \ {Head(s)} \subseteq Elements(Tail(s))
  <2> SUFFICES ASSUME NEW j \in DOMAIN s, s[j] # Head(s)
               PROVE  s[j] \in Elements(Tail(s))
    BY DEF Elements
  <2>1. j - 1 \in DOMAIN Tail(s) /\ s[j] = Tail(s)[j - 1]
    BY <1>1, <1>3
  <2> QED
    BY <2>1 DEF Elements
<1> QED
  BY <1>1, <1>5, <1>6, <1>7, <1>8 DEF Elements

\* push() adds one element; if it is new there are still no duplicates.
LEMMA PushOne ==
  ASSUME NEW S, NEW s \in Seq(S), NEW e \in S, IsDuplicateFree(s), e \notin Elements(s)
  PROVE  /\ Append(s, e) \in Seq(S) /\ IsDuplicateFree(Append(s, e))
         /\ Elements(Append(s, e)) = Elements(s) \cup {e}
<1>1. /\ Append(s, e) \in Seq(S)
      /\ DOMAIN Append(s, e) = 1 .. Len(s) + 1
      /\ \A i \in 1 .. Len(s) : Append(s, e)[i] = s[i]
      /\ Append(s, e)[Len(s) + 1] = e
      /\ Len(s) \in Nat /\ DOMAIN s = 1 .. Len(s)
  BY AppendProperties, LenProperties
<1>2. \A i \in DOMAIN Append(s, e) :
        \/ i = Len(s) + 1 /\ Append(s, e)[i] = e
        \/ i \in DOMAIN s /\ Append(s, e)[i] = s[i]
  BY <1>1
<1>3. DOMAIN s \subseteq DOMAIN Append(s, e) /\ Len(s) + 1 \in DOMAIN Append(s, e)
  BY <1>1
<1>4. IsDuplicateFree(Append(s, e))
  BY <1>2 DEF IsDuplicateFree, Elements
<1>5. Elements(Append(s, e)) \subseteq Elements(s) \cup {e}
  BY <1>2 DEF Elements
<1>6. Elements(s) \cup {e} \subseteq Elements(Append(s, e))
  BY <1>1, <1>3 DEF Elements
<1> QED
  BY <1>1, <1>4, <1>5, <1>6

-----------------------------------------------------------------------------
\* Exclusive lending

\* A connection is queued once, or with one thread, or gone.
ExclusiveLoan ==
  /\ IsDuplicateFree(connection_pool)
  /\ \A t \in Threads : conn[t] \notin Elements(connection_pool)
  /\ \A t, u \in Threads : conn[t] = conn[u] /\ t # u => conn[t] = NoConn

LEMMA LoanStep == IInv /\ ExclusiveLoan /\ [Next]_vars => ExclusiveLoan'
<1> SUFFICES ASSUME IInv, ExclusiveLoan, [Next]_vars PROVE ExclusiveLoan'
  OBVIOUS
<1>1. /\ conn \in [Threads -> Conns \cup {NoConn}] /\ connection_pool \in Seq(Conns)
      /\ IsDuplicateFree(connection_pool)
  BY DEF IInv, TypeOK, ExclusiveLoan
<1>2. NoConn \notin Conns /\ NoConn \notin Elements(connection_pool)
  <2>1. NoConn \notin Conns
    BY RedisMgrAssumption DEF Conns
  <2> QED
    BY <1>1, <2>1, ElementOfSeq, LenProperties DEF Elements
<1>3. CASE UNCHANGED <<connection_pool, conn>>
  BY <1>3 DEF ExclusiveLoan, IsDuplicateFree, Elements
<1>4. ASSUME NEW t \in Threads, Take(t) PROVE ExclusiveLoan'
  <2> DEFINE q == connection_pool
  <2>1. q # <<>> /\ q' = Tail(q) /\ conn' = [conn EXCEPT ![t] = Head(q)]
    BY <1>4 DEF Take, IInv, FoundInv
  <2>2. /\ Head(q) \in Elements(q) /\ IsDuplicateFree(Tail(q))
        /\ Elements(Tail(q)) = Elements(q) \ {Head(q)}
    BY <1>1, <2>1, PopOne
  <2>3. IsDuplicateFree(q)' /\ Elements(q)' = Elements(q) \ {Head(q)}
    BY <2>1, <2>2 DEF IsDuplicateFree, Elements
  <2> QED
    BY <1>1, <1>2, <2>1, <2>2, <2>3 DEF ExclusiveLoan
<1>5. ASSUME NEW t \in Threads, Fill(t) \/ Done(t) \/ Failed(t) PROVE ExclusiveLoan'
  <2> DEFINE q == connection_pool
  <2>1. /\ conn[t] \in Conns /\ q' = Append(q, conn[t])
        /\ conn' = [conn EXCEPT ![t] = NoConn]
    BY <1>1, <1>5, PushQueues DEF Fill, Done, Failed, Return
  <2>2. conn[t] \notin Elements(q)
    BY DEF ExclusiveLoan
  <2>3. /\ IsDuplicateFree(Append(q, conn[t]))
        /\ Elements(Append(q, conn[t])) = Elements(q) \cup {conn[t]}
    BY <1>1, <2>1, <2>2, PushOne
  <2>4. IsDuplicateFree(q)' /\ Elements(q)' = Elements(q) \cup {conn[t]}
    BY <2>1, <2>3 DEF IsDuplicateFree, Elements
  <2> QED
    BY <1>1, <1>2, <2>1, <2>4 DEF ExclusiveLoan
<1>6. ASSUME NEW t \in Threads, Ping(t) PROVE ExclusiveLoan'
  <2>1. CASE conn' = [conn EXCEPT ![t] = NewConn]
    <3>1. NewConn \notin Created /\ NewConn # NoConn
      BY <1>2, <1>6, NewConnFresh DEF IInv, Ping
    <3>2. NewConn \notin Elements(connection_pool) /\ \A u \in Threads : conn[u] # NewConn
      BY <3>1 DEF Created, Elements
    <3>3. /\ IsDuplicateFree(connection_pool)'
          /\ Elements(connection_pool)' = Elements(connection_pool)
      BY <1>1, <1>6 DEF Ping, IsDuplicateFree, Elements
    <3> QED
      BY <1>1, <2>1, <3>1, <3>2, <3>3 DEF ExclusiveLoan
  <2>2. CASE conn' = conn
    BY <1>3, <1>6, <2>2 DEF Ping
  <2> QED
    BY <1>6, <2>1, <2>2 DEF Ping
<1>7. CASE Close
  BY <1>1, <1>7 DEF Close, ExclusiveLoan, IsDuplicateFree, Elements
<1>8. ASSUME NEW t \in Threads,
             \/ Connect(t) \/ Call(t) \/ Filled(t) \/ Lock(t) \/ Wait(t) \/ WaitSpurious(t)
             \/ TimeOut(t) \/ LastTest(t) \/ GiveUp(t) \/ Command(t)
      PROVE  ExclusiveLoan'
  BY <1>3, <1>8
  DEF Connect, Call, Filled, Lock, Wait, WaitSpurious, TimeOut, LastTest, GiveUp, Command, pool
<1>9. CASE UNCHANGED vars
  BY <1>3, <1>9 DEF vars
<1> QED
  BY <1>4, <1>5, <1>6, <1>7, <1>8, <1>9 DEF Next, Proceed, Operation

\* No two threads hold the same connection and none holds one that is queued,
\* whatever connect(), close(), timeouts and failed commands do meanwhile.
THEOREM LoansExclusive == Spec => []ExclusiveLoan
<1>1. Init => ExclusiveLoan
  BY DEF Init, ExclusiveLoan, IsDuplicateFree, Elements
<1>2. IInv /\ ExclusiveLoan /\ [Next]_vars => ExclusiveLoan'
  BY LoanStep
<1> QED
  BY Inductive, <1>1, <1>2, PTL DEF Spec
=============================================================================
