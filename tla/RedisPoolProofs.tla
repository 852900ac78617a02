--------------------------- MODULE RedisPoolProofs ---------------------------
(***************************************************************************)
(* Proofs about RedisPool, for any threads, any connections, any number of *)
(* calls, with handlers that drop a connection or return one twice.        *)
(*                                                                         *)
(* ExclusiveLoan, NoEmptyPop and CloseWakesAll are not inductive: they     *)
(* depend on who holds the mutex (LockInv), on when a handler holds a      *)
(* connection (HoldInv) and on how far close() has come (CloserInv).       *)
(***************************************************************************)
EXTENDS RedisPool, FiniteSetTheorems, SequenceTheorems, TLAPS

\* A thread holds the mutex exactly between its lock and its unlock.
LockInv == \A t \in Threads : owner = t <=> pc[t] \in {"test", "sleep", "take"}

\* A handler has a pointer exactly between the take and its last return, and
\* may have returned it before only then.
HoldInv == \A t \in Threads :
  /\ conn[t] # NoConn <=> pc[t] \in {"using", "push"}
  /\ t \in stale => pc[t] \in {"using", "push"}

CloserInv == closed <=> closer # "open"

IInv ==
  /\ TypeOK
  /\ LockInv
  /\ HoldInv
  /\ CloserInv
  /\ ExclusiveLoan
  /\ NoEmptyPop
  /\ CloseWakesAll

-----------------------------------------------------------------------------
\* Sequences without duplicates

\* Removing the head of a queue without duplicates removes that one element.
LEMMA TailOfDuplicateFree ==
  ASSUME NEW S, NEW s \in Seq(S), s # <<>>, IsDuplicateFree(s)
  PROVE  /\ IsDuplicateFree(Tail(s))
         /\ \A i \in DOMAIN Tail(s) : Tail(s)[i] # Head(s)
         /\ \A i \in DOMAIN Tail(s) : \E j \in DOMAIN s : Tail(s)[i] = s[j]
         /\ {Tail(s)[i] : i \in DOMAIN Tail(s)}
              = {s[i] : i \in DOMAIN s} \ {Head(s)}
<1>1. /\ Tail(s) \in Seq(S)
      /\ Len(Tail(s)) = Len(s) - 1
      /\ \A i \in 1 .. Len(Tail(s)) : Tail(s)[i] = s[i + 1]
  BY HeadTailProperties
<1>2. DOMAIN s = 1 .. Len(s) /\ DOMAIN Tail(s) = 1 .. Len(s) - 1
  BY <1>1, LenProperties
<1>3. Len(s) \in Nat /\ Len(s) # 0 /\ Head(s) = s[1]
  BY EmptySeq, LenProperties
<1>4. \A i \in DOMAIN Tail(s) : i + 1 \in DOMAIN s /\ Tail(s)[i] = s[i + 1]
  BY <1>1, <1>2, <1>3
<1>5. IsDuplicateFree(Tail(s))
  BY <1>2, <1>3, <1>4 DEF IsDuplicateFree
<1>6. \A i \in DOMAIN Tail(s) : Tail(s)[i] # Head(s)
  BY <1>2, <1>3, <1>4 DEF IsDuplicateFree
<1>7. \A j \in DOMAIN s : j # 1 => j - 1 \in DOMAIN Tail(s) /\ s[j] = Tail(s)[j - 1]
  BY <1>1, <1>2, <1>3
<1>8. \A x \in {s[i] : i \in DOMAIN s} \ {Head(s)} :
         x \in {Tail(s)[i] : i \in DOMAIN Tail(s)}
  BY <1>3, <1>7
<1>9. \A x \in {Tail(s)[i] : i \in DOMAIN Tail(s)} :
         x \in {s[i] : i \in DOMAIN s} \ {Head(s)}
  BY <1>4, <1>6
<1> QED
  BY <1>4, <1>5, <1>6, <1>8, <1>9

\* Appending an element that was not in the queue keeps it free of duplicates.
LEMMA AppendDuplicateFree ==
  ASSUME NEW S, NEW s \in Seq(S), NEW e \in S, IsDuplicateFree(s),
         \A i \in DOMAIN s : e # s[i]
  PROVE  /\ IsDuplicateFree(Append(s, e))
         /\ \A i \in DOMAIN Append(s, e) :
              Append(s, e)[i] = e \/ \E j \in DOMAIN s : Append(s, e)[i] = s[j]
         /\ {Append(s, e)[i] : i \in DOMAIN Append(s, e)}
              = {s[i] : i \in DOMAIN s} \cup {e}
<1>1. /\ Append(s, e) \in Seq(S)
      /\ Len(Append(s, e)) = Len(s) + 1
      /\ \A i \in 1 .. Len(s) : Append(s, e)[i] = s[i]
      /\ Append(s, e)[Len(s) + 1] = e
  BY AppendProperties
<1>2. /\ Len(s) \in Nat
      /\ DOMAIN s = 1 .. Len(s)
      /\ DOMAIN Append(s, e) = 1 .. Len(s) + 1
  BY <1>1, LenProperties
<1>3. \A i \in DOMAIN Append(s, e) :
         \/ i = Len(s) + 1 /\ Append(s, e)[i] = e
         \/ i \in DOMAIN s /\ Append(s, e)[i] = s[i]
  BY <1>1, <1>2
<1>4. \A i \in DOMAIN s : i \in DOMAIN Append(s, e) /\ Append(s, e)[i] = s[i]
  BY <1>1, <1>2
<1>5. IsDuplicateFree(Append(s, e))
  BY <1>3 DEF IsDuplicateFree
<1>6. \E i \in DOMAIN Append(s, e) : Append(s, e)[i] = e
  BY <1>1, <1>2
<1> QED
  BY <1>3, <1>4, <1>5, <1>6

-----------------------------------------------------------------------------
\* The inductive invariant

LEMMA InitIInv == Init => IInv
<1> SUFFICES ASSUME Init PROVE IInv
  OBVIOUS
<1> USE MonitorAssumption, RedisPoolAssumption DEF Init, MonitorInit
<1>1. /\ available \in Seq(Conns)
      /\ IsDuplicateFree(available)
  OBVIOUS
<1>2. TypeOK
  BY <1>1 DEF TypeOK, Labels
<1>3. ExclusiveLoan
  <2>1. \A t \in Threads : Loan[t] = NoConn
    BY DEF Loan
  <2>2. \A i \in DOMAIN available : available[i] \in Conns
    BY <1>1, ElementOfSeq, LenProperties
  <2> QED
    BY <1>1, <2>1, <2>2 DEF ExclusiveLoan
<1>4. LockInv /\ HoldInv /\ CloserInv /\ NoEmptyPop /\ CloseWakesAll
  BY DEF LockInv, HoldInv, CloserInv, NoEmptyPop, CloseWakesAll
<1> QED
  BY <1>2, <1>3, <1>4 DEF IInv

LEMMA LoanTypes ==
  ASSUME TypeOK
  PROVE  Loan \in [Threads -> Conns \cup {NoConn}]
BY DEF TypeOK, Loan

\* A step that leaves the queue and the loans alone keeps ExclusiveLoan.
LEMMA SameLoans ==
  ASSUME ExclusiveLoan, UNCHANGED <<available, conn, stale, twice>>
  PROVE  ExclusiveLoan'
<1>1. Loan' = Loan
  BY DEF Loan
<1> QED
  BY <1>1 DEF ExclusiveLoan, IsDuplicateFree

\* So does one by which a handler gives up its pointer for good.
LEMMA FewerLoans ==
  ASSUME TypeOK, ExclusiveLoan, NEW t \in Threads, LetGo(t), UNCHANGED <<available, twice>>
  PROVE  ExclusiveLoan'
<1>1. Loan' = [Loan EXCEPT ![t] = NoConn]
  BY DEF LetGo, Loan, TypeOK
<1> QED
  BY <1>1, LoanTypes, RedisPoolAssumption, ElementOfSeq, LenProperties
  DEF ExclusiveLoan, IsDuplicateFree, TypeOK

\* What a successful Take does to the queue and to the thread.
LEMMA TakeLends ==
  ASSUME IInv, NEW t \in Threads, Take(t), ~closed
  PROVE  /\ available # <<>>
         /\ available \in Seq(Conns)
         /\ Head(available) \in Conns
         /\ available' = Tail(available)
         /\ available' \in Seq(Conns)
         /\ conn' = [conn EXCEPT ![t] = Head(available)]
         /\ conn[t] = NoConn
         /\ Loan[t] = NoConn
         /\ Loan' = [Loan EXCEPT ![t] = Head(available)]
         /\ pc' = [pc EXCEPT ![t] = "using"]
<1>1. /\ available # <<>>
      /\ available \in Seq(Conns)
      /\ available' = Tail(available)
      /\ conn' = [conn EXCEPT ![t] = Head(available)]
      /\ conn[t] = NoConn
      /\ t \notin stale /\ stale' = stale
      /\ pc' = [pc EXCEPT ![t] = "using"]
  BY DEF IInv, Take, NoEmptyPop, TypeOK, HoldInv, Goto
<1>2. Head(available) \in Conns /\ Tail(available) \in Seq(Conns)
  BY <1>1, HeadTailProperties
<1>3. Loan[t] = NoConn /\ Loan' = [Loan EXCEPT ![t] = Head(available)]
  BY <1>1 DEF Loan, IInv, TypeOK
<1> QED
  BY <1>1, <1>2, <1>3

\* What the critical section of returnConnection does.
LEMMA PushQueues ==
  ASSUME IInv, NEW t \in Threads, Push(t)
  PROVE  /\ conn[t] \in Conns
         /\ available \in Seq(Conns)
         /\ available' = Append(available, conn[t])
         /\ available' \in Seq(Conns)
         /\ twice' \in Nat
<1>1. /\ conn[t] \in Conns
      /\ available \in Seq(Conns)
      /\ available' = Append(available, conn[t])
      /\ twice' \in Nat
  BY DEF IInv, Push, TypeOK, HoldInv
<1> QED
  BY <1>1, AppendProperties

\* What the pool sees of a handler that returns a connection once, or for the
\* first time.
LEMMA PushReturns ==
  ASSUME IInv, NEW t \in Threads, ReturnPush(t) \/ FirstOfTwo(t), twice' = 0
  PROVE  /\ twice = 0
         /\ Loan[t] \in Conns
         /\ available \in Seq(Conns)
         /\ IsDuplicateFree(available)
         /\ \A i \in DOMAIN available : Loan[t] # available[i]
         /\ available' = Append(available, Loan[t])
         /\ Loan' = [Loan EXCEPT ![t] = NoConn]
<1>1. Push(t) /\ TypeOK /\ ExclusiveLoan
  BY DEF ReturnPush, FirstOfTwo, IInv
<1>2. t \notin stale /\ twice = 0
  BY <1>1 DEF Push, TypeOK
<1>3. Loan[t] = conn[t]
  BY <1>2 DEF Loan
<1>4. Loan' = [Loan EXCEPT ![t] = NoConn]
  BY <1>1, <1>2 DEF ReturnPush, FirstOfTwo, LetGo, Loan, TypeOK
<1>5. /\ IsDuplicateFree(available)
      /\ \A i \in DOMAIN available : Loan[t] # available[i]
  BY <1>1, <1>2 DEF ExclusiveLoan
<1>6. /\ conn[t] \in Conns /\ available \in Seq(Conns)
      /\ available' = Append(available, conn[t])
  BY <1>1, PushQueues
<1> QED
  BY <1>2, <1>3, <1>4, <1>5, <1>6

LEMMA TypeStep == IInv /\ [Next]_vars => TypeOK'
<1> SUFFICES ASSUME IInv, [Next]_vars PROVE TypeOK'
  OBVIOUS
<1> USE DEF TypeOK, Labels, Goto, callers
<1>1. TypeOK
  BY DEF IInv
<1>2. ASSUME NEW t \in Threads, Call(t) PROVE TypeOK'
  BY <1>1, <1>2 DEF Call
<1>3. ASSUME NEW t \in Threads, Lock(t) PROVE TypeOK'
  BY <1>1, <1>3 DEF Lock, Acquire
<1>4. ASSUME NEW t \in Threads, WaitTest(t) PROVE TypeOK'
  BY <1>1, <1>4 DEF WaitTest, Test
<1>5. ASSUME NEW t \in Threads, WaitSleep(t) PROVE TypeOK'
  BY <1>1, <1>5 DEF WaitSleep, Sleep
<1>6. ASSUME NEW t \in Threads, WaitWake(t) PROVE TypeOK'
  BY <1>1, <1>6 DEF WaitWake, Wake, Acquire
<1>7. ASSUME NEW t \in Threads, WaitSpurious(t) PROVE TypeOK'
  BY <1>1, <1>7 DEF WaitSpurious, SpuriousWakeup
<1>8. ASSUME NEW t \in Threads, Take(t) PROVE TypeOK'
  <2>1. CASE closed
    BY <1>1, <1>8, <2>1 DEF Take
  <2>2. CASE ~closed
    <3>1. /\ available' \in Seq(Conns)
          /\ conn' \in [Threads -> Conns \cup {NoConn}]
      BY <1>1, <1>8, <2>2, TakeLends
    <3>2. UNCHANGED <<asleep, closed, closer, stale, twice, calls>> /\ owner' = NoThread
      BY <1>8 DEF Take
    <3>3. pc' = [pc EXCEPT ![t] = "using"]
      BY <1>8, <2>2 DEF Take
    <3> QED
      BY <1>1, <3>1, <3>2, <3>3
  <2> QED
    BY <2>1, <2>2
<1>9. ASSUME NEW t \in Threads, ReturnCheck(t) PROVE TypeOK'
  BY <1>1, <1>9 DEF ReturnCheck, LetGo
<1>10. ASSUME NEW t \in Threads, ReturnPush(t) \/ FirstOfTwo(t) PROVE TypeOK'
  <2>1. Push(t) /\ available' \in Seq(Conns) /\ twice' \in Nat
    BY <1>10, PushQueues DEF ReturnPush, FirstOfTwo
  <2>2. /\ UNCHANGED <<owner, closed, closer, calls>>
        /\ asleep' \in SUBSET Threads
    BY <1>1, <2>1 DEF Push, NotifyOne
  <2>3. /\ pc' \in [Threads -> Labels] /\ stale' \in SUBSET Threads
        /\ conn' \in [Threads -> Conns \cup {NoConn}]
    BY <1>1, <1>10 DEF ReturnPush, FirstOfTwo, LetGo
  <2> QED
    BY <1>1, <2>1, <2>2, <2>3
<1>11. ASSUME NEW t \in Threads, Forget(t) PROVE TypeOK'
  BY <1>1, <1>11 DEF Forget, LetGo
<1>12. CASE CloseStore
  BY <1>1, <1>12 DEF CloseStore, monitor, callers
<1>13. CASE CloseDrain
  BY <1>1, <1>13, EmptySeq DEF CloseDrain, NotifyAll
<1>14. CASE UNCHANGED vars
  BY <1>1, <1>14 DEF vars, monitor, callers
<1> QED
  BY <1>2, <1>3, <1>4, <1>5, <1>6, <1>7, <1>8, <1>9, <1>10, <1>11, <1>12,
     <1>13, <1>14 DEF Next, Proceed

\* Who holds the mutex, who holds a connection, how far close() has come.
LEMMA ControlStep ==
  IInv /\ [Next]_vars => LockInv' /\ HoldInv' /\ CloserInv' /\ CloseWakesAll'
<1> DEFINE Control == LockInv /\ HoldInv /\ CloserInv /\ CloseWakesAll
<1> SUFFICES ASSUME IInv, [Next]_vars PROVE Control'
  OBVIOUS
<1> USE MonitorAssumption, RedisPoolAssumption
    DEF LockInv, HoldInv, CloserInv, CloseWakesAll, Goto, TypeOK, Labels, callers
<1>1. TypeOK /\ Control
  BY DEF IInv
<1>2. ASSUME NEW t \in Threads, Call(t) PROVE Control'
  BY <1>1, <1>2 DEF Call
<1>3. ASSUME NEW t \in Threads, Lock(t) PROVE Control'
  BY <1>1, <1>3 DEF Lock, Acquire
<1>4. ASSUME NEW t \in Threads, WaitTest(t) PROVE Control'
  BY <1>1, <1>4 DEF WaitTest, Test
<1>5. ASSUME NEW t \in Threads, WaitSleep(t) PROVE Control'
  BY <1>1, <1>5 DEF WaitSleep, Sleep
<1>6. ASSUME NEW t \in Threads, WaitWake(t) PROVE Control'
  BY <1>1, <1>6 DEF WaitWake, Wake, Acquire
<1>7. ASSUME NEW t \in Threads, WaitSpurious(t) PROVE Control'
  BY <1>1, <1>7 DEF WaitSpurious, SpuriousWakeup
<1>8. ASSUME NEW t \in Threads, Take(t) PROVE Control'
  <2>1. CASE closed
    BY <1>1, <1>8, <2>1 DEF Take
  <2>2. CASE ~closed
    BY <1>1, <1>8, <2>2, TakeLends DEF Take
  <2> QED
    BY <2>1, <2>2
<1>9. ASSUME NEW t \in Threads, ReturnCheck(t) PROVE Control'
  BY <1>1, <1>9 DEF ReturnCheck, LetGo
<1>10. ASSUME NEW t \in Threads, ReturnPush(t) \/ FirstOfTwo(t) PROVE Control'
  BY <1>1, <1>10 DEF ReturnPush, FirstOfTwo, Push, LetGo, NotifyOne
<1>11. ASSUME NEW t \in Threads, Forget(t) PROVE Control'
  BY <1>1, <1>11 DEF Forget, LetGo
<1>12. CASE CloseStore
  BY <1>1, <1>12 DEF CloseStore, monitor, callers
<1>13. CASE CloseDrain
  BY <1>1, <1>13 DEF CloseDrain, NotifyAll
<1>14. CASE UNCHANGED vars
  BY <1>1, <1>14 DEF vars, monitor, callers
<1> QED
  BY <1>2, <1>3, <1>4, <1>5, <1>6, <1>7, <1>8, <1>9, <1>10, <1>11, <1>12,
     <1>13, <1>14 DEF Next, Proceed

LEMMA LoanStep == IInv /\ [Next]_vars => ExclusiveLoan'
<1> SUFFICES ASSUME IInv, [Next]_vars PROVE ExclusiveLoan'
  OBVIOUS
<1>1. TypeOK /\ ExclusiveLoan /\ Loan \in [Threads -> Conns \cup {NoConn}]
  BY LoanTypes DEF IInv
<1>2. CASE UNCHANGED <<available, conn, stale, twice>>
  BY <1>1, <1>2, SameLoans
<1>3. ASSUME NEW t \in Threads, Take(t), ~closed PROVE ExclusiveLoan'
  <2> SUFFICES ASSUME twice = 0 PROVE ExclusiveLoan'
    BY <1>3 DEF Take, ExclusiveLoan
  <2> DEFINE c == Head(available)
  <2>1. /\ IsDuplicateFree(available')
        /\ \A i \in DOMAIN available' : available'[i] # c
        /\ \A i \in DOMAIN available' :
             \E j \in DOMAIN available : available'[i] = available[j]
    <3>1. /\ available \in Seq(Conns) /\ available # <<>> /\ IsDuplicateFree(available)
          /\ available' = Tail(available)
      BY <1>1, <1>3, TakeLends DEF ExclusiveLoan
    <3>2. /\ IsDuplicateFree(Tail(available))
          /\ \A i \in DOMAIN Tail(available) : Tail(available)[i] # c
          /\ \A i \in DOMAIN Tail(available) :
               \E j \in DOMAIN available : Tail(available)[i] = available[j]
      BY <3>1, TailOfDuplicateFree
    <3> QED
      BY <3>1, <3>2 DEF IsDuplicateFree
  <2>2. c \in Conns /\ \E j \in DOMAIN available : c = available[j]
    BY <1>3, TakeLends, HeadTailProperties, EmptySeq, LenProperties
  <2>3. \A u \in Threads : Loan'[u] = IF u = t THEN c ELSE Loan[u]
    BY <1>1, <1>3, TakeLends
  <2>4. \A u \in Threads : Loan[u] # c
    BY <1>1, <2>2 DEF ExclusiveLoan
  <2>5. \A u \in Threads, i \in DOMAIN available' : Loan'[u] # available'[i]
    BY <1>1, <2>1, <2>3 DEF ExclusiveLoan
  <2>6. \A u, w \in Threads : Loan'[u] = Loan'[w] /\ u # w => Loan'[u] = NoConn
    BY <1>1, <2>3, <2>4 DEF ExclusiveLoan
  <2> QED
    BY <2>1, <2>5, <2>6 DEF ExclusiveLoan, IsDuplicateFree
<1>4. ASSUME NEW t \in Threads, ReturnPush(t) \/ FirstOfTwo(t) PROVE ExclusiveLoan'
  <2> SUFFICES ASSUME twice' = 0 PROVE ExclusiveLoan'
    BY DEF ExclusiveLoan
  <2>0. twice = 0
    BY <1>4, PushReturns
  <2>1. /\ IsDuplicateFree(available')
        /\ \A i \in DOMAIN available' :
             \/ available'[i] = Loan[t]
             \/ \E j \in DOMAIN available : available'[i] = available[j]
    <3> DEFINE a == Append(available, Loan[t])
    <3>1. /\ available \in Seq(Conns) /\ Loan[t] \in Conns /\ IsDuplicateFree(available)
          /\ \A i \in DOMAIN available : Loan[t] # available[i]
          /\ available' = a
      BY <1>4, PushReturns
    <3>2. /\ IsDuplicateFree(a)
          /\ \A i \in DOMAIN a :
               a[i] = Loan[t] \/ \E j \in DOMAIN available : a[i] = available[j]
      BY <3>1, AppendDuplicateFree
    <3> HIDE DEF a
    <3> QED
      BY <3>1, <3>2 DEF IsDuplicateFree
  <2>2. \A u \in Threads : Loan'[u] = IF u = t THEN NoConn ELSE Loan[u]
    BY <1>1, <1>4, PushReturns
  <2>3. Loan[t] # NoConn /\ \A i \in DOMAIN available' : available'[i] # NoConn
    <3>1. Loan[t] \in Conns /\ available \in Seq(Conns)
      BY <1>4, PushReturns
    <3>2. \A i \in DOMAIN available : available[i] \in Conns
      BY <3>1, ElementOfSeq, LenProperties
    <3> QED
      BY <2>1, <3>1, <3>2, RedisPoolAssumption
  <2>4. \A u \in Threads, i \in DOMAIN available' : Loan'[u] # available'[i]
    BY <1>1, <2>0, <2>1, <2>2, <2>3 DEF ExclusiveLoan
  <2>5. \A u, w \in Threads : Loan'[u] = Loan'[w] /\ u # w => Loan'[u] = NoConn
    BY <1>1, <2>0, <2>2 DEF ExclusiveLoan
  <2> QED
    BY <2>1, <2>4, <2>5 DEF ExclusiveLoan, IsDuplicateFree
<1>5. ASSUME NEW t \in Threads, ReturnCheck(t) \/ Forget(t) PROVE ExclusiveLoan'
  BY <1>1, <1>2, <1>5, FewerLoans DEF ReturnCheck, Forget
<1>6. CASE CloseDrain
  <2>1. Loan' = Loan /\ available' = <<>> /\ twice' = twice
    BY <1>6 DEF CloseDrain, callers, Loan
  <2> QED
    BY <1>1, <2>1 DEF ExclusiveLoan, IsDuplicateFree
<1>7. ASSUME NEW t \in Threads, Take(t), closed PROVE ExclusiveLoan'
  BY <1>2, <1>7 DEF Take
<1>8. ASSUME NEW t \in Threads,
             \/ Call(t) \/ Lock(t) \/ WaitTest(t) \/ WaitSleep(t)
             \/ WaitWake(t) \/ WaitSpurious(t)
      PROVE  ExclusiveLoan'
  BY <1>2, <1>8 DEF Call, Lock, WaitTest, WaitSleep, WaitWake, WaitSpurious, callers
<1>9. CASE CloseStore \/ UNCHANGED vars
  BY <1>2, <1>9 DEF CloseStore, vars, callers
<1> QED
  BY <1>3, <1>4, <1>5, <1>6, <1>7, <1>8, <1>9 DEF Next, Proceed

\* A connection found by the test stays until it is taken: the thread that
\* found it holds the mutex, and only its holder removes one.
LEMMA PopStep == IInv /\ [Next]_vars => NoEmptyPop'
<1> SUFFICES ASSUME IInv, [Next]_vars PROVE NoEmptyPop'
  OBVIOUS
<1> USE MonitorAssumption DEF NoEmptyPop, Goto
<1>1. TypeOK /\ LockInv /\ NoEmptyPop /\ CloserInv
  BY DEF IInv
<1>2. CASE UNCHANGED <<available, closed>>
  <2>1. ASSUME NEW t \in Threads, Call(t) \/ Lock(t) \/ WaitSleep(t) \/ WaitWake(t)
        PROVE  NoEmptyPop'
    BY <1>1, <1>2, <2>1
    DEF Call, Lock, WaitSleep, Sleep, WaitWake, Wake, Acquire, TypeOK, Labels
  <2>2. ASSUME NEW t \in Threads, WaitTest(t) PROVE NoEmptyPop'
    BY <1>1, <1>2, <2>2 DEF WaitTest, Test, TypeOK, Labels
  <2>3. ASSUME NEW t \in Threads, WaitSpurious(t) \/ ReturnCheck(t) \/ Forget(t)
        PROVE  NoEmptyPop'
    BY <1>1, <1>2, <2>3
    DEF WaitSpurious, SpuriousWakeup, ReturnCheck, Forget, LetGo, TypeOK, Labels
  <2>4. ASSUME NEW t \in Threads, Take(t) PROVE NoEmptyPop'
    BY <1>1, <1>2, <2>4 DEF Take, TypeOK, Labels, LockInv
  <2>5. ASSUME NEW t \in Threads, ReturnPush(t) \/ FirstOfTwo(t) PROVE NoEmptyPop'
    BY <1>1, <1>2, <2>5 DEF ReturnPush, FirstOfTwo, Push, LetGo, TypeOK, Labels, LockInv
  <2>6. CASE CloseStore \/ CloseDrain \/ UNCHANGED vars
    BY <1>1, <1>2, <2>6 DEF CloseStore, CloseDrain, vars, monitor
  <2> QED
    BY <2>1, <2>2, <2>3, <2>4, <2>5, <2>6 DEF Next, Proceed
<1>3. ASSUME NEW t \in Threads, Take(t) PROVE NoEmptyPop'
  BY <1>1, <1>3 DEF Take, TypeOK, Labels, LockInv
<1>4. ASSUME NEW t \in Threads, ReturnPush(t) \/ FirstOfTwo(t) PROVE NoEmptyPop'
  BY <1>1, <1>4 DEF ReturnPush, FirstOfTwo, Push, LetGo, TypeOK, Labels, LockInv
<1>5. CASE CloseStore
  BY <1>5 DEF CloseStore
<1>6. CASE CloseDrain
  BY <1>1, <1>6 DEF CloseDrain, CloserInv, TypeOK
<1>7. CASE UNCHANGED vars
  BY <1>2, <1>7 DEF vars
<1>8. ASSUME NEW t \in Threads,
             \/ Call(t) \/ Lock(t) \/ WaitTest(t) \/ WaitSleep(t) \/ WaitWake(t)
             \/ WaitSpurious(t) \/ ReturnCheck(t) \/ Forget(t)
      PROVE  NoEmptyPop'
  BY <1>2, <1>8 DEF Call, Lock, WaitTest, WaitSleep, WaitWake, WaitSpurious,
                    ReturnCheck, Forget
<1> QED
  BY <1>3, <1>4, <1>5, <1>6, <1>7, <1>8 DEF Next, Proceed

-----------------------------------------------------------------------------
\* IInv holds in every reachable state of the pool.
THEOREM Inductive == Spec => []IInv
<1>1. IInv /\ [Next]_vars => IInv'
  BY TypeStep, ControlStep, LoanStep, PopStep DEF IInv
<1> QED
  BY InitIInv, <1>1, PTL DEF Spec

\* The variables of the pool and its callers keep their types.
THEOREM TypeCorrect == Spec => []TypeOK
BY Inductive, PTL DEF IInv

\* Until a handler returns a connection a second time, none is lent to two
\* threads or lent and queued at once, for any number of threads and
\* connections (getConnection and returnConnection).
THEOREM LoansExclusive == Spec => []ExclusiveLoan
BY Inductive, PTL DEF IInv

\* getConnection never pops an empty queue.
THEOREM PopsNonEmpty == Spec => []NoEmptyPop
BY Inductive, PTL DEF IInv

\* No thread is left asleep by close(), although it stores closed_ before it
\* takes the mutex.
THEOREM CloseReleases == Spec => []CloseWakesAll
BY Inductive, PTL DEF IInv
-----------------------------------------------------------------------------
\* No wakeup is lost

\* The queue of an open pool stays empty from the test that found it empty
\* until its thread sleeps; only threads in the wait are to be notified.
SleepInv == \A t \in Threads :
  /\ pc[t] = "sleep" /\ ~closed => available = <<>>
  /\ t \in asleep => pc[t] = "blocked"

LEMMA SleepStep == IInv /\ SleepInv /\ [Next]_vars => SleepInv'
<1> SUFFICES ASSUME IInv, SleepInv, [Next]_vars PROVE SleepInv'
  OBVIOUS
<1> USE MonitorAssumption DEF SleepInv, Goto
<1>1. LockInv /\ DOMAIN pc = Threads
  BY DEF IInv, TypeOK
<1>2. ASSUME NEW t \in Threads, Call(t) \/ Lock(t) \/ WaitTest(t) PROVE SleepInv'
  BY <1>1, <1>2 DEF Call, Lock, Acquire, WaitTest, Test
<1>3. ASSUME NEW t \in Threads, WaitSleep(t) \/ WaitWake(t) \/ WaitSpurious(t) PROVE SleepInv'
  BY <1>1, <1>3 DEF WaitSleep, Sleep, WaitWake, Wake, Acquire, WaitSpurious, SpuriousWakeup
<1>4. ASSUME NEW t \in Threads, Take(t) PROVE SleepInv'
  BY <1>1, <1>4 DEF Take, LockInv
<1>5. ASSUME NEW t \in Threads, ReturnCheck(t) \/ Forget(t) PROVE SleepInv'
  BY <1>1, <1>5 DEF ReturnCheck, Forget, LetGo
<1>6. ASSUME NEW t \in Threads, ReturnPush(t) \/ FirstOfTwo(t) PROVE SleepInv'
  BY <1>1, <1>6 DEF ReturnPush, FirstOfTwo, Push, LetGo, NotifyOne, LockInv
<1>7. CASE CloseStore \/ CloseDrain
  BY <1>7 DEF CloseStore, CloseDrain, NotifyAll, monitor
<1>8. CASE UNCHANGED vars
  BY <1>8 DEF vars, monitor
<1> QED
  BY <1>2, <1>3, <1>4, <1>5, <1>6, <1>7, <1>8 DEF Next, Proceed

LEMMA WakeupStep == IInv /\ SleepInv /\ NoLostWakeup /\ [Next]_vars => NoLostWakeup'
<1> SUFFICES ASSUME IInv, SleepInv, NoLostWakeup, [Next]_vars, asleep' # {}, ~closed'
             PROVE  Len(available') <= Cardinality(Awake')
  BY DEF NoLostWakeup
<1> USE DEF Goto
<1>1. /\ LockInv /\ DOMAIN pc = Threads /\ asleep \subseteq Threads
      /\ available \in Seq(Conns) /\ Len(available) \in Nat
  BY LenProperties DEF IInv, TypeOK
<1>2. /\ IsFiniteSet(Awake) /\ Cardinality(Awake) \in Nat
      /\ IsFiniteSet(Awake') /\ Cardinality(Awake') \in Nat
  BY RedisPoolAssumption, FS_Subset, FS_CardinalityType DEF Awake
<1>3. asleep # {} /\ ~closed => Len(available) <= Cardinality(Awake)
  BY DEF NoLostWakeup
<1>4. ASSUME available' = available, asleep # {}, ~closed, Awake \subseteq Awake'
      PROVE  Len(available') <= Cardinality(Awake')
  <2>1. Cardinality(Awake) <= Cardinality(Awake')
    BY <1>2, <1>4, FS_Subset
  <2> QED
    BY <1>1, <1>2, <1>3, <1>4, <2>1
<1>5. ASSUME available' = <<>> PROVE Len(available') <= Cardinality(Awake')
  BY <1>2, <1>5
<1>6. ASSUME NEW t \in Threads, Call(t) \/ Lock(t) \/ WaitWake(t) \/ WaitSpurious(t)
      PROVE  Len(available') <= Cardinality(Awake')
  <2>1. available' = available /\ asleep # {} /\ ~closed
    BY <1>6 DEF Call, Lock, Acquire, WaitWake, Wake, WaitSpurious, SpuriousWakeup
  <2>2. Awake \subseteq Awake'
    BY <1>1, <1>6
    DEF Awake, Call, Lock, Acquire, WaitWake, Wake, WaitSpurious, SpuriousWakeup, SleepInv
  <2> QED
    BY <1>4, <2>1, <2>2
<1>7. ASSUME NEW t \in Threads, WaitTest(t) PROVE Len(available') <= Cardinality(Awake')
  <2>1. available' = available /\ asleep # {} /\ ~closed
    BY <1>7 DEF WaitTest, Test
  <2>2. CASE available = <<>>
    BY <1>5, <2>1, <2>2
  <2>3. CASE available # <<>>
    <3>1. Awake \subseteq Awake'
      BY <1>1, <1>7, <2>3 DEF Awake, WaitTest, Test
    <3> QED
      BY <1>4, <2>1, <3>1
  <2> QED
    BY <2>2, <2>3
<1>8. ASSUME NEW t \in Threads, WaitSleep(t) PROVE Len(available') <= Cardinality(Awake')
  BY <1>5, <1>8 DEF WaitSleep, Sleep, SleepInv
<1>9. ASSUME NEW t \in Threads, Take(t) PROVE Len(available') <= Cardinality(Awake')
  <2>1. ~closed /\ asleep # {} /\ pc[t] = "take" /\ asleep' = asleep
    BY <1>9 DEF Take
  <2>2. Len(available') = Len(available) - 1
    BY <1>9, <2>1, TakeLends, HeadTailProperties
  <2>3. Awake' = Awake \ {t} /\ t \in Awake
    BY <1>1, <1>9, <2>1, TakeLends DEF Awake
  <2>4. Cardinality(Awake') = Cardinality(Awake) - 1
    BY <1>2, <2>3, FS_RemoveElement
  <2> QED
    BY <1>1, <1>2, <1>3, <2>1, <2>2, <2>4
<1>10. ASSUME NEW t \in Threads, ReturnCheck(t) \/ Forget(t)
       PROVE  Len(available') <= Cardinality(Awake')
  <2>1. available' = available /\ asleep # {} /\ ~closed
    BY <1>10 DEF ReturnCheck, Forget
  <2>2. Awake \subseteq Awake'
    BY <1>1, <1>10 DEF Awake, ReturnCheck, Forget, LetGo
  <2> QED
    BY <1>4, <2>1, <2>2
<1>11. ASSUME NEW t \in Threads, ReturnPush(t) \/ FirstOfTwo(t)
       PROVE  Len(available') <= Cardinality(Awake')
  <2>0. Push(t)
    BY <1>11 DEF ReturnPush, FirstOfTwo
  <2>1. PICK u \in asleep : asleep' = asleep \ {u}
    BY <2>0 DEF Push, NotifyOne
  <2>2. pc[u] = "blocked" /\ u \in Threads
    BY <1>1, <2>1 DEF SleepInv
  <2>3. /\ ~closed /\ pc[t] = "push"
        /\ pc' \in {[pc EXCEPT ![t] = "idle"], [pc EXCEPT ![t] = "using"]}
    BY <1>11, <2>0 DEF Push, ReturnPush, FirstOfTwo, LetGo
  <2>4. Awake' = Awake \cup {u} /\ u \notin Awake
    BY <1>1, <2>1, <2>2, <2>3 DEF Awake
  <2>5. Cardinality(Awake') = Cardinality(Awake) + 1
    BY <1>2, <2>4, FS_AddElement
  <2>6. Len(available') = Len(available) + 1
    BY <2>0, PushQueues, AppendProperties
  <2> QED
    BY <1>1, <1>2, <1>3, <2>1, <2>3, <2>5, <2>6
<1>12. CASE CloseStore
  BY <1>12 DEF CloseStore
<1>13. CASE CloseDrain
  BY <1>13 DEF CloseDrain, NotifyAll
<1>14. CASE UNCHANGED vars
  <2>1. available' = available /\ asleep # {} /\ ~closed /\ Awake' = Awake
    BY <1>14 DEF vars, monitor, Awake
  <2> QED
    BY <1>4, <2>1
<1> QED
  BY <1>6, <1>7, <1>8, <1>9, <1>10, <1>11, <1>12, <1>13, <1>14 DEF Next, Proceed

\* While a thread sleeps in an open pool, each queued connection has a thread
\* on its way to it: notify_one is called once for each connection returned,
\* and a thread that finds the queue empty again takes no connection away.
THEOREM NoWakeupLost == Spec => []NoLostWakeup
<1>1. Init => SleepInv /\ NoLostWakeup
  BY DEF Init, MonitorInit, SleepInv, NoLostWakeup
<1>2. IInv /\ SleepInv /\ NoLostWakeup /\ [Next]_vars => SleepInv' /\ NoLostWakeup'
  BY SleepStep, WakeupStep
<1> QED
  BY Inductive, <1>1, <1>2, PTL DEF Spec
-----------------------------------------------------------------------------
\* Refinement of ConnectionPool

Idle == {available[i] : i \in DOMAIN available}

\* The pool starts with all its connections idle.
LEMMA InitMaps == Init => Lending!Init
BY RedisPoolAssumption DEF Init, Loan, Lending!Init

\* Each step lends, takes back, loses or empties, or is not seen, as long as no
\* connection has been returned a second time.
LEMMA StepMaps == IInv /\ [Next]_vars => [twice' = 0 => Lending!Next]_(Lending!vars)
<1> SUFFICES ASSUME IInv, [Next]_vars, twice' = 0 PROVE [Lending!Next]_(Lending!vars)
  OBVIOUS
<1>1. TypeOK /\ HoldInv /\ ExclusiveLoan
  BY DEF IInv
<1>2. CASE UNCHANGED <<available, conn, stale>>
  <2>1. Loan' = Loan
    BY <1>2 DEF Loan
  <2> QED
    BY <1>2, <2>1 DEF Lending!vars
<1>3. ASSUME NEW t \in Threads, Take(t), ~closed PROVE Lending!Borrow(t)
  <2>1. Loan[t] = NoConn /\ Loan' = [Loan EXCEPT ![t] = Head(available)]
    BY <1>3, TakeLends
  <2>2. /\ available \in Seq(Conns) /\ available # <<>> /\ IsDuplicateFree(available)
        /\ available' = Tail(available)
    BY <1>1, <1>3, TakeLends DEF ExclusiveLoan, Take
  <2>3. {Tail(available)[i] : i \in DOMAIN Tail(available)} = Idle \ {Head(available)}
    BY <2>2, TailOfDuplicateFree DEF Idle
  <2>4. Head(available) \in Idle
    BY <2>2, HeadTailProperties, EmptySeq, LenProperties DEF Idle
  <2> QED
    BY <2>1, <2>2, <2>3, <2>4 DEF Lending!Borrow, Idle
<1>4. ASSUME NEW t \in Threads, ReturnPush(t) \/ FirstOfTwo(t) PROVE Lending!GiveBack(t)
  <2> DEFINE a == Append(available, Loan[t])
  <2>1. /\ available \in Seq(Conns) /\ Loan[t] \in Conns /\ IsDuplicateFree(available)
        /\ \A i \in DOMAIN available : Loan[t] # available[i]
        /\ available' = a
        /\ Loan' = [Loan EXCEPT ![t] = NoConn]
    BY <1>4, PushReturns
  <2>2. {a[i] : i \in DOMAIN a} = Idle \cup {Loan[t]}
    BY <2>1, AppendDuplicateFree DEF Idle
  <2>3. Loan[t] # NoConn
    BY <2>1, RedisPoolAssumption
  <2> HIDE DEF a
  <2> QED
    BY <2>1, <2>2, <2>3 DEF Lending!GiveBack, Idle
<1>5. ASSUME NEW t \in Threads, ReturnCheck(t) \/ Forget(t)
      PROVE  Lending!Drop(t) \/ UNCHANGED <<available, conn, stale>>
  <2>1. ASSUME LetGo(t) PROVE Loan' = [Loan EXCEPT ![t] = NoConn]
    BY <1>1, <2>1 DEF LetGo, Loan, TypeOK
  <2> QED
    BY <1>5, <2>1 DEF ReturnCheck, Forget, Lending!Drop
<1>6. CASE CloseDrain
  <2>1. Loan' = Loan
    BY <1>6 DEF CloseDrain, callers, Loan
  <2> QED
    BY <1>6, <2>1 DEF CloseDrain, Lending!Empty, Lending!Next
<1>7. ASSUME NEW t \in Threads,
             \/ Call(t) \/ Lock(t) \/ WaitTest(t) \/ WaitSleep(t) \/ WaitWake(t)
             \/ WaitSpurious(t) \/ (Take(t) /\ closed)
      PROVE  UNCHANGED <<available, conn, stale>>
  BY <1>7 DEF Call, Lock, WaitTest, WaitSleep, WaitWake, WaitSpurious, Take, callers
<1>8. CASE CloseStore \/ UNCHANGED vars
  BY <1>2, <1>8 DEF CloseStore, vars, callers
<1> QED
  BY <1>2, <1>3, <1>4, <1>5, <1>6, <1>7, <1>8 DEF Next, Proceed, Lending!Next

\* RedisPool implements exclusive lending, whatever the interleaving of
\* getConnection, returnConnection and close(), until a handler returns a
\* connection a second time.
THEOREM Implements == Spec => LendsExclusively
BY InitMaps, StepMaps, Inductive, PTL DEF Spec, LendsExclusively
=============================================================================
