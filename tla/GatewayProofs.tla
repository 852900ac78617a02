---------------------------- MODULE GatewayProofs ----------------------------
(***************************************************************************)
(* Proofs about Gateway, for any number of worker threads, connections and *)
(* MySQL connections, whichever constructors, accepts and handlers fail.   *)
(*                                                                         *)
(* OneListener is not inductive: it speaks of the time until a signal      *)
(* only, while a worker may still be in strat() afterwards (OneTurn), it   *)
(* needs a connection object to be left (ObjectLeft), and GetIOService,    *)
(* which has no lock, keeps its index in range only because no two threads *)
(* are in strat() (IndexInv).                                              *)
(***************************************************************************)
EXTENDS Gateway, FiniteSetTheorems, WellFoundedInduction, TLAPS

\* A constructor has begun once if the instance is no longer absent.
ConstructInv ==
  \A c \in Classes : constructions[c] = IF instance[c] = "absent" THEN 0 ELSE 1

\* At any time: no two threads in strat(), no two accepts under way, and not
\* one of each.
OneTurn ==
  /\ \A t, u \in InStrat : t = u
  /\ \A j, k \in Queued : j = k
  /\ InStrat = {} \/ Queued = {}

\* main has begun to listen and has had no signal.
Open == pc[Main] \in {"strat", "make_pool", "pick", "listen", "serve"}

\* Nobody has a turn before main begins; until the signal somebody has,
\* except when an exception has ended the loop.
LoopInv ==
  /\ pc[Main] = "start" => ~deaf /\ InStrat = {} /\ Queued = {}
  /\ Open => (deaf <=> InStrat = {} /\ Queued = {})

\* While a thread is on its way to strat() it finds a connection object.
Coming == {k \in Conns : phase[k] \in {"refused", "accepted"}}
ObjectLeft == pc[Main] = "start" \/ InStrat # {} \/ Coming # {} => Fresh # {}

\* The index of GetIOService is out of range only between its two steps.
IndexInv == _nextIOService = Size => \E t \in Threads : pc[t] = "listen"

\* A worker serves a connection exactly while it is in handlereq; the
\* connection is bound to its context, and no other handler has moved it on.
Serving == {"logical", "make_logical", "dispatch", "manager", "make_manager", "take", "query"}
ServeInv ==
  \A w \in Workers :
    /\ serving[w] # 0 <=> pc[w] \in Serving
    /\ serving[w] # 0 => phase[serving[w]] = "handling" /\ service[serving[w]] = w

\* No MySQL connection is returned twice.
Querying == {w \in Workers : pc[w] = "query"}
MysqlInv == mysqlIdle + Cardinality(Querying) <= MysqlSize

IInv ==
  /\ TypeOK
  /\ ConstructInv
  /\ OneTurn
  /\ LoopInv
  /\ ObjectLeft
  /\ IndexInv
  /\ ServeInv
  /\ MysqlInv

-----------------------------------------------------------------------------
\* Facts about the constants and about connection objects

\* main is not one of the workers, and no worker is the number after them.
LEMMA ThreadFacts ==
  /\ Main \in Threads /\ Main \notin Workers
  /\ Workers \subseteq Threads
  /\ NoService \notin Workers
  /\ IsFiniteSet(Workers)
<1>1. Size \in Nat \ {0} /\ Main \notin Nat
  BY ServerAssumption
<1>2. \A w \in Workers : w \in Nat
  BY <1>1 DEF Workers
<1>3. IsFiniteSet(0 .. Size - 1)
  BY <1>1, FS_Interval
<1> QED
  BY <1>1, <1>2, <1>3 DEF Workers, Threads, NoService

\* A set of natural numbers that is not empty has a least element.
LEMMA LeastNumber ==
  ASSUME NEW S \in SUBSET Nat, S # {}
  PROVE  \E k \in S : \A j \in S : k <= j
<1> DEFINE R == OpToRel(<, Nat)
<1>1. IsWellFoundedOn(R, Nat)
  BY NatLessThanWellFounded
<1>2. \A i, j \in Nat : i < j => <<i, j>> \in R
  BY DEF OpToRel
<1> HIDE DEF R
<1>3. PICK k \in S : \A j \in S : ~ (<<j, k>> \in R)
  BY <1>1, WFMin
<1>4. \A j \in S : k \in Nat /\ j \in Nat /\ ~ (j < k)
  BY <1>2, <1>3
<1>5. \A j \in S : k <= j
  BY <1>4
<1> QED
  BY <1>5

\* While a connection object is left, strat() takes one that is new.
LEMMA NewestIsFresh == Fresh # {} => Newest \in Fresh
<1> SUFFICES ASSUME Fresh # {} PROVE Newest \in Fresh
  OBVIOUS
<1>1. Fresh \in SUBSET Nat
  BY HttpConnectionAssumption DEF Fresh
<1>2. \E k \in Fresh : \A j \in Fresh : k <= j
  BY <1>1, LeastNumber
<1> QED
  BY <1>2 DEF Newest

-----------------------------------------------------------------------------
\* The inductive invariant

LEMMA InitIInv == Init => IInv
<1> SUFFICES ASSUME Init PROVE IInv
  OBVIOUS
<1> USE ServerAssumption, HttpConnectionAssumption, GatewayAssumption, ThreadFacts
    DEF Init, SingletonInit, HttpConnectionInit, ServerInit
<1>1. TypeOK
  <2>1. SingletonTypeOK
    BY DEF SingletonTypeOK, InstanceStates
  <2>2. HttpConnectionTypeOK
    BY DEF HttpConnectionTypeOK, Phases
  <2>3. stopped \in BOOLEAN /\ deaf \in BOOLEAN /\ crashed \in BOOLEAN
    OBVIOUS
  <2>4. pc \in [Threads -> Labels] /\ \A t \in Threads : pc[t] # "listen"
    BY DEF Labels
  <2>5. NoService \in 0 .. Size /\ _nextIOService \in 0 .. Size
    BY DEF NoService
  <2>6. ServerTypeOK
    BY <2>3, <2>4, <2>5 DEF ServerTypeOK
  <2>7. serving \in [Workers -> Conns \cup {0}] /\ mysqlIdle \in 0 .. MysqlSize
    OBVIOUS
  <2> QED
    BY <2>1, <2>2, <2>3, <2>4, <2>6, <2>7 DEF TypeOK
<1>2. InStrat = {} /\ Queued = {} /\ Fresh = Conns
  BY DEF InStrat, Queued, Fresh
<1>3. Querying = {}
  BY DEF Querying
<1>4. MysqlInv
  BY <1>3, FS_EmptySet DEF MysqlInv
<1>5. ConstructInv /\ OneTurn /\ LoopInv /\ ObjectLeft /\ IndexInv /\ ServeInv
  BY <1>2 DEF ConstructInv, OneTurn, LoopInv, Open, ObjectLeft, IndexInv, ServeInv, Serving
<1> QED
  BY <1>1, <1>4, <1>5 DEF IInv

\* A getInstance in strat() or in a handler keeps the types.
LEMMA GetInstanceTypes ==
  ASSUME TypeOK, NEW t \in Threads, NEW c \in Classes, NEW from, NEW making, NEW to,
         {from, making, to} \subseteq Labels \ {"listen"},
         GetInstance(t, c, from, making, to)
  PROVE  TypeOK'
<1> USE DEF GetInstance, Found, Construct, Constructed, ConstructorFails, FoundNull
<1>1. SingletonTypeOK'
  BY DEF TypeOK, SingletonTypeOK, InstanceStates, singletons
<1>2. HttpConnectionTypeOK'
  BY DEF TypeOK, HttpConnectionTypeOK, connections
<1>3. /\ pc' \in [Threads -> Labels]
      /\ \A u \in Threads : pc'[u] = "listen" => pc[u] = "listen"
  BY DEF TypeOK, Goto
<1>4. ServerTypeOK'
  BY <1>3 DEF TypeOK, ServerTypeOK, accepting
<1>5. serving' \in [Workers -> Conns \cup {0}] /\ mysqlIdle' \in 0 .. MysqlSize
  BY DEF TypeOK, handler
<1>6. crashed' \in BOOLEAN
  BY DEF TypeOK
<1> QED
  BY <1>1, <1>2, <1>3, <1>4, <1>5, <1>6 DEF TypeOK

\* A thread that is about to pick a context finds the index in range.
LEMMA PickInRange ==
  ASSUME IInv, NEW t \in Threads, Pick(t)
  PROVE  _nextIOService \in Workers
<1>1. \A u \in Threads : pc[u] # "listen"
  BY DEF IInv, OneTurn, InStrat, Pick
<1>2. _nextIOService # Size /\ _nextIOService \in 0 .. Size
  BY <1>1 DEF IInv, IndexInv, TypeOK, ServerTypeOK
<1> QED
  BY <1>2, ServerAssumption DEF Workers

\* A worker that ends a request has one, and it is in handlereq.
LEMMA ServesOne ==
  ASSUME IInv, NEW w \in Workers, pc[w] \in Serving
  PROVE  serving[w] \in Conns /\ phase[serving[w]] = "handling"
  BY DEF IInv, ServeInv, TypeOK

LEMMA TypeStep == IInv /\ [Next]_vars => TypeOK'
<1> SUFFICES ASSUME IInv, [Next]_vars PROVE TypeOK'
  OBVIOUS
<1> USE ServerAssumption, GatewayAssumption, ThreadFacts
    DEF TypeOK, SingletonTypeOK, HttpConnectionTypeOK, ServerTypeOK, InstanceStates,
        Phases, Gone, Labels, Goto, Becomes, singletons, connections, accepting, handler
<1>1. TypeOK
  BY DEF IInv
<1>2. ASSUME NEW t \in Threads, Strat(t) PROVE TypeOK'
  <2>1. CASE Pick(t) /\ UNCHANGED <<handler, crashed>>
    <3>1. _nextIOService \in Workers
      BY <2>1, PickInRange
    <3> QED
      BY <1>1, <2>1, <3>1 DEF Pick, PickService, Workers
  <2>2. CASE GetInstance(t, "AsioIOServicePool", "strat", "make_pool", "pick")
    BY <1>1, <2>2, GetInstanceTypes DEF Managers
  <2>3. CASE pc[t] = "listen" /\ pc[Main] \in {"exit", "join", "exited"}
    BY <1>1, <1>2, <2>3 DEF Strat, WrapService, NoService, GetInstance, Pick
  <2>4. CASE pc[t] = "listen" /\ pc[Main] \notin {"exit", "join", "exited"}
    BY <1>1, <1>2, <2>4
    DEF Strat, Listen, WrapService, New, NoService, AfterStrat, GetInstance, Pick
  <2> QED
    BY <1>2, <2>1, <2>2, <2>3, <2>4 DEF Strat
<1>3. ASSUME NEW w \in Workers, RunAccept(w) PROVE TypeOK'
  <2>1. PICK k \in Conns : AcceptHandler(w, k) /\ UNCHANGED <<handler, crashed>>
    BY <1>3 DEF RunAccept
  <2>2. HttpConnectionTypeOK'
    BY <1>1, <2>1 DEF AcceptHandler, Start, Drop
  <2>3. pc' = pc \/ pc' = [pc EXCEPT ![w] = "strat"]
    BY <2>1 DEF AcceptHandler
  <2>4. deaf' \in BOOLEAN
    BY <1>1, <2>1 DEF AcceptHandler
  <2> QED
    BY <1>1, <2>1, <2>2, <2>3, <2>4 DEF AcceptHandler
<1>4. ASSUME NEW w \in Workers, RunRead(w) PROVE TypeOK'
  BY <1>1, <1>4 DEF RunRead, ReadDone, Drop
<1>5. ASSUME NEW w \in Workers, pc[w] \in Serving, Reply(w),
             UNCHANGED <<singletons, accepting, crashed>>, mysqlIdle' \in 0 .. MysqlSize
      PROVE  TypeOK'
  BY <1>1, <1>5, ServesOne DEF Reply, Answer, Drop
<1>6. ASSUME NEW w \in Workers, Dispatch(w) PROVE TypeOK'
  <2>1. CASE pc[w] = "dispatch" /\ Reply(w) /\ UNCHANGED <<singletons, accepting, mysqlIdle, crashed>>
    BY <1>1, <1>5, <2>1 DEF Serving
  <2>2. CASE Goto(w, "manager") /\ UNCHANGED <<connections, serving, singletons, accepting,
                                                mysqlIdle, crashed>>
    BY <1>1, <2>2
  <2>3. CASE \/ GetInstance(w, "LogicalSystem", "logical", "make_logical", "dispatch")
             \/ GetInstance(w, "MySqlMgr", "manager", "make_manager", "take")
    BY <1>1, <2>3, GetInstanceTypes DEF Managers
  <2> QED
    BY <1>6, <2>1, <2>2, <2>3 DEF Dispatch
<1>7. ASSUME NEW w \in Workers, Take(w) PROVE TypeOK'
  BY <1>1, <1>7 DEF Take
<1>8. ASSUME NEW w \in Workers, Query(w) PROVE TypeOK'
  <2>1. Cardinality(Querying) \in Nat /\ Cardinality(Querying) # 0
    <3>1. IsFiniteSet(Querying) /\ w \in Querying
      BY <1>8, FS_Subset DEF Querying, Query
    <3> QED
      BY <3>1, FS_CardinalityType, FS_EmptySet
  <2>2. mysqlIdle + 1 <= MysqlSize
    BY <1>1, <2>1 DEF IInv, MysqlInv
  <2> QED
    BY <1>1, <1>5, <1>8, <2>2 DEF Query, Serving
<1>9. ASSUME NEW w \in Workers, RunWritten(w) \/ RunDeadline(w) PROVE TypeOK'
  BY <1>1, <1>9 DEF RunWritten, RunDeadline, Written, Deadline
<1>10. ASSUME NEW w \in Workers, Leave(w) PROVE TypeOK'
  BY <1>1, <1>10 DEF Leave
<1>11. ASSUME NEW k \in Conns, Connect(k) PROVE TypeOK'
  BY <1>1, <1>11 DEF Connect, AcceptCompletes
<1>12. ASSUME NEW k \in Conns, Client(k) \/ Tick(k) PROVE TypeOK'
  BY <1>1, <1>12 DEF Client, Send, Receive, Tick, TimePasses
<1>13. CASE Begin \/ Signal \/ Join \/ Exit
  BY <1>1, <1>13 DEF Begin, Signal, Join, Exit
<1>14. CASE Unwind
  BY <1>1, <1>14 DEF Unwind
<1>15. ASSUME NEW c \in Classes, DestroyManager(c) PROVE TypeOK'
  BY <1>1, <1>15 DEF DestroyManager, Destroyed
<1>16. CASE DestroyPool
  BY <1>1, <1>16 DEF DestroyPool, Stop
<1>17. CASE UNCHANGED vars
  BY <1>1, <1>17 DEF vars
<1> QED
  BY <1>2, <1>3, <1>4, <1>6, <1>7, <1>8, <1>9, <1>10, <1>11, <1>12, <1>13, <1>14,
     <1>15, <1>16, <1>17 DEF Next, WorkerStep, MainStep

\* The instance of a class and the number of its constructions go together:
\* the constructor begins only where there was no instance.
LEMMA ConstructStep == IInv /\ [Next]_vars => ConstructInv'
<1> SUFFICES ASSUME IInv, [Next]_vars PROVE ConstructInv'
  OBVIOUS
<1>1. ConstructInv /\ SingletonTypeOK
  BY DEF IInv, TypeOK
<1>2. CASE UNCHANGED singletons
  BY <1>1, <1>2 DEF ConstructInv, singletons
<1>3. ASSUME NEW t \in Threads, NEW c \in Classes, NEW from, NEW making, NEW to,
             GetInstance(t, c, from, making, to)
      PROVE  ConstructInv'
  BY <1>1, <1>3
  DEF GetInstance, Found, Construct, Constructed, ConstructorFails, FoundNull,
      ConstructInv, SingletonTypeOK, singletons
<1>4. ASSUME NEW t \in Threads, Strat(t) PROVE ConstructInv'
  <2>1. CASE GetInstance(t, "AsioIOServicePool", "strat", "make_pool", "pick")
    BY <1>3, <2>1, GatewayAssumption DEF Managers
  <2> QED
    BY <1>2, <1>4, <2>1 DEF Strat, Pick
<1>5. ASSUME NEW w \in Workers, Dispatch(w) PROVE ConstructInv'
  <2>1. CASE \/ GetInstance(w, "LogicalSystem", "logical", "make_logical", "dispatch")
             \/ GetInstance(w, "MySqlMgr", "manager", "make_manager", "take")
    BY <1>3, <2>1, GatewayAssumption, ThreadFacts DEF Managers
  <2> QED
    BY <1>2, <1>5, <2>1 DEF Dispatch
<1>6. ASSUME NEW c \in Classes, DestroyManager(c) PROVE ConstructInv'
  BY <1>1, <1>6 DEF DestroyManager, Destroyed, ConstructInv, SingletonTypeOK
<1>7. CASE DestroyPool
  BY <1>1, <1>7 DEF DestroyPool, ConstructInv, SingletonTypeOK
<1>8. ASSUME NEW w \in Workers,
             \/ RunAccept(w) \/ RunRead(w) \/ Take(w) \/ Query(w)
             \/ RunWritten(w) \/ RunDeadline(w) \/ Leave(w)
      PROVE  ConstructInv'
  <2>1. UNCHANGED singletons
    BY <1>8 DEF RunAccept, AcceptHandler, RunRead, Take, Query, RunWritten, RunDeadline, Leave
  <2> QED
    BY <1>2, <2>1
<1>9. CASE \/ Begin \/ Signal \/ Unwind \/ Join \/ Exit \/ UNCHANGED vars
           \/ \E k \in Conns : Connect(k) \/ Client(k) \/ Tick(k)
  BY <1>2, <1>9 DEF Begin, Signal, Unwind, Join, Exit, vars, Connect, AcceptCompletes,
                    Client, Tick
<1> QED
  BY <1>4, <1>5, <1>6, <1>7, <1>8, <1>9, ThreadFacts DEF Next, WorkerStep, MainStep

-----------------------------------------------------------------------------
\* The accept loop

Loop == OneTurn /\ LoopInv /\ ObjectLeft /\ IndexInv

\* A step that is not about the loop keeps its invariants; the signal and what
\* main does after it are such steps.
LEMMA SameTurn ==
  ASSUME Loop, InStrat' = InStrat, Queued' = Queued, Coming' = Coming, Fresh' = Fresh,
         \A t \in Threads : pc[t] = "listen" => pc'[t] = "listen",
         pc'[Main] = "start" => pc[Main] = "start", Open' => Open,
         UNCHANGED <<deaf, _nextIOService>>
  PROVE  Loop'
  BY DEF Loop, OneTurn, LoopInv, ObjectLeft, IndexInv

\* Elsewhere: the labels of the loop and of main stay, and so does every
\* connection that is not past the loop.
Turning == {"strat", "make_pool", "pick", "listen"}
Early == {"none", "accepting", "refused", "accepted"}

Elsewhere ==
  /\ pc'[Main] = pc[Main]
  /\ \A t \in Threads : pc'[t] = pc[t] \/ {pc[t], pc'[t]} \cap Turning = {}
  /\ \A k \in Conns : phase'[k] = phase[k] \/ {phase[k], phase'[k]} \cap Early = {}
  /\ UNCHANGED <<deaf, _nextIOService>>

LEMMA OtherStep ==
  ASSUME IInv, Elsewhere
  PROVE  Loop'
<1>1. InStrat' = InStrat /\ \A t \in Threads : pc[t] = "listen" => pc'[t] = "listen"
  BY DEF Elsewhere, InStrat, Turning
<1>2. Queued' = Queued /\ Coming' = Coming /\ Fresh' = Fresh
  BY DEF Elsewhere, Queued, Coming, Fresh, Early
<1> QED
  BY <1>1, <1>2, SameTurn DEF IInv, Loop, Open, Elsewhere

LEMMA LoopStep == IInv /\ [Next]_vars => Loop'
<1> SUFFICES ASSUME IInv, [Next]_vars PROVE Loop'
  OBVIOUS
<1> USE ThreadFacts
<1>1. TypeOK /\ Loop
  BY DEF IInv, Loop
<1>2. pc \in [Threads -> Labels] /\ phase \in [Conns -> Phases]
  BY <1>1 DEF TypeOK, HttpConnectionTypeOK
<1>3. ASSUME NEW t \in Threads, Strat(t) PROVE Loop'
  <2>1. CASE GetInstance(t, "AsioIOServicePool", "strat", "make_pool", "pick")
    <3>1. InStrat' = InStrat /\ (Open' => Open)
      BY <1>2, <2>1 DEF GetInstance, Goto, InStrat, Open
    <3>2. /\ \A u \in Threads : pc[u] = "listen" => pc'[u] = "listen"
          /\ pc'[Main] = "start" => pc[Main] = "start"
      BY <1>2, <2>1 DEF GetInstance, Goto
    <3>3. UNCHANGED <<phase, deaf, _nextIOService>>
      BY <2>1 DEF GetInstance, connections, accepting
    <3> QED
      BY <1>1, <3>1, <3>2, <3>3, SameTurn DEF Queued, Coming, Fresh
  <2>2. CASE Pick(t)
    <3>1. pc[t] = "pick" /\ pc' = [pc EXCEPT ![t] = "listen"] /\ UNCHANGED <<phase, deaf>>
      BY <2>2 DEF Pick, Goto, connections
    <3>2. InStrat' = InStrat /\ t \in InStrat
      BY <1>2, <3>1 DEF InStrat
    <3>3. (Open' => Open) /\ pc'[t] = "listen" /\ (pc'[Main] = "start" => pc[Main] = "start")
      BY <1>2, <3>1 DEF Open
    <3>4. Queued' = Queued /\ Coming' = Coming /\ Fresh' = Fresh
      BY <3>1 DEF Queued, Coming, Fresh
    <3> QED
      BY <1>1, <3>1, <3>2, <3>3, <3>4 DEF Loop, OneTurn, LoopInv, ObjectLeft, IndexInv
  <2>3. CASE pc[t] = "listen"
    <3>1. InStrat = {t} /\ Queued = {} /\ Coming = {} /\ pc[Main] # "start"
      BY <1>1, <2>3 DEF Loop, OneTurn, LoopInv, InStrat, Queued, Coming
    <3>2. _nextIOService' # Size /\ UNCHANGED deaf
      BY <1>3, <2>3, ServerAssumption
      DEF Strat, GetInstance, Pick, Listen, WrapService
    <3>3. CASE pc[Main] \in {"exit", "join", "exited"}
      <4>1. pc' = [pc EXCEPT ![t] = "run"] /\ UNCHANGED phase
        BY <1>3, <2>3, <3>3 DEF Strat, GetInstance, Pick, Goto, connections
      <4>2. InStrat' = {}
        BY <1>2, <3>1, <4>1 DEF InStrat
      <4>3. t # Main /\ pc'[Main] = pc[Main] /\ ~Open
        BY <1>2, <2>3, <3>3, <4>1 DEF Open
      <4>4. Queued' = {} /\ Coming' = {}
        BY <3>1, <4>1 DEF Queued, Coming
      <4> QED
        BY <3>1, <3>2, <3>3, <4>2, <4>3, <4>4
        DEF Loop, OneTurn, LoopInv, ObjectLeft, IndexInv, Open
    <3>4. CASE pc[Main] \notin {"exit", "join", "exited"}
      <4>1. Listen(t)
        BY <1>3, <2>3, <3>4 DEF Strat, GetInstance, Pick
      <4>2. Newest \in Conns
        BY <1>1, <3>1, NewestIsFresh DEF Loop, ObjectLeft, Fresh
      <4>3. InStrat' = {} /\ pc'[Main] # "start"
        BY <1>2, <3>1, <4>1 DEF InStrat, Listen, Goto, AfterStrat
      <4>4. Queued' = {Newest} /\ Coming' = {}
        BY <1>2, <3>1, <4>1, <4>2 DEF Queued, Coming, Listen, New, Becomes
      <4>5. Open' => Open
        BY <1>2, <2>3, <4>1 DEF Open, Listen, Goto, AfterStrat
      <4> QED
        BY <1>1, <3>1, <3>2, <4>3, <4>4, <4>5
        DEF Loop, OneTurn, LoopInv, ObjectLeft, IndexInv
    <3> QED
      BY <3>3, <3>4
  <2> QED
    BY <1>3, <2>1, <2>2, <2>3 DEF Strat
<1>4. ASSUME NEW w \in Workers, RunAccept(w) PROVE Loop'
  <2>1. PICK k \in Conns : AcceptHandler(w, k)
    BY <1>4 DEF RunAccept
  <2>2. phase[k] \in {"accepted", "refused"} /\ UNCHANGED _nextIOService
    BY <2>1 DEF AcceptHandler
  <2>3. /\ InStrat = {} /\ Queued = {k} /\ Fresh # {}
        /\ pc[Main] # "start" /\ (Open => ~deaf)
    BY <1>1, <2>2 DEF Loop, OneTurn, LoopInv, ObjectLeft, Queued, Coming
  <2>4. /\ phase' = [phase EXCEPT ![k] = "reading"] \/ phase' = [phase EXCEPT ![k] = "dropped"]
        /\ \/ pc' = [pc EXCEPT ![w] = "strat"] /\ UNCHANGED deaf
           \/ UNCHANGED pc /\ deaf'
    BY <2>1 DEF AcceptHandler, Start, Drop, Becomes, Goto
  <2>5. Queued' = {} /\ Coming' = {} /\ Fresh' = Fresh
    BY <1>2, <2>2, <2>3, <2>4 DEF Queued, Coming, Fresh
  <2>6. /\ (InStrat' = {w} /\ UNCHANGED deaf) \/ (InStrat' = {} /\ deaf')
        /\ pc'[Main] = pc[Main]
    <3>1. CASE pc' = [pc EXCEPT ![w] = "strat"] /\ UNCHANGED deaf
      <4>1. InStrat' = InStrat \cup {w}
        BY <1>2, <3>1 DEF InStrat
      <4> QED
        BY <1>2, <2>3, <3>1, <4>1
    <3>2. CASE UNCHANGED pc /\ deaf'
      BY <2>3, <3>2 DEF InStrat
    <3> QED
      BY <2>4, <3>1, <3>2
  <2>7. IndexInv'
    BY <1>1, <1>2, <2>2, <2>3 DEF Loop, IndexInv, InStrat
  <2> QED
    BY <2>3, <2>5, <2>6, <2>7 DEF Loop, OneTurn, LoopInv, ObjectLeft, Open
<1>5. ASSUME NEW w \in Workers, RunRead(w) PROVE Loop'
  <2>1. Elsewhere
    BY <1>2, <1>5
    DEF Elsewhere, RunRead, ReadDone, Drop, Becomes, Goto, accepting, Turning, Early
  <2> QED
    BY <2>1, OtherStep
<1>6. ASSUME NEW w \in Workers, pc[w] \in Serving, Reply(w), UNCHANGED accepting
      PROVE  Loop'
  <2>1. serving[w] \in Conns /\ phase[serving[w]] = "handling"
    BY <1>6, ServesOne
  <2>2. \E p \in {"sending", "sent", "dropped"} : phase' = [phase EXCEPT ![serving[w]] = p]
    BY <1>6 DEF Reply, Answer, Drop, Becomes
  <2>3. Elsewhere
    BY <1>2, <1>6, <2>1, <2>2 DEF Elsewhere, Reply, Goto, accepting, Turning, Early, Serving
  <2> QED
    BY <2>3, OtherStep
<1>7. ASSUME NEW w \in Workers, Dispatch(w) PROVE Loop'
  <2>1. CASE pc[w] = "dispatch" /\ Reply(w) /\ UNCHANGED accepting
    BY <1>6, <2>1 DEF Serving
  <2>2. CASE /\ pc[w] = "dispatch" /\ Goto(w, "manager")
             /\ UNCHANGED <<connections, accepting>>
    <3>1. Elsewhere
      BY <1>2, <2>2 DEF Elsewhere, Goto, connections, accepting, Turning
    <3> QED
      BY <3>1, OtherStep
  <2>3. CASE \/ GetInstance(w, "LogicalSystem", "logical", "make_logical", "dispatch")
             \/ GetInstance(w, "MySqlMgr", "manager", "make_manager", "take")
    <3>1. Elsewhere
      BY <1>2, <2>3 DEF Elsewhere, GetInstance, Goto, connections, accepting, Turning
    <3> QED
      BY <3>1, OtherStep
  <2> QED
    BY <1>7, <2>1, <2>2, <2>3 DEF Dispatch
<1>8. ASSUME NEW w \in Workers, Query(w) PROVE Loop'
  BY <1>6, <1>8 DEF Query, Serving
<1>9. ASSUME NEW w \in Workers, Take(w) \/ Leave(w) PROVE Loop'
  <2>1. Elsewhere
    BY <1>2, <1>9 DEF Elsewhere, Take, Leave, Goto, connections, accepting, Turning
  <2> QED
    BY <2>1, OtherStep
<1>10. ASSUME NEW w \in Workers, RunWritten(w) \/ RunDeadline(w) PROVE Loop'
  <2>1. Elsewhere
    BY <1>2, <1>10
    DEF Elsewhere, RunWritten, RunDeadline, Written, Deadline, Becomes, accepting, Early
  <2> QED
    BY <2>1, OtherStep
<1>11. ASSUME NEW k \in Conns, Client(k) \/ Tick(k) PROVE Loop'
  <2>1. Elsewhere
    BY <1>2, <1>11
    DEF Elsewhere, Client, Send, Receive, Tick, TimePasses, Becomes, accepting, Early
  <2> QED
    BY <2>1, OtherStep
<1>12. ASSUME NEW k \in Conns, Connect(k) PROVE Loop'
  <2>1. /\ phase[k] = "accepting" /\ Fresh # {}
        /\ \/ phase' = [phase EXCEPT ![k] = "accepted"]
           \/ phase' = [phase EXCEPT ![k] = "refused"]
        /\ UNCHANGED <<pc, deaf, _nextIOService>>
    BY <1>12 DEF Connect, AcceptCompletes, Becomes, accepting
  <2>2. Queued' = Queued /\ Fresh' = Fresh /\ InStrat' = InStrat
    BY <1>2, <2>1 DEF Queued, Fresh, InStrat
  <2> QED
    BY <1>1, <2>1, <2>2 DEF Loop, OneTurn, LoopInv, ObjectLeft, IndexInv, Open
<1>13. CASE Begin
  <2>1. /\ pc[Main] = "start" /\ UNCHANGED <<phase, deaf, _nextIOService>>
        /\ pc' = [pc EXCEPT ![Main] = "strat"] \/ pc' = [pc EXCEPT ![Main] = "exited"]
    BY <1>13 DEF Begin, Goto, connections, accepting
  <2>2. InStrat = {} /\ Queued = {} /\ Fresh # {} /\ ~deaf
    BY <1>1, <2>1 DEF Loop, LoopInv, ObjectLeft
  <2>3. InStrat' = {Main} \/ (InStrat' = {} /\ ~Open')
    <3>1. CASE pc' = [pc EXCEPT ![Main] = "strat"]
      <4>1. InStrat' = InStrat \cup {Main}
        BY <1>2, <3>1 DEF InStrat
      <4> QED
        BY <2>2, <4>1
    <3>2. CASE pc' = [pc EXCEPT ![Main] = "exited"]
      BY <1>2, <2>1, <2>2, <3>2 DEF InStrat, Open
    <3> QED
      BY <2>1, <3>1, <3>2
  <2>4. Queued' = {} /\ Fresh' # {} /\ ~deaf' /\ pc'[Main] # "start"
    BY <1>2, <2>1, <2>2 DEF Queued, Fresh
  <2>5. IndexInv'
    BY <1>1, <1>2, <2>1, <2>2 DEF Loop, IndexInv, InStrat
  <2> QED
    BY <2>3, <2>4, <2>5 DEF Loop, OneTurn, LoopInv, ObjectLeft
<1>14. CASE Signal \/ Join \/ Exit
  <2>1. /\ pc[Main] \in {"serve", "join", "exit"} /\ UNCHANGED <<phase, deaf, _nextIOService>>
        /\ \E l \in {"unwind", "exit", "exited"} : pc' = [pc EXCEPT ![Main] = l]
    BY <1>14 DEF Signal, Join, Exit, Goto, connections, accepting
  <2>2. InStrat' = InStrat /\ pc'[Main] # "start" /\ ~Open'
    BY <1>2, <2>1 DEF InStrat, Open
  <2>3. \A t \in Threads : pc[t] = "listen" => pc'[t] = "listen"
    BY <1>2, <2>1
  <2> QED
    BY <1>1, <2>1, <2>2, <2>3, SameTurn DEF Queued, Coming, Fresh
<1>15. CASE Unwind
  <2>1. /\ pc[Main] = "unwind" /\ pc' = [pc EXCEPT ![Main] = "exit"]
        /\ UNCHANGED <<deaf, _nextIOService>>
        /\ \A k \in Conns : phase'[k] = IF phase[k] = "accepting" THEN "dropped" ELSE phase[k]
    BY <1>15 DEF Unwind, Goto, accepting
  <2>2. InStrat' = InStrat /\ pc'[Main] # "start" /\ ~Open'
    BY <1>2, <2>1 DEF InStrat, Open
  <2>3. Queued' \subseteq Queued /\ Coming' = Coming /\ Fresh' = Fresh
    BY <2>1 DEF Queued, Coming, Fresh
  <2>4. \A t \in Threads : pc[t] = "listen" => pc'[t] = "listen"
    BY <1>2, <2>1
  <2> QED
    BY <1>1, <2>1, <2>2, <2>3, <2>4 DEF Loop, OneTurn, LoopInv, ObjectLeft, IndexInv
<1>16. CASE DestroyPool
  <2>1. UNCHANGED <<phase, deaf, _nextIOService>> /\ pc' = [pc EXCEPT ![Main] = "join"]
        /\ pc[Main] = "exit"
    BY <1>16 DEF DestroyPool, connections, Goto
  <2>2. InStrat' = InStrat /\ pc'[Main] # "start" /\ ~Open'
    BY <1>2, <2>1 DEF InStrat, Open
  <2>3. \A t \in Threads : pc[t] = "listen" => pc'[t] = "listen"
    BY <1>2, <2>1
  <2> QED
    BY <1>1, <2>1, <2>2, <2>3, SameTurn DEF Queued, Coming, Fresh
<1>17. CASE UNCHANGED vars \/ \E c \in Classes : DestroyManager(c)
  <2>1. Elsewhere
    BY <1>17 DEF Elsewhere, vars, DestroyManager, connections, accepting
  <2> QED
    BY <2>1, OtherStep
<1> QED
  BY <1>3, <1>4, <1>5, <1>7, <1>8, <1>9, <1>10, <1>11, <1>12, <1>13, <1>14, <1>15,
     <1>16, <1>17 DEF Next, WorkerStep, MainStep

-----------------------------------------------------------------------------
\* Requests

\* A step that leaves the handlers alone, and the connections they serve.
LEMMA SameHandlers ==
  ASSUME IInv, UNCHANGED serving,
         \A w \in Workers : pc'[w] = pc[w] \/ {pc[w], pc'[w]} \cap Serving = {}
                            \/ {pc[w], pc'[w]} \subseteq Serving,
         \A k \in Conns : phase[k] = "handling" =>
                            phase'[k] = "handling" /\ service'[k] = service[k]
  PROVE  ServeInv'
  BY DEF IInv, TypeOK, ServeInv

LEMMA ServeStep == IInv /\ [Next]_vars => ServeInv'
<1> SUFFICES ASSUME IInv, [Next]_vars PROVE ServeInv'
  OBVIOUS
<1> USE ThreadFacts
<1>1. ServeInv
  BY DEF IInv
<1>2. pc \in [Threads -> Labels] /\ phase \in [Conns -> Phases]
      /\ service \in [Conns -> 0 .. Size] /\ serving \in [Workers -> Conns \cup {0}]
  BY DEF IInv, TypeOK, HttpConnectionTypeOK, ServerTypeOK
<1>3. ASSUME NEW t \in Threads, Strat(t) PROVE ServeInv'
  <2>1. CASE \/ GetInstance(t, "AsioIOServicePool", "strat", "make_pool", "pick")
             \/ Pick(t)
    <3>1. pc[t] \notin Serving /\ \E l \in Labels \ Serving : pc' = [pc EXCEPT ![t] = l] \/ pc' = pc
      BY <2>1 DEF GetInstance, Pick, Goto, Serving, Labels
    <3>2. UNCHANGED <<phase, service, serving>>
      BY <1>3, <2>1 DEF GetInstance, Pick, connections, accepting, handler, Strat
    <3> QED
      BY <1>2, <3>1, <3>2, SameHandlers
  <2>2. CASE pc[t] = "listen"
    <3>1. /\ \E l \in Labels \ Serving : pc' = [pc EXCEPT ![t] = l]
          /\ UNCHANGED serving
      BY <1>3, <2>2 DEF Strat, GetInstance, Pick, Listen, Goto, AfterStrat, handler, Labels, Serving
    <3>2. \/ UNCHANGED <<phase, service>>
          \/ /\ phase[Newest] = "none"
             /\ phase' = [phase EXCEPT ![Newest] = "accepting"]
             /\ service' = [service EXCEPT ![Newest] = chosen[t]]
      BY <1>3, <2>2 DEF Strat, GetInstance, Pick, Listen, New, Becomes, connections
    <3>3. \A k \in Conns : phase[k] = "handling" =>
            phase'[k] = "handling" /\ service'[k] = service[k]
      BY <1>2, <3>2
    <3>4. pc[t] \notin Serving
      BY <2>2 DEF Serving
    <3> QED
      BY <1>2, <3>1, <3>3, <3>4, SameHandlers
  <2> QED
    BY <1>3, <2>1, <2>2 DEF Strat
<1>4. ASSUME NEW w \in Workers, RunAccept(w) PROVE ServeInv'
  <2>1. PICK k \in Conns : AcceptHandler(w, k) /\ UNCHANGED <<handler, crashed>>
    BY <1>4 DEF RunAccept
  <2>2. /\ phase[k] \in {"accepted", "refused"} /\ pc[w] = "run"
        /\ UNCHANGED <<service, serving>>
        /\ \E p \in Phases : phase' = [phase EXCEPT ![k] = p]
        /\ pc' = pc \/ pc' = [pc EXCEPT ![w] = "strat"]
    BY <2>1 DEF AcceptHandler, Start, Drop, Becomes, Goto, handler, Phases, Gone
  <2>3. \A j \in Conns : phase[j] = "handling" => phase'[j] = "handling"
    BY <1>2, <2>2
  <2> QED
    BY <1>2, <2>2, <2>3, SameHandlers DEF Serving
<1>5. ASSUME NEW w \in Workers, RunRead(w) PROVE ServeInv'
  <2>1. PICK k \in Conns :
          /\ pc[w] = "run" /\ service[k] = w /\ phase[k] = "requested"
          /\ \/ /\ phase' = [phase EXCEPT ![k] = "handling"]
                /\ serving' = [serving EXCEPT ![w] = k]
                /\ pc' = [pc EXCEPT ![w] = "logical"]
             \/ /\ \/ phase' = [phase EXCEPT ![k] = "silent"]
                   \/ phase' = [phase EXCEPT ![k] = "dropped"]
                /\ UNCHANGED <<serving, pc>>
    BY <1>2, <1>5 DEF RunRead, ReadDone, Drop, Becomes, Goto
  <2>2. UNCHANGED service
    BY <1>5 DEF RunRead, accepting
  <2>3. \A j \in Conns : phase[j] = "handling" => j # k /\ phase'[j] = "handling"
    BY <1>2, <2>1
  <2>4. k # 0
    BY GatewayAssumption
  <2> QED
    BY <1>1, <1>2, <2>1, <2>2, <2>3, <2>4 DEF ServeInv, Serving
<1>6. ASSUME NEW w \in Workers, pc[w] \in Serving, Reply(w), UNCHANGED accepting
      PROVE  ServeInv'
  <2>1. serving[w] \in Conns /\ service[serving[w]] = w /\ serving[w] # 0
    BY <1>1, <1>2, <1>6 DEF ServeInv
  <2>2. \E p \in Phases : phase' = [phase EXCEPT ![serving[w]] = p]
    BY <1>6 DEF Reply, Answer, Drop, Becomes, Phases, Gone
  <2>3. /\ serving' = [serving EXCEPT ![w] = 0] /\ pc' = [pc EXCEPT ![w] = "run"]
        /\ UNCHANGED service
    BY <1>6 DEF Reply, Goto, accepting
  <2>4. \A v \in Workers : v # w /\ serving[v] # 0 => serving[v] # serving[w]
    BY <1>1, <2>1 DEF ServeInv
  <2> QED
    BY <1>1, <1>2, <2>1, <2>2, <2>3, <2>4 DEF ServeInv, Serving
<1>7. ASSUME NEW w \in Workers, Dispatch(w) PROVE ServeInv'
  <2>1. CASE pc[w] = "dispatch" /\ Reply(w) /\ UNCHANGED accepting
    BY <1>6, <2>1 DEF Serving
  <2>2. CASE /\ pc[w] = "dispatch" /\ Goto(w, "manager")
             /\ UNCHANGED <<connections, accepting, serving>>
    BY <1>2, <2>2, SameHandlers DEF Goto, connections, accepting, Serving
  <2>3. CASE \/ GetInstance(w, "LogicalSystem", "logical", "make_logical", "dispatch")
             \/ GetInstance(w, "MySqlMgr", "manager", "make_manager", "take")
    <3>1. pc[w] \in Serving /\ \E l \in Serving : pc' = [pc EXCEPT ![w] = l] \/ pc' = pc
      BY <2>3 DEF GetInstance, Goto, Serving
    <3>2. UNCHANGED <<phase, service, serving>>
      BY <2>3 DEF GetInstance, connections, accepting, handler
    <3> QED
      BY <1>2, <3>1, <3>2, SameHandlers
  <2> QED
    BY <1>7, <2>1, <2>2, <2>3 DEF Dispatch
<1>8. ASSUME NEW w \in Workers, Query(w) PROVE ServeInv'
  BY <1>6, <1>8 DEF Query, Serving
<1>9. ASSUME NEW w \in Workers, Take(w) \/ Leave(w) PROVE ServeInv'
  BY <1>2, <1>9, SameHandlers DEF Take, Leave, Goto, connections, accepting, handler, Serving
<1>10. ASSUME NEW w \in Workers, RunWritten(w) \/ RunDeadline(w) PROVE ServeInv'
  <2>1. UNCHANGED <<pc, service, serving>>
    BY <1>10 DEF RunWritten, RunDeadline, accepting, handler
  <2>2. PICK k \in Conns : Written(k) \/ Deadline(k)
    BY <1>10 DEF RunWritten, RunDeadline
  <2>3. \A j \in Conns : phase[j] = "handling" => phase'[j] = "handling"
    BY <1>2, <2>2 DEF Written, Deadline, Becomes
  <2> QED
    BY <2>1, <2>3, SameHandlers
<1>11. ASSUME NEW k \in Conns, Client(k) \/ Tick(k) \/ Connect(k) PROVE ServeInv'
  <2>1. UNCHANGED <<pc, service, serving>>
    BY <1>11 DEF Client, Tick, Connect, AcceptCompletes, accepting, handler
  <2>2. \A j \in Conns : phase[j] = "handling" => phase'[j] = "handling"
    BY <1>2, <1>11 DEF Client, Send, Receive, Tick, TimePasses, Connect, AcceptCompletes, Becomes
  <2> QED
    BY <2>1, <2>2, SameHandlers
<1>12. CASE \/ Begin \/ Signal \/ Unwind \/ DestroyPool \/ Join \/ Exit
            \/ UNCHANGED vars \/ \E c \in Classes : DestroyManager(c)
  <2>1. \A w \in Workers : pc'[w] = pc[w]
    BY <1>2, <1>12 DEF Begin, Signal, Unwind, DestroyPool, Join, Exit, vars, DestroyManager, Goto
  <2>2. UNCHANGED <<service, serving>>
    BY <1>12 DEF Begin, Signal, Unwind, DestroyPool, Join, Exit, vars, DestroyManager,
                 accepting, handler
  <2>3. \A j \in Conns : phase[j] = "handling" => phase'[j] = "handling"
    BY <1>12 DEF Begin, Signal, Unwind, DestroyPool, Join, Exit, vars, DestroyManager, connections
  <2> QED
    BY <2>1, <2>2, <2>3, SameHandlers
<1> QED
  BY <1>3, <1>4, <1>5, <1>7, <1>8, <1>9, <1>10, <1>11, <1>12 DEF Next, WorkerStep, MainStep

LEMMA MysqlStep == IInv /\ [Next]_vars => MysqlInv'
<1> SUFFICES ASSUME IInv, [Next]_vars PROVE MysqlInv'
  OBVIOUS
<1> USE ThreadFacts
<1>1. pc \in [Threads -> Labels] /\ mysqlIdle \in Nat /\ MysqlSize \in Nat
  BY GatewayAssumption DEF IInv, TypeOK
<1>2. IsFiniteSet(Querying) /\ Cardinality(Querying) \in Nat
  BY FS_Subset, FS_CardinalityType DEF Querying
<1>3. mysqlIdle + Cardinality(Querying) <= MysqlSize
  BY DEF IInv, MysqlInv
<1>4. CASE UNCHANGED mysqlIdle /\ Querying' = Querying
  BY <1>3, <1>4 DEF MysqlInv
<1>5. ASSUME NEW w \in Workers, Take(w) PROVE MysqlInv'
  <2>1. pc[w] = "take" /\ pc' = [pc EXCEPT ![w] = "query"] /\ mysqlIdle' = mysqlIdle - 1
    BY <1>5 DEF Take, Goto
  <2>2. Querying' = Querying \cup {w} /\ w \notin Querying
    BY <1>1, <2>1 DEF Querying
  <2>3. Cardinality(Querying') = Cardinality(Querying) + 1
    BY <1>2, <2>2, FS_AddElement
  <2> QED
    BY <1>1, <1>2, <1>3, <2>1, <2>3 DEF MysqlInv
<1>6. ASSUME NEW w \in Workers, Query(w) PROVE MysqlInv'
  <2>1. /\ pc[w] = "query" /\ pc' = [pc EXCEPT ![w] = "run"]
        /\ mysqlIdle' \in {mysqlIdle, mysqlIdle + 1}
    BY <1>6 DEF Query, Reply, Goto
  <2>2. Querying' = Querying \ {w} /\ w \in Querying
    BY <1>1, <2>1 DEF Querying
  <2>3. Cardinality(Querying') = Cardinality(Querying) - 1
    BY <1>2, <2>2, FS_RemoveElement
  <2> QED
    BY <1>1, <1>2, <1>3, <2>1, <2>3 DEF MysqlInv
<1>7. ASSUME NEW t \in Threads, UNCHANGED mysqlIdle, pc[t] # "query",
             pc' = pc \/ \E l \in Labels \ {"query"} : pc' = [pc EXCEPT ![t] = l]
      PROVE  MysqlInv'
  <2>1. \A w \in Workers : pc'[w] = "query" <=> pc[w] = "query"
    BY <1>1, <1>7
  <2>2. Querying' = Querying
    BY <2>1 DEF Querying
  <2> QED
    BY <1>4, <1>7, <2>2
<1>8. ASSUME NEW t \in Threads, Strat(t) PROVE MysqlInv'
  BY <1>7, <1>8 DEF Strat, GetInstance, Pick, Listen, AfterStrat, Goto, handler, Labels
<1>9. ASSUME NEW w \in Workers, Dispatch(w) PROVE MysqlInv'
  BY <1>7, <1>9 DEF Dispatch, GetInstance, Reply, Goto, handler, Labels
<1>10. ASSUME NEW w \in Workers,
              RunAccept(w) \/ RunRead(w) \/ RunWritten(w) \/ RunDeadline(w) \/ Leave(w)
       PROVE  MysqlInv'
  BY <1>7, <1>10 DEF RunAccept, AcceptHandler, RunRead, RunWritten, RunDeadline, Leave,
                     Goto, handler, Labels
<1>11. CASE \E k \in Conns : Connect(k) \/ Client(k) \/ Tick(k)
  BY <1>4, <1>11 DEF Connect, AcceptCompletes, Client, Tick, handler, Querying
<1>12. CASE \/ Begin \/ Signal \/ Unwind \/ DestroyPool \/ Join \/ Exit
            \/ UNCHANGED vars \/ \E c \in Classes : DestroyManager(c)
  <2>1. \A w \in Workers : pc'[w] = pc[w]
    BY <1>1, <1>12 DEF Begin, Signal, Unwind, DestroyPool, Join, Exit, vars, DestroyManager, Goto
  <2>2. UNCHANGED mysqlIdle
    BY <1>12 DEF Begin, Signal, Unwind, DestroyPool, Join, Exit, vars, DestroyManager, handler
  <2> QED
    BY <1>4, <2>1, <2>2 DEF Querying
<1> QED
  BY <1>5, <1>6, <1>8, <1>9, <1>10, <1>11, <1>12 DEF Next, WorkerStep, MainStep

-----------------------------------------------------------------------------
\* IInv holds in every reachable state of the process.
THEOREM Inductive == Spec => []IInv
<1>1. IInv /\ [Next]_vars => IInv'
  BY TypeStep, ConstructStep, LoopStep, ServeStep, MysqlStep DEF IInv, Loop
<1> QED
  BY InitIInv, <1>1, PTL DEF Spec

\* Every variable stays in its type: GetIOService never indexes past the
\* contexts, and the MySQL pool never holds more than it was made with.
THEOREM TypeCorrect == Spec => []TypeOK
BY Inductive, PTL DEF IInv

\* No manager is constructed twice (getInstance), by however many threads.
THEOREM OnceConstructed == Spec => []ConstructedOnce
<1>1. IInv => ConstructedOnce
  <2> SUFFICES ASSUME IInv, NEW c \in Classes PROVE constructions[c] <= 1
    BY DEF ConstructedOnce
  <2>1. constructions[c] = 0 \/ constructions[c] = 1
    BY DEF IInv, ConstructInv
  <2> QED
    BY <2>1
<1> QED
  BY Inductive, <1>1, PTL

\* The accept loop neither forks nor dies (strat and its handler), for any
\* number of workers and connections.
THEOREM LoopGoesOn == Spec => []OneListener
<1>1. IInv => OneListener
  <2> SUFFICES ASSUME IInv, Open
               PROVE  Cardinality(InStrat) + Cardinality(Queued) = IF deaf THEN 0 ELSE 1
    BY DEF OneListener, Open
  <2>1. CASE deaf
    <3>1. InStrat = {} /\ Queued = {}
      BY <2>1 DEF IInv, LoopInv
    <3> QED
      BY <2>1, <3>1, FS_EmptySet
  <2>2. CASE ~deaf
    <3>1. OneTurn /\ (InStrat # {} \/ Queued # {})
      BY <2>2 DEF IInv, LoopInv
    <3>2. CASE InStrat # {}
      <4>1. PICK t \in InStrat : InStrat = {t}
        BY <3>1, <3>2 DEF OneTurn
      <4>2. Cardinality(InStrat) = 1 /\ Cardinality(Queued) = 0
        BY <3>1, <3>2, <4>1, FS_EmptySet, FS_Singleton DEF OneTurn
      <4> QED
        BY <2>2, <4>2
    <3>3. CASE Queued # {}
      <4>1. PICK k \in Queued : Queued = {k}
        BY <3>1, <3>3 DEF OneTurn
      <4>2. Cardinality(InStrat) = 0 /\ Cardinality(Queued) = 1
        BY <3>1, <3>3, <4>1, FS_EmptySet, FS_Singleton DEF OneTurn
      <4> QED
        BY <2>2, <4>2
    <3> QED
      BY <3>1, <3>2, <3>3
  <2> QED
    BY <2>1, <2>2
<1> QED
  BY Inductive, <1>1, PTL
=============================================================================
