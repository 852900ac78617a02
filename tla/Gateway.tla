------------------------------- MODULE Gateway -------------------------------
(***************************************************************************)
(* The process: main (src/main.cpp), the worker threads that run the       *)
(* handlers of Server and HttpConnection, and the singletons all of them   *)
(* ask for.  Of a request handler (LogicalSystem) is kept what the others  *)
(* can see of it: it asks for singletons, may wait for a MySQL connection, *)
(* which it may lose, and ends with a response or an exception.  Any other *)
(* pool would do for MySQL.                                                *)
(***************************************************************************)
EXTENDS Server

CONSTANT MysqlSize    \* connections of the MySQL pool

VARIABLES
  serving,      \* the connection whose request a worker handles
  mysqlIdle,    \* connections in the MySQL pool
  crashed       \* undefined behaviour has ended the process

vars == <<singletons, connections, accepting, pc, serving, mysqlIdle, crashed>>

\* The classes of the managers this module tells apart.
Managers == {"AsioIOServicePool", "LogicalSystem", "MySqlMgr"}

ASSUME GatewayAssumption ==
  /\ Classes = Managers
  /\ 0 \notin Conns
  /\ Conns # {}
  /\ MysqlSize \in Nat

Init ==
  /\ SingletonInit
  /\ HttpConnectionInit
  /\ ServerInit
  /\ pc = [t \in Threads |-> IF t = Main THEN "start" ELSE "run"]
  /\ serving = [w \in Workers |-> 0]
  /\ mysqlIdle = MysqlSize
  /\ crashed = FALSE

handler == <<serving, mysqlIdle>>

-----------------------------------------------------------------------------
\* getInstance, by any thread

\* The instance is there, or is created, or is destroyed already, and its use
\* crashes the process.
GetInstance(t, c, from, making, to) ==
  /\ \/ pc[t] = from /\ Found(c) /\ Goto(t, to) /\ UNCHANGED crashed
     \/ pc[t] = from /\ Construct(c) /\ Goto(t, making) /\ UNCHANGED crashed
     \/ pc[t] = making /\ Constructed(c) /\ Goto(t, to) /\ UNCHANGED crashed
     \/ pc[t] = making /\ ConstructorFails(c) /\ UNCHANGED <<pc, crashed>>
     \/ pc[t] = from /\ FoundNull(c) /\ crashed' = TRUE /\ UNCHANGED <<pc, singletons>>
  /\ UNCHANGED <<connections, accepting, handler>>

-----------------------------------------------------------------------------
\* The worker threads: one handler at a time of those queued on their context

RunAccept(w) ==
  /\ \E k \in Conns : AcceptHandler(w, k)
  /\ UNCHANGED <<handler, crashed>>

\* An accept after the io_context of main is gone uses freed memory.
Strat(t) ==
  \/ GetInstance(t, "AsioIOServicePool", "strat", "make_pool", "pick")
  \/ Pick(t) /\ UNCHANGED <<handler, crashed>>
  \/ /\ pc[t] = "listen"
     /\ IF pc[Main] \in {"exit", "join", "exited"}
          THEN /\ crashed' \in BOOLEAN
               /\ WrapService
               /\ chosen' = [chosen EXCEPT ![t] = NoService]
               /\ Goto(t, "run")
               /\ UNCHANGED <<connections, service>>
          ELSE Listen(t) /\ UNCHANGED crashed
     /\ UNCHANGED <<singletons, stopped, deaf, handler>>

RunRead(w) ==
  /\ pc[w] = "run"
  /\ ~stopped
  /\ \E k \in Conns :
       /\ service[k] = w
       /\ ReadDone(k)
       /\ IF phase'[k] = "handling"
            THEN serving' = [serving EXCEPT ![w] = k] /\ Goto(w, "logical")
            ELSE UNCHANGED <<serving, pc>>
  /\ UNCHANGED <<singletons, accepting, mysqlIdle, crashed>>

\* handlereq returns, or an exception leaves it: both release the worker.
Reply(w) ==
  /\ \/ Answer(serving[w])
     \/ Drop(serving[w])
  /\ serving' = [serving EXCEPT ![w] = 0]
  /\ Goto(w, "run")

\* A request of no handler, or one that needs no account, is answered; another
\* one goes on to MySqlMgr.
Dispatch(w) ==
  \/ GetInstance(w, "LogicalSystem", "logical", "make_logical", "dispatch")
  \/ /\ pc[w] = "dispatch"
     /\ \/ Reply(w)
        \/ Goto(w, "manager") /\ UNCHANGED <<connections, serving>>
     /\ UNCHANGED <<singletons, accepting, mysqlIdle, crashed>>
  \/ GetInstance(w, "MySqlMgr", "manager", "make_manager", "take")

Take(w) ==
  /\ pc[w] = "take"
  /\ mysqlIdle > 0
  /\ mysqlIdle' = mysqlIdle - 1
  /\ Goto(w, "query")
  /\ UNCHANGED <<singletons, connections, accepting, serving, crashed>>

\* The query ends; its connection is released or lost.
Query(w) ==
  /\ pc[w] = "query"
  /\ mysqlIdle' \in {mysqlIdle, mysqlIdle + 1}
  /\ Reply(w)
  /\ UNCHANGED <<singletons, accepting, crashed>>

RunWritten(w) ==
  /\ pc[w] = "run"
  /\ ~stopped
  /\ \E k \in Conns : service[k] = w /\ Written(k)
  /\ UNCHANGED <<singletons, accepting, pc, handler, crashed>>

RunDeadline(w) ==
  /\ pc[w] = "run"
  /\ ~stopped
  /\ \E k \in Conns : service[k] = w /\ Deadline(k)
  /\ UNCHANGED <<singletons, accepting, pc, handler, crashed>>

\* run() returns when its context has been stopped.
Leave(w) ==
  /\ pc[w] = "run"
  /\ stopped
  /\ Goto(w, "left")
  /\ UNCHANGED <<singletons, connections, accepting, handler, crashed>>

-----------------------------------------------------------------------------
\* The clients and the clock

Client(k) ==
  /\ Send(k) \/ Receive(k)
  /\ UNCHANGED <<singletons, accepting, pc, handler, crashed>>

Connect(k) == AcceptCompletes(k) /\ UNCHANGED <<handler, crashed>>

Tick(k) ==
  /\ TimePasses(k)
  /\ UNCHANGED <<singletons, accepting, pc, handler, crashed>>

-----------------------------------------------------------------------------
\* main

\* RedisPool or the acceptor may throw: main returns -1.
Begin ==
  /\ pc[Main] = "start"
  /\ Goto(Main, "strat") \/ Goto(Main, "exited")
  /\ UNCHANGED <<singletons, connections, accepting, handler, crashed>>

\* SIGINT or SIGTERM: ioc.stop(), and ioc.run() returns.
Signal ==
  /\ pc[Main] = "serve"
  /\ Goto(Main, "unwind")
  /\ UNCHANGED <<singletons, connections, accepting, handler, crashed>>

\* The destructor of ioc releases the outstanding accept, with its connection.
Unwind ==
  /\ pc[Main] = "unwind"
  /\ phase' = [k \in Conns |-> IF phase[k] = "accepting" THEN "dropped" ELSE phase[k]]
  /\ Goto(Main, "exit")
  /\ UNCHANGED <<singletons, armed, due, accepting, handler, crashed>>

\* The static instances are destroyed, in no specified order.
DestroyManager(c) ==
  /\ pc[Main] = "exit"
  /\ c # "AsioIOServicePool"
  /\ Destroyed(c)
  /\ UNCHANGED <<connections, accepting, pc, handler, crashed>>

\* ~AsioIOServicePool: Stop, which waits for the workers.
DestroyPool ==
  /\ pc[Main] = "exit"
  /\ instance["AsioIOServicePool"] = "present"
  /\ instance' = [instance EXCEPT !["AsioIOServicePool"] = "destroyed"]
  /\ Stop
  /\ Goto(Main, "join")
  /\ UNCHANGED <<mtx, constructions, connections, service, chosen, _nextIOService, deaf,
                 handler, crashed>>

\* The workers have been joined; ~singleton locks the mutex.
Join ==
  /\ pc[Main] = "join"
  /\ \A w \in Workers : pc[w] = "left"
  /\ mtx = "free"
  /\ Goto(Main, "exit")
  /\ UNCHANGED <<singletons, connections, accepting, handler, crashed>>

Exit ==
  /\ pc[Main] = "exit"
  /\ \A c \in Classes : instance[c] # "present"
  /\ Goto(Main, "exited")
  /\ UNCHANGED <<singletons, connections, accepting, handler, crashed>>

-----------------------------------------------------------------------------
WorkerStep(w) ==
  \/ RunAccept(w) \/ Strat(w)
  \/ RunRead(w) \/ Dispatch(w) \/ Take(w) \/ Query(w)
  \/ RunWritten(w) \/ RunDeadline(w) \/ Leave(w)

MainStep ==
  \/ Strat(Main) \/ Unwind
  \/ \E c \in Classes : DestroyManager(c)
  \/ DestroyPool \/ Join \/ Exit

Alive == ~crashed /\ pc[Main] # "exited"

Next ==
  /\ Alive
  /\ \/ \E w \in Workers : WorkerStep(w)
     \/ Begin \/ Signal \/ MainStep
     \/ \E k \in Conns : Connect(k) \/ Client(k) \/ Tick(k)

Spec == Init /\ [][Next]_vars

\* The threads are scheduled and time passes; a constructor ends or hangs, a
\* query ends.  Clients and signals do as they please.
FairSpec ==
  /\ Spec
  /\ \A w \in Workers : WF_vars(Alive /\ WorkerStep(w))
  /\ WF_vars(Alive /\ MainStep)
  /\ \A k \in Conns : WF_vars(Alive /\ Tick(k))
-----------------------------------------------------------------------------
\* Properties

Labels ==
  {"start", "strat", "pick", "listen", "serve", "unwind", "exit", "join", "exited",
   "run", "logical", "dispatch", "manager", "take", "query", "left",
   "make_pool", "make_logical", "make_manager"}

\* Every variable stays in its type; in particular GetIOService, which has no
\* lock, never indexes past the contexts.
TypeOK ==
  /\ SingletonTypeOK /\ HttpConnectionTypeOK /\ ServerTypeOK
  /\ pc \in [Threads -> Labels]
  /\ serving \in [Workers -> Conns \cup {0}]
  /\ mysqlIdle \in 0 .. MysqlSize
  /\ crashed \in BOOLEAN

InStrat == {t \in Threads :
              pc[t] \in {"strat", "make_pool", "pick", "listen"}}
Queued == {k \in Conns : phase[k] \in {"accepting", "refused", "accepted"}}

\* The accept loop neither forks nor dies: until an exception leaves its
\* handler there is one async_accept outstanding, one of its handlers queued
\* on a worker, or one thread in strat(), so that GetIOService needs no lock.
OneListener ==
  pc[Main] \in {"strat", "make_pool", "pick", "listen", "serve"} =>
    Cardinality(InStrat) + Cardinality(Queued) = IF deaf THEN 0 ELSE 1

\* No manager is constructed twice, by whatever threads ask for it first.
ConstructedOnce == \A c \in Classes : constructions[c] <= 1

\* A worker that will not return to its context: the MySQL pool has been lost,
\* or a constructor has failed and taken the mutex with it.
Lost == mysqlIdle = 0 /\ \A w \in Workers : pc[w] # "query"
Stuck(w) == Wedged \/ (pc[w] = "take" /\ Lost)
Leaving == crashed \/ pc[Main] \notin {"start", "strat", "make_pool", "pick", "listen", "serve"}

\* A client whose connection was accepted is listened to: its handler cannot
\* be held up by anything but its own worker.
AcceptedIsServed ==
  \A k \in Conns : phase[k] = "accepted" ~>
    phase[k] # "accepted" \/ Leaving \/ \E w \in Workers : service[k] = w /\ Stuck(w)

\* A request that was read ends, and its connection with it, even if it is
\* given no response or the client never takes it.
RequestEnds ==
  \A k \in Conns : phase[k] \in {"requested", "handling"} ~>
    phase[k] \in Gone \/ Leaving \/ \E w \in Workers : service[k] = w /\ Stuck(w)

\* After a signal the process ends, whatever its clients do.
ShutdownEnds ==
  pc[Main] = "unwind" ~> ~Alive \/ \E w \in Workers : Stuck(w)
=============================================================================
