-------------------------------- MODULE Server --------------------------------
(***************************************************************************)
(* The accept loop (src/Server.cpp) over the round robin of worker         *)
(* contexts (src/AsioIOServicePool.cpp).  strat() picks a context, creates *)
(* the connection object on it and posts one async_accept, whose handler   *)
(* is bound to that context: it runs on that worker, starts the connection *)
(* and calls strat() again.  The first call is made by main.               *)
(***************************************************************************)
EXTENDS Singleton, HttpConnection, FiniteSets

CONSTANTS
  Size,           \* worker contexts, with one thread each
  Main,           \* the main thread
  Faults          \* "accept_error": async_accept may fail;
                  \* "accept_throw": start() or strat() may throw

Workers == 0 .. Size - 1
Threads == Workers \cup {Main}

ASSUME ServerAssumption == Size \in Nat \ {0} /\ Main \notin Nat

VARIABLES
  pc,             \* what each thread is about to do
  service,        \* the context of each connection
  chosen,         \* the context the running strat() has picked
  _nextIOService,
  stopped,        \* the contexts of the workers have been stopped
  deaf            \* an exception has left the accept handler: nobody listens

accepting == <<service, chosen, _nextIOService, stopped, deaf>>

NoService == Size     \* not a context

ServerInit ==
  /\ service = [k \in Conns |-> NoService]
  /\ chosen = [t \in Threads |-> NoService]
  /\ _nextIOService = 0
  /\ stopped = FALSE
  /\ deaf = FALSE

Goto(t, label) == pc' = [pc EXCEPT ![t] = label]

\* Where a thread goes when strat() has returned.
AfterStrat(t) == IF t = Main THEN "serve" ELSE "run"

-----------------------------------------------------------------------------
\* AsioIOServicePool

\* GetIOService: the context at the index, which is then incremented ...
PickService(t) ==
  /\ chosen' = [chosen EXCEPT ![t] = _nextIOService]
  /\ _nextIOService' = _nextIOService + 1

\* The index is reset one step late.
BugWrapService == _nextIOService' = IF _nextIOService > Size THEN 0 ELSE _nextIOService

\* ... and compared and reset.
WrapService == _nextIOService' = IF _nextIOService = Size THEN 0 ELSE _nextIOService

\* Only the work guards are reset: an outstanding read keeps run() going.
BugStop == UNCHANGED stopped

\* Stop: every context is stopped, then every thread is joined.
Stop == stopped' = TRUE

-----------------------------------------------------------------------------
\* Server::strat

\* The next connection object; Conns bounds them.
Fresh == {k \in Conns : phase[k] = "none"}
Newest == CHOOSE k \in Fresh : \A j \in Fresh : k <= j

\* An async_accept completes while ioc.run() runs: with a client, or with an
\* error.  The last object is never connected, so that strat() can always
\* create one.
AcceptCompletes(k) ==
  /\ pc[Main] = "serve"
  /\ phase[k] = "accepting"
  /\ Fresh # {}
  /\ \/ Becomes(k, "accepted")
     \/ "accept_error" \in Faults /\ Becomes(k, "refused")
  /\ UNCHANGED <<armed, due, pc, singletons, accepting>>

\* The handler of async_accept, up to strat(): a client's connection is
\* started, another one released.  The handler swallows what is thrown.
AcceptHandler(w, k) ==
  /\ pc[w] = "run"
  /\ ~stopped
  /\ service[k] = w
  /\ \/ phase[k] = "accepted" /\ Start(k) /\ Goto(w, "strat") /\ UNCHANGED deaf
     \/ phase[k] = "refused" /\ Drop(k) /\ Goto(w, "strat") /\ UNCHANGED deaf
     \/ /\ "accept_throw" \in Faults
        /\ \/ phase[k] = "accepted" /\ Start(k)
           \/ phase[k] \in {"accepted", "refused"} /\ Drop(k)
        /\ deaf' = TRUE
        /\ UNCHANGED pc
  /\ UNCHANGED <<singletons, service, chosen, _nextIOService, stopped>>

\* GetIOService on the pool getInstance has returned.
Pick(t) ==
  /\ pc[t] = "pick"
  /\ PickService(t)
  /\ Goto(t, "listen")
  /\ UNCHANGED <<singletons, connections, service, stopped, deaf>>

\* After an error the handler does not return: strat() is called twice.
BugListen(t) ==
  /\ WrapService
  /\ New(Newest)
  /\ service' = [service EXCEPT ![Newest] = chosen[t]]
  /\ chosen' = [chosen EXCEPT ![t] = NoService]
  /\ Goto(t, IF \E k \in Conns : phase[k] = "dropped" /\ service[k] = t
               THEN "strat" ELSE AfterStrat(t))

\* The handler is bound to the context at the index, not to the one picked.
BugListenNext(t) ==
  /\ WrapService
  /\ New(Newest)
  /\ service' = [service EXCEPT ![Newest] = _nextIOService]
  /\ chosen' = [chosen EXCEPT ![t] = NoService]
  /\ Goto(t, AfterStrat(t))

\* The connection object is created on the context, and async_accept posted.
Listen(t) ==
  /\ WrapService
  /\ New(Newest)
  /\ service' = [service EXCEPT ![Newest] = chosen[t]]
  /\ chosen' = [chosen EXCEPT ![t] = NoService]
  /\ Goto(t, AfterStrat(t))

-----------------------------------------------------------------------------
ServerTypeOK ==
  /\ service \in [Conns -> 0 .. Size]
  /\ chosen \in [Threads -> 0 .. Size]
  /\ \A t \in Threads : pc[t] = "listen" => chosen[t] \in Workers
  /\ _nextIOService \in 0 .. Size
  /\ stopped \in BOOLEAN
  /\ deaf \in BOOLEAN
=============================================================================
