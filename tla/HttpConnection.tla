---------------------------- MODULE HttpConnection ----------------------------
(***************************************************************************)
(* HttpConnection (src/HttpConnection.cpp): the life of one connection     *)
(* object, from its construction, which starts the 60 s of its deadline,   *)
(* over one request and its response, to its release.  The actions here    *)
(* say what happens to one connection; who runs them is left to Gateway.   *)
(*                                                                         *)
(*   accepting   waits for a client, refused / accepted: the handler of    *)
(*               async_accept is queued                                    *)
(*   reading     async_read is outstanding; requested: its handler is      *)
(*               queued                                                    *)
(*   handling    handlereq runs                                            *)
(*   sending     the response is being written; sent: all of it is out and *)
(*               the handler of async_write is queued                      *)
(*   silent      nothing is written for this method                        *)
(*   answered, cut, dropped    the connection is gone: after the response, *)
(*               closed by the deadline, or without a response             *)
(***************************************************************************)
EXTENDS Naturals

CONSTANT
  Conns           \* connection objects, numbered as they are created

ASSUME HttpConnectionAssumption == Conns \subseteq Nat

VARIABLES
  phase,
  armed,          \* connections whose deadline is waited for
  due             \* connections created 60 seconds ago

connections == <<phase, armed, due>>

Gone == {"answered", "cut", "dropped"}
Phases == {"none", "accepting", "refused", "accepted", "reading", "requested",
           "handling", "sending", "sent", "silent"} \cup Gone

HttpConnectionInit ==
  /\ phase = [k \in Conns |-> "none"]
  /\ armed = {}
  /\ due = {}

Becomes(k, label) == phase' = [phase EXCEPT ![k] = label]

\* The constructor: the deadline is 60 seconds from now on.
New(k) ==
  /\ phase[k] = "none"
  /\ Becomes(k, "accepting")
  /\ UNCHANGED <<armed, due>>

\* Sixty seconds have passed.
TimePasses(k) ==
  /\ phase[k] \notin Gone \cup {"none"}
  /\ k \notin due
  /\ due' = due \cup {k}
  /\ UNCHANGED <<phase, armed>>

\* The object is released without having answered.
Drop(k) == Becomes(k, "dropped") /\ UNCHANGED <<armed, due>>

\* start(): async_read, which has no deadline.
Start(k) == Becomes(k, "reading") /\ UNCHANGED <<armed, due>>

\* The client sends its request, or leaves.
Send(k) ==
  /\ phase[k] = "reading"
  /\ Becomes(k, "requested")
  /\ UNCHANGED <<armed, due>>

\* The handler of async_read, up to the dispatch of handlereq: a failed read
\* releases the connection, a method other than GET and POST is given no
\* response but a deadline.
ReadDone(k) ==
  /\ phase[k] = "requested"
  /\ \/ Drop(k)
     \/ Becomes(k, "handling") /\ UNCHANGED <<armed, due>>
     \/ Becomes(k, "silent") /\ armed' = armed \cup {k} /\ UNCHANGED due

\* The deadline is forgotten.
BugAnswer(k) ==
  /\ phase' \in {[phase EXCEPT ![k] = p] : p \in {"sending", "sent"}}
  /\ UNCHANGED <<armed, due>>

\* handlereq ends in write_response, be it a 404; then check_deadline.  The
\* response may fit into the socket at once.
Answer(k) ==
  /\ phase' \in {[phase EXCEPT ![k] = p] : p \in {"sending", "sent"}}
  /\ armed' = armed \cup {k}
  /\ UNCHANGED due

\* The client takes the rest of the response.
Receive(k) ==
  /\ phase[k] = "sending"
  /\ Becomes(k, "sent")
  /\ UNCHANGED <<armed, due>>

\* The handler of async_write: shutdown_send, and the deadline is cancelled.
Written(k) ==
  /\ phase[k] = "sent"
  /\ Becomes(k, "answered")
  /\ armed' = armed \ {k}
  /\ UNCHANGED due

\* The handler of the deadline closes the socket.
Deadline(k) ==
  /\ k \in armed \cap due
  /\ armed' = armed \ {k}
  /\ \/ phase[k] \in {"sending", "silent"} /\ Becomes(k, "cut")
     \/ phase[k] = "sent" /\ UNCHANGED phase
  /\ UNCHANGED due

-----------------------------------------------------------------------------
HttpConnectionTypeOK ==
  /\ phase \in [Conns -> Phases]
  /\ armed \in SUBSET Conns
  /\ due \in SUBSET Conns
=============================================================================
