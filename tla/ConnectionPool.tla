---------------------------- MODULE ConnectionPool ----------------------------
(***************************************************************************)
(* What every connection pool of the gateway promises to the threads that  *)
(* borrow from it, whatever its locking: a connection is idle or lent to   *)
(* one thread, a thread gets a connection that was idle, and gives back    *)
(* the one it was lent.  A connection may also be lost: dropped by its     *)
(* borrower, or destroyed when the pool is emptied.                        *)
(***************************************************************************)
CONSTANTS Threads, Conns, NoConn

VARIABLES
  idle,     \* connections in the pool
  lent      \* the connection each thread has borrowed, or NoConn

vars == <<idle, lent>>

Init ==
  /\ idle \in SUBSET Conns
  /\ lent = [t \in Threads |-> NoConn]

Borrow(t) ==
  /\ lent[t] = NoConn
  /\ \E c \in idle :
       /\ lent' = [lent EXCEPT ![t] = c]
       /\ idle' = idle \ {c}

GiveBack(t) ==
  /\ lent[t] # NoConn
  /\ idle' = idle \cup {lent[t]}
  /\ lent' = [lent EXCEPT ![t] = NoConn]

Drop(t) ==
  /\ lent' = [lent EXCEPT ![t] = NoConn]
  /\ UNCHANGED idle

Empty == idle' = {} /\ UNCHANGED lent

Next ==
  \/ \E t \in Threads : Borrow(t) \/ GiveBack(t) \/ Drop(t)
  \/ Empty

Spec == Init /\ [][Next]_vars
=============================================================================
