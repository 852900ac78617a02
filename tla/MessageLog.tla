------------------------------ MODULE MessageLog ------------------------------
(***************************************************************************)
(* What the log promises to the threads that write to it: messages reach   *)
(* the log file in the order in which they were pushed, each one once.     *)
(***************************************************************************)
EXTENDS Naturals, Sequences

CONSTANT Messages

VARIABLES
  pushed,     \* every message pushed so far
  written     \* every message in the log file

vars == <<pushed, written>>

Init == pushed = <<>> /\ written = <<>>

Push(m) == pushed' = Append(pushed, m) /\ UNCHANGED written

Write ==
  /\ Len(written) < Len(pushed)
  /\ written' = Append(written, pushed[Len(written) + 1])
  /\ UNCHANGED pushed

Next == Write \/ \E m \in Messages : Push(m)

Spec == Init /\ [][Next]_vars
=============================================================================
