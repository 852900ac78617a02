----------------------------- MODULE StubVector -----------------------------
(***************************************************************************)
(* The vector of stubs of RPConPool (includes/VarfiyGrpcClient.h): what    *)
(* getConnection, which moves the first element out and pops the last one, *)
(* leaves in it.                                                           *)
(***************************************************************************)
EXTENDS Naturals, Sequences

CONSTANT Null     \* an element whose stub has been moved out

\* A faulty variant: no pop_back().
BugNoPop(v) == [v EXCEPT ![1] = Null]

\* front() is moved from and stays in place, empty; pop_back() destroys the
\* last element, which is the moved-from one only in a vector of one.  The
\* comments beside the code say that the last stub is taken and removed.
AfterTake(v) ==
  [i \in 1 .. Len(v) - 1 |-> IF i = 1 THEN Null ELSE v[i]]
=============================================================================
