--------------------------- MODULE MCLogicalSystem ---------------------------
(***************************************************************************)
(* LogicalSystem for TLC.                                                  *)
(***************************************************************************)
EXTENDS LogicalSystem, TLC

Symmetry ==
  UNION {Permutations(S) : S \in {Workers, Emails, Passwds, Codes}}
=============================================================================
