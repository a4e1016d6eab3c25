------------------------- MODULE MCExecutionMarkers -------------------------
(***************************************************************************)
(* Three runs of two owners, and in one instance an older caller.          *)
(***************************************************************************)
EXTENDS ExecutionMarkers, TLC

CONSTANTS primary, backup, other, legacy, A, B

MCOwner == [r \in Runs |-> IF r = other THEN B ELSE A]
=============================================================================
