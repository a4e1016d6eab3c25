---------------------- MODULE MCReconciliationRecovery ----------------------
(* An account with two states, whose runtime target may be replaced.       *)
EXTENDS ReconciliationRecovery, TLC

CONSTANTS b1, b2, frozen, other, c1, c2

Symmetry == Permutations({b1, b2}) \cup Permutations(Controllers)
=============================================================================
