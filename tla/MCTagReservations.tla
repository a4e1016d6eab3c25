-------------------------- MODULE MCTagReservations --------------------------
(* Processes, candidates and tags are interchangeable; operations are sorted. *)
EXTENDS TagReservations, TLC

Symmetry == Permutations(Processes) \cup Permutations(Candidates) \cup Permutations(Tags)
=============================================================================
