------------------------ MODULE MCResearchPromotion ------------------------
(* Interchangeable researches and evidence.                                *)
EXTENDS ResearchPromotion, TLC

Symmetry == Permutations(Researches) \cup Permutations(Digests)
=============================================================================
