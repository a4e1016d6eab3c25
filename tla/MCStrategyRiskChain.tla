------------------------ MODULE MCStrategyRiskChain ------------------------
(***************************************************************************)
(* Two rival roots, two rivals after the first root, successors of both,   *)
(* and one whose session does not advance.                                 *)
(***************************************************************************)
EXTENDS StrategyRiskChain, TLC

CONSTANTS r1, r2, a, b, c, late

MCTransitions == {r1, r2, a, b, c, late}

MCPrevious == r1 :> Root @@ r2 :> Root @@ a :> r1 @@ b :> r1 @@ c :> a @@ late :> a

MCEffectiveSession == r1 :> 1 @@ r2 :> 2 @@ a :> 3 @@ b :> 3 @@ c :> 4 @@ late :> 3
=============================================================================
