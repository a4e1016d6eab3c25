-------------------------- MODULE RiskStateHistory --------------------------
(***************************************************************************)
(* What a strategy's risk state store promises, without objects and walks: *)
(* one history.  A transition is recorded at most once, next to the latest *)
(* one, which it names and whose session it is later than.                 *)
(***************************************************************************)
EXTENDS Integers

CONSTANTS
    Transitions,
    Root,              \* what the first transition names as its predecessor
    Previous,          \* [Transitions -> Transitions \cup {Root}]
    EffectiveSession   \* [Transitions -> Nat]

VARIABLE recorded      \* the transitions of the history; their sessions order them

Init == recorded = {}

Latest(t) ==
    /\ t \in recorded
    /\ \A u \in recorded \ {t} : EffectiveSession[u] < EffectiveSession[t]

Record(t) ==
    /\ \/ recorded = {} /\ Previous[t] = Root
       \/ Latest(Previous[t]) /\ EffectiveSession[Previous[t]] < EffectiveSession[t]
    /\ recorded' = recorded \cup {t}

Next == \E t \in Transitions : Record(t)

Spec == Init /\ [][Next]_recorded
=============================================================================
