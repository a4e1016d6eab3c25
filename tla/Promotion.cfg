SPECIFICATION Spec
CONSTANTS
    Researches = {e1, e2}
    Digests = {d1, d2}
    MaxRounds = 2
    MaxIdle = 2
    MaxTime = 2
    MaxCrashes = 1
CHECK_DEADLOCK FALSE
SYMMETRY Symmetry
INVARIANTS
    AtMostOnce
    EvidenceBeforeHuman
    RoundsCounted
    ConfirmedIsHeld
PROPERTIES
    DecisionStays
