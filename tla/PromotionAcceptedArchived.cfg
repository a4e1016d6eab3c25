SPECIFICATION Spec
CONSTANTS
    Researches = {e1, e2, e3, e4}
    Digests = {d1, d2}
    MaxRounds = 2
    MaxIdle = 2
    MaxTime = 0
    MaxCrashes = 0
CHECK_DEADLOCK FALSE
SYMMETRY Symmetry
INVARIANT AcceptedStays
