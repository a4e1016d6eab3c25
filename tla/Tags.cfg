SPECIFICATION Spec
CONSTANTS
    Processes = {p1, p2, p3}
    Operations = {1, 2, 4}
    Strays = {3}
    Candidates = {c1, c2}
    Tags = {t1, t2}
    NoRecord = NoRecord
    Garbled = Garbled
    Free = Free
    Unknown = Unknown
    MaxCalls = 4
    MaxFaults = 2
CHECK_DEADLOCK FALSE
SYMMETRY Symmetry
INVARIANTS
    IntactTagsExclusive
    OneReservation
    HandedIsKept
