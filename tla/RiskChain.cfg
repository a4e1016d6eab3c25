SPECIFICATION Spec
CONSTANTS
    r1 = r1
    r2 = r2
    a = a
    b = b
    c = c
    late = late
    Root = Root
    Absent = Absent
    Transitions <- MCTransitions
    Previous <- MCPrevious
    EffectiveSession <- MCEffectiveSession
    Writers = {w1, w2, w3}
    MaxCalls = 5
    MaxFaults = 1
CHECK_DEADLOCK FALSE
INVARIANTS
    ChainReadable
    ReceiptsTrue
PROPERTIES
    ImplementsHistory
    RefusedIsAbsent
