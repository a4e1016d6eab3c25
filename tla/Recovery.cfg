SPECIFICATION Spec
CONSTANTS
    b1 = b1
    b2 = b2
    frozen = frozen
    other = other
    c1 = c1
    c2 = c2
    Books = {b1, b2}
    Fragment = Fragment
    Targets = {frozen, other}
    Baseline = frozen
    Controllers = {c1, c2}
    MaxAge = 1
    MaxSpan = 1
    MaxTime = 3
    MaxReceipts = 3
    MaxCandidates = 1
    MaxConfirmations = 2
    MaxIncidents = 2
SYMMETRY Symmetry
CHECK_DEADLOCK FALSE
INVARIANTS
    PlanIsWitnessed
    ReconciledTwice
PROPERTIES
    ResumesAsConfirmed
