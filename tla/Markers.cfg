\* Three runs of two owners and an older caller, on local files or an object store.
SPECIFICATION Spec
CONSTANTS
    primary = primary
    backup = backup
    other = other
    legacy = legacy
    A = A
    B = B
    Owners = {A, B}
    Owner <- MCOwner
    Absent = Absent
    Empty = Empty
    Runs = {primary, backup, other, legacy}
    LegacyRuns = {legacy}
    MaxStarts = 2
    MaxFaults = 2
    MaxHandovers = 1
INVARIANTS
    TypeOK
    ClaimersSubmitOnce
    FenceExclusive
    OutcomeKept
\* Runs that have ended, stop.
CHECK_DEADLOCK FALSE
