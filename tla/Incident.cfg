SPECIFICATION Spec
CONSTANTS
    Workers = {w1, w2, w3}
    Severities = {1, 2}
    MaxAttempts = 2
    MaxObservations = 4
    MaxRecords = 2
    MaxFaults = 1
CHECK_DEADLOCK FALSE
SYMMETRY Symmetry
INVARIANTS
    TypeOK
    SentOnce
    Announced
    DeliveredIsAcked
PROPERTIES
    DeliveryFinal
