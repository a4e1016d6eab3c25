\* Fair workers of two accounts, a command for each on one date, a run of
\* another date, an operator and one call that raises.
SPECIFICATION FairSpec
CONSTANTS
    c1 = c1  c2 = c2  w1 = w1  w2 = w2  w3 = w3
    Commands = {c1, c2}
    Workers = {w1, w2}
    Sessions = {1, 2}
    Content <- TwoAccounts
    Runtime <- SharedStore
    Reports <- FreshOrStale
    Proposals <- NoneSomeMixed
    MaxFaults = 1
INVARIANTS
    HistoriesLegal
PROPERTIES
    SubmittedAsApproved
    ImplementsLifecycle
    HeldCommandSettles
\* Crashed workers stop.
CHECK_DEADLOCK FALSE
