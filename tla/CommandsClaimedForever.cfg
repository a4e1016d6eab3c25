\* One command, fair workers that may crash or lose the answer of a call.
SPECIFICATION FairSpec
CONSTANTS
    c1 = c1  c2 = c2  w1 = w1  w2 = w2  w3 = w3
    Commands = {c1}
    Workers = {w1, w2}
    Sessions = {1}
    Content <- TwoAccounts
    Runtime <- OneAccount
    Reports <- FreshOrStale
    Proposals <- NoneSomeMixed
    MaxFaults = 1
PROPERTIES
    ClaimSettles
\* Crashed workers stop.
CHECK_DEADLOCK FALSE
