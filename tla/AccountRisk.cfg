\* An unbound account on an object store: two sessions with intents of their own
\* bind it, record what it is worth and may owe, buy, and sell what is held.
SPECIFICATION Spec
CONSTANTS
    s1 = s1  s2 = s2  s3 = s3
    p1 = p1  p2 = p2
    buy = buy  buy2 = buy2  sell = sell
    i1 = i1  i2 = i2  dom = dom  x1 = x1  x2 = x2
    Sessions = {s1, s2}
    Processes = {p1}
    ProcessOf <- OneProcess
    Cloud = TRUE
    Orders = {buy, sell}
    Quantity <- TwoUnits
    Sells = {sell}
    Intents = {i1, i2}
    IntentOf <- OwnIntents
    Domains = {dom}
    DomainOf <- WithDomain2
    InitialDomain = "none"
    DecisionAt <- Decide2Late
    BrokerIds = {x1, x2}
    Reports <- OddReports
    NewRiskFlags = {FALSE}
    Equities = {8, 10}
    Flows = {0}
    Cash <- Owing
    PerUnits = {1}
    PerTradeLimit = 4
    TotalLimit = 2
    Floor = 2
    BrakePercent = 10
    MaxQuantity = 2
    Validity = 2
    MaxTime = 2
    MaxEvents = 10
INVARIANTS
    RiskNeverUndercounted
PROPERTIES
    OnlyDebtPoisons
    ObservationsFinal
    PreparedOnLatestValuation
    ReductionWithinPosition
\* An account that is blocked, and a full journal, stop by design.
SYMMETRY SameRole
CHECK_DEADLOCK FALSE
