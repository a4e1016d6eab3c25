\* Three sessions of two processes on a local directory, under fair threads.
SPECIFICATION FairSpec
CONSTANTS
    s1 = s1  s2 = s2  s3 = s3
    p1 = p1  p2 = p2
    buy = buy  buy2 = buy2  sell = sell
    i1 = i1  i2 = i2  dom = dom  x1 = x1  x2 = x2
    Sessions = {s1, s2, s3}
    Processes = {p1, p2}
    ProcessOf <- TwoOfThree
    Cloud = FALSE
    Orders = {buy, buy2}
    Quantity <- TwoBuys
    Sells = {}
    Intents = {i1}
    IntentOf <- SameIntent3
    Domains = {dom}
    DomainOf <- NoDomain3
    InitialDomain = "none"
    DecisionAt <- Decide3
    BrokerIds = {x1, x2}
    Reports <- FewReports
    NewRiskFlags = {TRUE, FALSE}
    Equities = {}
    Flows = {}
    Cash = {}
    PerUnits = {}
    PerTradeLimit = 0
    TotalLimit = 0
    Floor = 0
    BrakePercent = 10
    MaxQuantity = 2
    Validity = 1
    MaxTime = 0
    MaxEvents = 3
INVARIANTS
    OrderSentOnce
PROPERTIES
    ImplementsLedger
    OpenBarsNewRisk
    OpenWaitsForOutcome
    OnlyOwnerResolves
    LocksReleased
\* An account that is blocked, and a full journal, stop by design.
CHECK_DEADLOCK FALSE
