\* A session of an unbound account stops between binding the journal and
\* reading it again, while another one reserves risk and opens the breaker.
SPECIFICATION Spec
CONSTANTS
    s1 = s1  s2 = s2  s3 = s3
    p1 = p1  p2 = p2
    buy = buy  buy2 = buy2  sell = sell
    i1 = i1  i2 = i2  dom = dom  x1 = x1  x2 = x2
    Sessions = {s1, s2}
    Processes = {p1, p2}
    ProcessOf <- OneEach
    Cloud = TRUE
    Orders = {buy}
    Quantity <- OneBuy
    Sells = {}
    Intents = {i1}
    IntentOf <- SameIntent2
    Domains = {dom}
    DomainOf <- WithDomain2
    InitialDomain = "none"
    DecisionAt <- Decide2One
    BrokerIds = {x1, x2}
    Reports <- FewReports
    NewRiskFlags = {TRUE}
    Equities = {10}
    Flows = {0}
    Cash = {0}
    PerUnits = {1}
    PerTradeLimit = 4
    TotalLimit = 3
    Floor = 2
    BrakePercent = 10
    MaxQuantity = 2
    Validity = 2
    MaxTime = 1
    MaxEvents = 5
INVARIANTS
    JournalNeverPoisoned
\* An account that is blocked, and a full journal, stop by design.
CHECK_DEADLOCK FALSE
