SPECIFICATION Spec
CONSTANTS
    Worker = {w1, w2}
    Shops = {"s1", "s2"}
    PlatformKeys = {"deepseek"}
    Changes <- ConfigChanges
    Calls = {1}
    Updates = {w1, w2}
    MaxChanges = 2
    MaxFailures = 1
    Tasks = {w1, w2}
    Looks = {"k1"}
    DailyQuota = 2
    StreamSlots = {1, 2}
    MaxFaults = 1
    Workers = {w1, w2}
    Scrapers = {"s1"}
    MaxCalls = 3
    MaxScrapes = 1
    InFlight = {w1, w2}
    GateShops = {"s1"}
    DailyLimit = 2
    MaxRequests = 1
    MaxMinute = 2
    MinutesPerDay = 2
    MaxArrivals = 4
    MaxUnanswered = 1
    Templates = {"repurchase", "custom"}
    Copies = 2
    Execs = {w1, w2}
    MaxBegun = 3
    MaxFlowFailures = 1
    JobIds = {1, 2}
    JobSize = 2
    States = {1, 2}
    Callbacks = {1, 2}
    Posters = {1, 2}
    Platform = "pinterest"
    ContentBudgets <- BudgetsOfContent
    Products = {1, 2}
    RequestSlots = {w1, w2}
    Ttl <- TtlOf
    Mixes <- MixesOf
    MaxTime = 1
    MaxWorldChanges = 1
    MaxLost = 1
    RagShops = {"s1", "s2"}
    Topics = {"t1", "t2"}
    Indexers = {"product", "ai_reply"}
    ReaderKinds = {"customer", "admin", "desc"}
    Readers = {w1, w2}
    TopK = 1
    RagBudgets <- BudgetsOfRag
    MaxRagFailures = 1
    Figures <- FiguresOf
    Ratios = {4, 10}
    Evaluators = {"order", "return", "product"}
    Refreshers = {"cron", "dashboard"}
    InsightBudgets <- BudgetsOfInsight
    MaxInsightFailures = 1
SYMMETRY Symmetric
INVARIANTS
    TypeOK
    
    
    
    
    
    TryOnSound
    
    
    GatewaySound
    
    InsightSound
    ReportsSound
    AdviceSound
    EnrichSound
CHECK_DEADLOCK FALSE
