SPECIFICATION MetricsSpec
CONSTANTS
    Workers = {"w1", "w2"}
    Scrapers = {"s1"}
    MaxCalls = 3
    MaxScrapes = 1
INVARIANT
    NobodyStuck
CHECK_DEADLOCK FALSE
