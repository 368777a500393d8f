SPECIFICATION Spec
CONSTANTS
    Worker = {w1, w2}
    Campaign = {"k1"}
    Discounted = {"k1"}
    Addressed = TRUE
    ScanLimit = 2
    Checkout = {"c1"}
    Order = {o1, o2}
    MaxFaults = 1
    Runner = {w1, w2}
    Records = 2
    Kinds = {"orders", "products"}
    PageSize = 1
    MaxPages <- PagesOf
    MaxChanges = 2
    MaxSyncFaults = 1
    Requests = {w1, w2}
    MaxRequests = 6
    ListNames = {"nodes", "edges"}
    MaxTime = 2
    MaxReports = 2
    MaxFailures = 1
    MaxSyncs = 2
    CarrierStatuses = {"DELIVERED", "CONFIRMED"}
    Syncs = {w1, w2}
    Synced = {"synced_products"}
    Cleaned = {"synced_products", "shop_llm_configs"}
    Scoped = {"synced_products", "shop_llm_configs", "synced_checkouts"}
    Redacted = {"synced_products", "synced_checkouts"}
    Personal = {"synced_checkouts"}
    Installs = {1, 2}
    MaxWebhooks = 1
    MaxDeleteFailures = 1
    Plans = {"pro"}
    Quota <- QuotaOf
    Counts = {1}
    Slots = {w1, w2}
    MaxSubscriptions = 1
    MaxRecords = 4
    MaxLosses = 1
SYMMETRY Symmetric
INVARIANTS
    TypeOK
    PaidOnce
    LifecycleSound
    
    
    RecommendationsSound
    
    MarkerCovers

    
CHECK_DEADLOCK FALSE
