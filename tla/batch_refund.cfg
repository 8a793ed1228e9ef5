CONSTANTS
    j1 = j1
    j2 = j2
    a = a
    b = b
    p1 = p1
    p2 = p2
    s1 = s1
    s2 = s2
    w1 = w1
    w2 = w2
    Jobs = {j1}
    Items = {a}
    Workers = {w1}
    Scopes <- ProductsAndSkus
    JobOf <- JobOfOne
    ScopeOf <- OneSku
    NoItem = NoItem
    NoWorker = NoWorker
    Price = 1
    InitialCredits = 2
    MaxAttempts = 2
    MaxRuns = 3
    MaxPending = 2
    TenantConcurrency = 2
    Executor = "standard"
    Env = {"crash"}
SPECIFICATION FairSpec
PROPERTIES
    FailureRefunded
CHECK_DEADLOCK FALSE
