CONSTANTS
    j1 = j1
    j2 = j2
    a = a
    b = b
    p1 = p1
    p2 = p2
    s1 = s1
    s2 = s2
    w1 = w1
    w2 = w2
    Jobs = {j1, j2}
    Items = {a, b}
    Workers = {w1, w2}
    Scopes <- ProductsAndSkus
    JobOf <- JobOfTwo
    ScopeOf <- SameSku
    NoItem = NoItem
    NoWorker = NoWorker
    Price = 1
    InitialCredits = 2
    MaxAttempts = 2
    MaxRuns = 2
    MaxPending = 1
    TenantConcurrency = 2
    Executor = "http"
    Env = {"crash", "pause", "lookup", "late"}
SPECIFICATION Spec
SYMMETRY WorkerSymmetry
INVARIANTS
    HoldsAddUp
    Ledger
    PrimaryUnique
PROPERTIES
    SettledForever
    CancelledQuiet
CHECK_DEADLOCK FALSE
