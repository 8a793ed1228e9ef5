CONSTANTS
    Jobs = {r1, r2}
    Processes = {v1, v2}
    NoJob = NoJob
    NoProcess = NoProcess
    Price = 1
    InitialCredits = 2
    LeastCredits <- Exhausted
    MaxAttempts = 2
    MaxPending = 1
    Slots = 1
    TenantConcurrency = 1
    Env = {"crash", "pause", "late", "overlap"}
SPECIFICATION FairSpec
INVARIANTS
    TypeOK
    Envelope
    Reservations
PROPERTIES
    LinearStages
    HeldOnce
    DecidedOrStranded
CHECK_DEADLOCK FALSE
