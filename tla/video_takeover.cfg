CONSTANTS
    Jobs = {r1}
    Processes = {v1, v2}
    NoJob = NoJob
    NoProcess = NoProcess
    Price = 1
    InitialCredits = 2
    LeastCredits <- Exhausted
    MaxAttempts = 2
    MaxPending = 2
    Slots = 1
    TenantConcurrency = 2
    Env = {"crash"}
SPECIFICATION FairSpec
PROPERTIES
    TakenOver
CHECK_DEADLOCK FALSE
