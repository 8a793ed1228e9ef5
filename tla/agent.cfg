CONSTANTS
    c1 = c1
    c2 = c2
    c3 = c3
    t1 = t1
    t2 = t2
    Calls = {c1, c2, c3}
    Retryable = {c1, c2}
    Revertible = {c1, c2}
    Danger = {c3}
    Ask = {}
    Threads = {t1, t2}
    None = None
    MaxToolCalls = 2
    MaxCrashes = 1
    Env = {"plan"}
SPECIFICATION Spec
SYMMETRY Symmetry
INVARIANTS
    TypeOK
    Drives
    OneExecution
    CancelReaches
    NoGhostExecution
PROPERTIES
    LateFailureEnds
CHECK_DEADLOCK FALSE
