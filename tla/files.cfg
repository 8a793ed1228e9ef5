CONSTANTS
    a = a
    b = b
    c = c
    Uploads = {a, b, c}
    SizeOf <- Sizes
    Keys = {k1, k2}
    Workers = {w1}
    None = None
    Quota = 2
    MaxReservations = 2
    MaxTemporary = 2
    MaxFiles = 2
    Env = {"loss", "crash"}
SPECIFICATION Spec
INVARIANTS
    TypeOK
    LiveNotDoomed
    NoOrphans
    Quotas
    ReservationHonoured
    References
CHECK_DEADLOCK FALSE
