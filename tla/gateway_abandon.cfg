CONSTANTS
    chat = chat
    lumina = lumina
    Requests = {r1}
    Accounts = {chat, lumina}
    BytePlus = {lumina}
    Balance <- OneEach
    Seen <- SeenBefore
    Unknown = Unknown
    None = None
    MaxCrashes = 0
    MaxFaults = 1
SPECIFICATION Spec
INVARIANTS
    RefundedNotDelivered
CHECK_DEADLOCK FALSE
