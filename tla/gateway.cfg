CONSTANTS
    chat = chat
    lumina = lumina
    Requests = {r1}
    Accounts = {chat, lumina}
    BytePlus = {lumina}
    Balance <- OneEach
    Seen <- SeenBefore
    Unknown = Unknown
    None = None
    MaxCrashes = 1
    MaxFaults = 1
SPECIFICATION FairSpec
INVARIANTS
    TypeOK
    QuotaLedger
    ChargedOnce
    RefundOnlyUncharged
    DeliveredStored
PROPERTIES
    RefundFinal
    EventClosed
CHECK_DEADLOCK FALSE
