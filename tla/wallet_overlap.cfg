CONSTANTS
    inviter = inviter
    guest = guest
    o1 = o1
    o2 = o2
    t1 = t1
    t2 = t2
    Users = {inviter, guest}
    Orders = {o1, o2}
    Trades = {t1, t2}
    Handlers = {h1, h2}
    Codes = {c1}
    None = None
    UserOf <- Guest
    OrderOf <- Pays
    InviterOf <- Invited
    Amount = 1
    Commission = 1
    CodeCredits = 3
    Reward = 1
    Rate = 1
    Days = 1
    AdjustTo = {2}
    MaxEdits = 1
    Env = {"overlap"}
SPECIFICATION Spec
SYMMETRY HandlerSymmetry
INVARIANTS
    BalanceMatchesLogs
CHECK_DEADLOCK FALSE
