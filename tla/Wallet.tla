------------------------------- MODULE Wallet --------------------------------
(***************************************************************************)
(* The money of users: recharge orders and the notifications that settle   *)
(* them, the commission of the inviter, the exchange of balance for        *)
(* credits, redemption codes, the daily check-in, and the edits of an      *)
(* administrator (repository/payment.go, redeem_code.go, check_in.go,      *)
(* user.go, service/payment.go, auth.go, check_in.go).                     *)
(*                                                                         *)
(* Every action is one transaction, or what a handler does between two.    *)
(* Abstractions: balance_logs and credit_logs are the sums of their        *)
(* amounts by user; an exchange converts one unit of balance; a            *)
(* notification is signed, names a trade that paid its order, and agrees   *)
(* with the order in provider, method and amount.                          *)
(***************************************************************************)
EXTENDS Integers, FiniteSets

CONSTANTS
    Users, Orders, Trades, Handlers, Codes, None,
    UserOf,      \* who placed each order
    OrderOf,     \* the order each trade of the payment platform pays
    InviterOf,   \* who invited each user, or None
    Amount,      \* balance_cents of an order
    Commission,  \* commission on an order
    CodeCredits, \* credits of a redemption code
    Reward,      \* credits of a check-in
    Rate,        \* credits for one unit of balance
    Days,        \* 1..Days are the days that are looked at
    AdjustTo,    \* what an administrator sets credits to
    MaxEdits,    \* bound on the changes an administrator makes
    Env          \* what may happen, see WalletEnv

\* overlap: another transaction changes a user between the read and the write
\*          of an administrator's edit
\* crash:   the process stops between an adjustment and its log
WalletEnv == {"overlap", "crash"}

ASSUME WalletAssumption ==
    /\ IsFiniteSet(Users) /\ IsFiniteSet(Orders)
    /\ None \notin Users \cup Orders \cup Trades
    /\ UserOf \in [Orders -> Users]
    /\ OrderOf \in [Trades -> Orders]
    /\ InviterOf \in [Users -> Users \cup {None}]
    /\ {Amount, Commission, CodeCredits, Reward, Rate} \subseteq Nat \ {0}
    /\ Days \in Nat /\ MaxEdits \in Nat
    /\ AdjustTo \subseteq Nat
    /\ Env \subseteq WalletEnv

VARIABLES
    user,       \* users
    order,      \* payment_orders
    share,      \* referral_commissions, by invitee
    spent,      \* balance each user has exchanged
    balanceLog, \* balance_logs, summed by user
    creditLog,  \* credit_logs but admin_adjust, summed by user
    adjustLog,  \* credit_logs of type admin_adjust, summed by user
    code,       \* redemption_codes
    checkIns,   \* check_ins
    checking,   \* check-ins whose request found none yet
    today,
    referral,   \* is the commission switched on?
    handler,    \* the notification each handler works on
    edit,       \* the edit an administrator is about to write
    edits       \* changes of administrators, for the bound

money == <<user, balanceLog, creditLog, adjustLog>>
shop == <<order, share, spent, referral, handler>>
gifts == <<code, checkIns, checking, today>>
admin == <<edit, edits>>
vars == <<money, shop, gifts, admin>>

\* The balance is never negative.
UserRow == [cents: Nat, credits: Int, version: Nat, active: BOOLEAN]
OrderRow == [status: {"absent", "pending", "paid"}, trade: Trades \cup {None}]
ShareRow == [order: Orders \cup {None}, inviter: Users \cup {None}]
NoShare == [order |-> None, inviter |-> None]
CodeRow == [status: {"active", "used", "deleted"}, by: Users \cup {None}]
HandlerRow == [step: {"idle", "matched", "settling"}, trade: Trades \cup {None}, commission: BOOLEAN]
Idle == [step |-> "idle", trade |-> None, commission |-> FALSE]
EditRow == [step: {"idle", "read", "log"}, user: Users \cup {None}, row: UserRow, amount: Int]
NewUser == [cents |-> 0, credits |-> 0, version |-> 0, active |-> TRUE]
NoEdit == [step |-> "idle", user |-> None, row |-> NewUser, amount |-> 0]

TypeOK ==
    /\ user \in [Users -> UserRow]
    /\ order \in [Orders -> OrderRow]
    /\ share \in [Users -> ShareRow]
    /\ spent \in [Users -> Nat]
    /\ balanceLog \in [Users -> Int]
    /\ creditLog \in [Users -> Int]
    /\ adjustLog \in [Users -> Int]
    /\ code \in [Codes -> CodeRow]
    /\ checkIns \subseteq Users \X (1..Days)
    /\ checking \subseteq Users \X (1..Days)
    /\ today \in 1..(Days + 1)
    /\ referral \in BOOLEAN
    /\ handler \in [Handlers -> HandlerRow]
    /\ edit \in EditRow
    /\ edits \in 0..MaxEdits

Init ==
    /\ user = [u \in Users |-> NewUser]
    /\ order = [o \in Orders |-> [status |-> "absent", trade |-> None]]
    /\ share = [u \in Users |-> NoShare]
    /\ spent = [u \in Users |-> 0]
    /\ balanceLog = [u \in Users |-> 0]
    /\ creditLog = [u \in Users |-> 0]
    /\ adjustLog = [u \in Users |-> 0]
    /\ code = [c \in Codes |-> [status |-> "active", by |-> None]]
    /\ checkIns = {} /\ checking = {} /\ today = 1
    /\ referral = TRUE
    /\ handler = [h \in Handlers |-> Idle]
    /\ edit = NoEdit /\ edits = 0

\* balance_cents + n and credits + n, each with its log.
AddCents(table, u, n) == [table EXCEPT ![u].cents = @ + n]
AddCredits(table, u, n) == [table EXCEPT ![u].credits = @ + n]
Logged(log, u, n) == [log EXCEPT ![u] = @ + n]

(***************************************************************************)
(* Recharge                                                                *)
(***************************************************************************)

CreatePaymentOrder(o) ==
    /\ order[o].status = "absent"
    /\ order' = [order EXCEPT ![o].status = "pending"]
    /\ UNCHANGED <<money, share, spent, referral, handler, gifts, admin>>

\* HandlePaymentNotification reads the order. A paid order is only confirmed,
\* and only for the trade that paid it; both end the handler.
Receive(h, t) ==
    /\ handler[h].step = "idle" /\ order[OrderOf[t]].status = "pending"
    /\ handler' = [handler EXCEPT ![h] = [Idle EXCEPT !.step = "matched", !.trade = t]]
    /\ UNCHANGED <<money, order, share, spent, referral, gifts, admin>>

\* verifyZPayOrder succeeded, if the platform has to be asked; then the handler
\* computes the commission, before the transaction that settles.
Verify(h) ==
    LET u == UserOf[OrderOf[handler[h].trade]]
    IN  /\ handler[h].step = "matched"
        /\ handler' = [handler EXCEPT ![h].step = "settling",
                           ![h].commission = referral /\ InviterOf[u] \notin {None, u}]
        /\ UNCHANGED <<money, order, share, spent, referral, gifts, admin>>

\* The query failed, or the process stopped: the platform notifies again.
Abandon(h) ==
    /\ handler[h].step # "idle"
    /\ handler' = [handler EXCEPT ![h] = Idle]
    /\ UNCHANGED <<money, order, share, spent, referral, gifts, admin>>

\* SettlePaymentOrder. The trade number is unique; the commission is for the
\* first paid order of the invitee, for an active inviter, once by invitee.
\* Mutant: the status of the order was checked before.
SettledOnRequest(o) == order[o].status # "absent"
Settleable(o) == order[o].status = "pending"
\* Mutant: any order counts until there was a commission.
FirstWithoutShare(o) == share[UserOf[o]] = NoShare
FirstPaid(o) == \A p \in Orders : UserOf[p] = UserOf[o] => order[p].status # "paid"
\* Mutant: the inviter's log is forgotten.
ShareUnlogged(log, u) == log
ShareLogged(log, u) == Logged(log, InviterOf[u], Commission)
Earns(h, o) ==
    LET u == UserOf[o]
    IN  /\ handler[h].commission /\ FirstPaid(o)
        /\ user[InviterOf[u]].active /\ share[u] = NoShare

SettlePaymentOrder(h) ==
    LET t == handler[h].trade
        o == OrderOf[t]
        u == UserOf[o]
        paid == AddCents(user, u, Amount)
        log == Logged(balanceLog, u, Amount)
    IN  /\ handler[h].step = "settling"
        /\ handler' = [handler EXCEPT ![h] = Idle]
        /\ IF ~Settleable(o) THEN UNCHANGED <<money, order, share>>
           ELSE /\ order' = [order EXCEPT ![o] = [status |-> "paid", trade |-> t]]
                /\ IF Earns(h, o)
                   THEN /\ share' = [share EXCEPT ![u] = [order |-> o, inviter |-> InviterOf[u]]]
                        /\ user' = AddCents(paid, InviterOf[u], Commission)
                        /\ balanceLog' = ShareLogged(log, u)
                   ELSE share' = share /\ user' = paid /\ balanceLog' = log
                /\ UNCHANGED <<creditLog, adjustLog>>
        /\ UNCHANGED <<spent, referral, gifts, admin>>

\* The administrator switches the commission on or off.
SwitchReferral ==
    /\ edits < MaxEdits
    /\ referral' = ~referral /\ edits' = edits + 1
    /\ UNCHANGED <<money, order, share, spent, handler, gifts, edit>>

\* ExchangeUserBalanceForCredits
\* Mutant: the balance is not part of the condition of the update.
AnyBalance(u) == TRUE
Affordable(u) == user[u].cents >= 1

ExchangeBalance(u) ==
    /\ Affordable(u)
    /\ user' = AddCredits(AddCents(user, u, -1), u, Rate)
    /\ spent' = [spent EXCEPT ![u] = @ + 1]
    /\ balanceLog' = Logged(balanceLog, u, -1)
    /\ creditLog' = Logged(creditLog, u, Rate)
    /\ UNCHANGED <<adjustLog, order, share, referral, handler, gifts, admin>>

(***************************************************************************)
(* Gifts                                                                   *)
(***************************************************************************)

RedeemRedemptionCode(u, c) ==
    /\ code[c].status = "active"
    /\ code' = [code EXCEPT ![c] = [status |-> "used", by |-> u]]
    /\ user' = AddCredits(user, u, CodeCredits)
    /\ creditLog' = Logged(creditLog, u, CodeCredits)
    /\ UNCHANGED <<balanceLog, adjustLog, shop, checkIns, checking, today, admin>>

DeleteRedemptionCodes(c) ==
    /\ code[c].status # "deleted"
    /\ code' = [code EXCEPT ![c].status = "deleted"]
    /\ UNCHANGED <<money, shop, checkIns, checking, today, admin>>

\* CheckIn looks for a check-in of the day first ...
HasNoCheckIn(u) ==
    /\ today <= Days /\ <<u, today>> \notin checkIns
    /\ checking' = checking \cup {<<u, today>>}
    /\ UNCHANGED <<money, shop, code, checkIns, today, admin>>

\* ... and CreateCheckIn inserts one, for the day that was looked at, under the
\* unique index of user and day. Any number of requests may be on their way.
\* Mutant: the index is missing.
Insertable(u, d) == TRUE
NotCheckedIn(u, d) == <<u, d>> \notin checkIns

CreateCheckIn(u, d) ==
    /\ <<u, d>> \in checking /\ NotCheckedIn(u, d)
    /\ checkIns' = checkIns \cup {<<u, d>>}
    /\ user' = AddCredits(user, u, Reward)
    /\ creditLog' = Logged(creditLog, u, Reward)
    /\ UNCHANGED <<balanceLog, adjustLog, shop, code, checking, today, admin>>

NextDay ==
    /\ today <= Days
    /\ today' = today + 1
    /\ UNCHANGED <<money, shop, code, checkIns, checking, admin>>

(***************************************************************************)
(* Administrators                                                          *)
(***************************************************************************)

\* service.SaveUser and AdjustUserCredits read the whole user. The status is
\* the administrator's, or the credits are; the rest is what was read.
ReadUser(u) ==
    /\ edit.step = "idle" /\ edits < MaxEdits
    /\ \/ \E n \in AdjustTo : edit' = [step |-> "read", user |-> u,
                                       row |-> [user[u] EXCEPT !.credits = n],
                                       amount |-> n - user[u].credits]
       \/ edit' = [step |-> "read", user |-> u,
                   row |-> [user[u] EXCEPT !.active = ~@], amount |-> 0]
    /\ edits' = edits + 1
    /\ UNCHANGED <<money, shop, gifts>>

\* repository.SaveUser writes all columns, if the version is the one read; a
\* change of the status counts it up. The log of an adjustment follows in a
\* transaction of its own.
Overlapped == LET now == user[edit.user] IN
    \/ now.cents # edit.row.cents
    \/ now.credits # edit.row.credits - edit.amount

SaveUser ==
    LET u == edit.user
        changed == edit.row.active # user[u].active
    IN  /\ edit.step = "read"
        /\ Overlapped => "overlap" \in Env
        /\ IF user[u].version # edit.row.version THEN UNCHANGED user /\ edit' = NoEdit
           ELSE /\ user' = [user EXCEPT ![u] =
                               [edit.row EXCEPT !.version = IF changed THEN @ + 1 ELSE @]]
                /\ edit' = IF edit.amount = 0 THEN NoEdit ELSE [edit EXCEPT !.step = "log"]
        /\ UNCHANGED <<balanceLog, creditLog, adjustLog, shop, gifts, edits>>

\* SaveCreditLog
SaveCreditLog ==
    /\ edit.step = "log"
    /\ adjustLog' = Logged(adjustLog, edit.user, edit.amount)
    /\ edit' = NoEdit
    /\ UNCHANGED <<user, balanceLog, creditLog, shop, gifts, edits>>

\* The administrator's process stops.
Stop ==
    /\ edit.step = "read" \/ (edit.step = "log" /\ "crash" \in Env)
    /\ edit' = NoEdit
    /\ UNCHANGED <<money, shop, gifts, edits>>

\* UpdateUserPassword counts the version up; it matters while an edit of the
\* user is under way.
UpdateUserPassword(u) ==
    /\ edit.step = "read" /\ edit.user = u /\ user[u].version = edit.row.version
    /\ user' = [user EXCEPT ![u].version = @ + 1]
    /\ UNCHANGED <<balanceLog, creditLog, adjustLog, shop, gifts, admin>>

Handler(h) ==
    \/ \E t \in Trades : Receive(h, t)
    \/ Verify(h)
    \/ SettlePaymentOrder(h)
    \/ Abandon(h)

User(u) ==
    \/ ExchangeBalance(u)
    \/ \E c \in Codes : RedeemRedemptionCode(u, c)
    \/ HasNoCheckIn(u)
    \/ \E d \in 1..Days : CreateCheckIn(u, d)
    \/ UpdateUserPassword(u)

Administrator ==
    \/ SwitchReferral
    \/ \E c \in Codes : DeleteRedemptionCodes(c)
    \/ \E u \in Users : ReadUser(u)
    \/ SaveUser
    \/ SaveCreditLog
    \/ Stop

Next ==
    \/ \E o \in Orders : CreatePaymentOrder(o)
    \/ \E h \in Handlers : Handler(h)
    \/ \E u \in Users : User(u)
    \/ NextDay
    \/ Administrator

Spec == Init /\ [][Next]_vars

(***************************************************************************)
(* Properties                                                              *)
(***************************************************************************)

PaidOrders(u) == {o \in Orders : UserOf[o] = u /\ order[o].status = "paid"}
SharesOf(u) == {v \in Users : share[v].inviter = u}
CodesOf(u) == {c \in Codes : code[c].by = u}
CheckInsOf(u) == {x \in checkIns : x[1] = u}
Unlogged(u) == IF edit.step = "log" /\ edit.user = u THEN edit.amount ELSE 0

\* The balance and the credits of a user are the sums of their logs; only an
\* adjustment by an administrator is logged a step after it counts.
Ledger ==
    \A u \in Users :
        /\ user[u].cents = balanceLog[u]
        /\ user[u].credits = creditLog[u] + adjustLog[u] + Unlogged(u)

\* The balance is what was paid for: each paid order once and each commission
\* once, less what was exchanged, however often and in whatever order the
\* platform notifies.
BalanceEarned ==
    \A u \in Users :
        user[u].cents = Amount * Cardinality(PaidOrders(u))
                          + Commission * Cardinality(SharesOf(u)) - spent[u]

\* So are the credits: each exchange, each code and each day counts once,
\* whichever requests race for it.
CreditsEarned ==
    \A u \in Users :
        creditLog[u] = Rate * spent[u] + CodeCredits * Cardinality(CodesOf(u))
                         + Reward * Cardinality(CheckInsOf(u))

\* docs api-response.mdx:81: a commission is paid with the first order of the
\* invitee and never carried over to a later one.
CommissionOnFirst ==
    [][\A u \in Users : share'[u] # share[u] =>
          /\ PaidOrders(u) = {} /\ share[u] = NoShare
          /\ share'[u].order \in PaidOrders(u)']_vars

\* docs backend-database.mdx:453: balance and balance_logs change together.
BalanceMatchesLogs == \A u \in Users : user[u].cents = balanceLog[u]
=============================================================================
