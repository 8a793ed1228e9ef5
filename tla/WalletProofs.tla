----------------------------- MODULE WalletProofs -----------------------------
(***************************************************************************)
(* Theorems about Wallet for every set of users, orders, trades, codes and *)
(* notifications, and for every amount.                                    *)
(***************************************************************************)
EXTENDS Wallet, FiniteSetTheorems, TLAPS

-----------------------------------------------------------------------------
(***************************************************************************)
(* Types, and what a step under way knows.                                 *)
(***************************************************************************)

\* An edit under way has a user and a handler at work a trade; a commission is
\* for an inviter who is not the payer.
Payer(h) == UserOf[OrderOf[handler[h].trade]]
UnderWay ==
    /\ edit.step # "idle" => edit.user \in Users
    /\ \A h \in Handlers :
          /\ handler[h].step # "idle" => handler[h].trade \in Trades
          /\ handler[h].commission => /\ handler[h].step = "settling"
                                      /\ InviterOf[Payer(h)] \in Users \ {Payer(h)}

\* What the additions do to the table of users.
LEMMA AddedMoney ==
    ASSUME NEW t \in [Users -> UserRow], NEW u \in Users, NEW n \in Int
    PROVE  /\ AddCredits(t, u, n) \in [Users -> UserRow]
           /\ t[u].cents + n \in Nat => AddCents(t, u, n) \in [Users -> UserRow]
           /\ \A v \in Users :
                 /\ AddCredits(t, u, n)[v].credits = IF v = u THEN t[v].credits + n ELSE t[v].credits
                 /\ AddCredits(t, u, n)[v].cents = t[v].cents
                 /\ AddCents(t, u, n)[v].cents = IF v = u THEN t[v].cents + n ELSE t[v].cents
                 /\ AddCents(t, u, n)[v].credits = t[v].credits
<1>1. t[u] \in UserRow
  OBVIOUS
<1>2. [t[u] EXCEPT !.credits = @ + n] \in UserRow
  BY <1>1 DEF UserRow
<1>3. t[u].cents + n \in Nat => [t[u] EXCEPT !.cents = @ + n] \in UserRow
  BY <1>1 DEF UserRow
<1>4. AddCredits(t, u, n) = [t EXCEPT ![u] = [t[u] EXCEPT !.credits = @ + n]]
  BY DEF AddCredits
<1>5. AddCents(t, u, n) = [t EXCEPT ![u] = [t[u] EXCEPT !.cents = @ + n]]
  BY DEF AddCents
<1>6. AddCredits(t, u, n) \in [Users -> UserRow]
  BY <1>2, <1>4
<1>7. t[u].cents + n \in Nat => AddCents(t, u, n) \in [Users -> UserRow]
  BY <1>3, <1>5
<1>8. \A v \in Users : t[v] \in UserRow
  OBVIOUS
<1>9. \A v \in Users :
         /\ AddCredits(t, u, n)[v].credits = IF v = u THEN t[v].credits + n ELSE t[v].credits
         /\ AddCredits(t, u, n)[v].cents = t[v].cents
  BY <1>4, <1>8 DEF UserRow
<1>10. \A v \in Users :
         /\ AddCents(t, u, n)[v].cents = IF v = u THEN t[v].cents + n ELSE t[v].cents
         /\ AddCents(t, u, n)[v].credits = t[v].credits
  BY <1>5, <1>8 DEF UserRow
<1> QED
  BY <1>6, <1>7, <1>9, <1>10

\* A log with an entry more.
LEMMA LoggedSum ==
    ASSUME NEW log \in [Users -> Int], NEW u \in Users, NEW n \in Int
    PROVE  /\ Logged(log, u, n) \in [Users -> Int]
           /\ \A v \in Users : Logged(log, u, n)[v] = IF v = u THEN log[v] + n ELSE log[v]
BY DEF Logged

\* The constants as the provers need them.
LEMMA Constants ==
    /\ Amount \in Nat /\ Commission \in Nat /\ CodeCredits \in Nat /\ Reward \in Nat /\ Rate \in Nat
    /\ \A t \in Trades : OrderOf[t] \in Orders /\ UserOf[OrderOf[t]] \in Users
    /\ \A o \in Orders : UserOf[o] \in Users
    /\ None \notin Users /\ None \notin Orders /\ None \notin Trades
BY WalletAssumption DEF WalletAssumption

\* SettlePaymentOrder, as the cases it distinguishes.
LEMMA SettleCases ==
    ASSUME TypeOK, UnderWay, NEW h \in Handlers, SettlePaymentOrder(h)
    PROVE  LET t == handler[h].trade
               o == OrderOf[t]
               u == UserOf[o]
               i == InviterOf[u]
           IN  /\ t \in Trades /\ o \in Orders /\ u \in Users
               /\ \/ UNCHANGED <<user, balanceLog, order, share>>
                  \/ /\ order[o].status = "pending" /\ ~Earns(h, o)
                     /\ order' = [order EXCEPT ![o] = [status |-> "paid", trade |-> t]]
                     /\ user' = AddCents(user, u, Amount)
                     /\ balanceLog' = Logged(balanceLog, u, Amount)
                     /\ UNCHANGED share
                  \/ /\ order[o].status = "pending" /\ Earns(h, o)
                     /\ i \in Users /\ i # u
                     /\ order' = [order EXCEPT ![o] = [status |-> "paid", trade |-> t]]
                     /\ user' = AddCents(AddCents(user, u, Amount), i, Commission)
                     /\ balanceLog' = Logged(Logged(balanceLog, u, Amount), i, Commission)
                     /\ share' = [share EXCEPT ![u] = [order |-> o, inviter |-> i]]
<1> DEFINE t == handler[h].trade
           o == OrderOf[t]
           u == UserOf[o]
           i == InviterOf[u]
<1>1. t \in Trades /\ o \in Orders /\ u \in Users
  BY Constants DEF SettlePaymentOrder, UnderWay
<1>2. Earns(h, o) => i \in Users /\ i # u
  BY DEF Earns, UnderWay, Payer
<1>3. CASE ~Settleable(o)
  BY <1>1, <1>3 DEF SettlePaymentOrder, money
<1>4. CASE Settleable(o) /\ ~Earns(h, o)
  BY <1>1, <1>4 DEF SettlePaymentOrder, Settleable
<1>5. CASE Settleable(o) /\ Earns(h, o)
  BY <1>1, <1>2, <1>5 DEF SettlePaymentOrder, Settleable, ShareLogged
<1> QED
  BY <1>3, <1>4, <1>5

\* SettlePaymentOrder keeps the types.
LEMMA SettleTypes ==
    ASSUME TypeOK, UnderWay, NEW h \in Handlers, SettlePaymentOrder(h)
    PROVE  TypeOK'
<1> DEFINE t == handler[h].trade
           o == OrderOf[t]
           u == UserOf[o]
           i == InviterOf[u]
           paid == AddCents(user, u, Amount)
           log == Logged(balanceLog, u, Amount)
<1>1. t \in Trades /\ o \in Orders /\ u \in Users
  BY SettleCases
<1>2. Amount \in Nat /\ Commission \in Nat
  BY Constants
<1>3. user \in [Users -> UserRow] /\ balanceLog \in [Users -> Int]
  BY DEF TypeOK
<1>4. \/ UNCHANGED <<user, balanceLog, order, share>>
      \/ /\ order' = [order EXCEPT ![o] = [status |-> "paid", trade |-> t]]
         /\ user' = paid /\ balanceLog' = log /\ share' = share
      \/ /\ i \in Users
         /\ order' = [order EXCEPT ![o] = [status |-> "paid", trade |-> t]]
         /\ user' = AddCents(paid, i, Commission) /\ balanceLog' = Logged(log, i, Commission)
         /\ share' = [share EXCEPT ![u] = [order |-> o, inviter |-> i]]
  BY SettleCases
<1> HIDE DEF t, o, u, i
<1>5. user[u].cents + Amount \in Nat
  BY <1>1, <1>2, <1>3 DEF UserRow
<1>6. paid \in [Users -> UserRow]
  BY <1>1, <1>2, <1>3, <1>5, AddedMoney
<1>7. log \in [Users -> Int]
  BY <1>1, <1>2, <1>3 DEF Logged
<1> HIDE DEF paid, log
<1>8. i \in Users => paid[i].cents + Commission \in Nat
  BY <1>2, <1>6 DEF UserRow
<1>9. i \in Users => AddCents(paid, i, Commission) \in [Users -> UserRow]
  BY <1>2, <1>6, <1>8, AddedMoney
<1>10. i \in Users => Logged(log, i, Commission) \in [Users -> Int]
  BY <1>2, <1>7, LoggedSum
<1>11. user' \in [Users -> UserRow] /\ balanceLog' \in [Users -> Int]
  BY <1>3, <1>4, <1>6, <1>7, <1>9, <1>10
<1>12. [status |-> "paid", trade |-> t] \in OrderRow /\ (i \in Users => [order |-> o, inviter |-> i] \in ShareRow)
  BY <1>1 DEF OrderRow, ShareRow
<1>13. order' \in [Orders -> OrderRow] /\ share' \in [Users -> ShareRow]
  BY <1>4, <1>12 DEF TypeOK
<1>14. handler' \in [Handlers -> HandlerRow]
  BY DEF SettlePaymentOrder, Idle, HandlerRow, TypeOK
<1>15. UNCHANGED <<creditLog, adjustLog, spent, referral, gifts, admin>>
  BY DEF SettlePaymentOrder, money
<1> QED
  BY <1>11, <1>13, <1>14, <1>15 DEF TypeOK, gifts, admin

\* The other steps of recharges, gifts and exchanges keep the types.
LEMMA UserTypes ==
    ASSUME TypeOK, NEW u \in Users, User(u)
    PROVE  TypeOK'
<1>1. user \in [Users -> UserRow] /\ creditLog \in [Users -> Int] /\ balanceLog \in [Users -> Int]
  BY DEF TypeOK
<1>2. user[u].cents \in Nat
  BY <1>1 DEF UserRow
<1>3. CodeCredits \in Int /\ Reward \in Int /\ Rate \in Int
  BY Constants
<1>4. \A n \in Int : /\ AddCredits(user, u, n) \in [Users -> UserRow]
                      /\ Logged(creditLog, u, n) \in [Users -> Int]
                      /\ Logged(balanceLog, u, n) \in [Users -> Int]
  BY <1>1, AddedMoney, LoggedSum
<1>5. CASE ExchangeBalance(u)
  <2> DEFINE n == -1
  <2>6. n \in Int /\ user[u].cents + n \in Nat
    BY <1>2, <1>5 DEF ExchangeBalance, Affordable
  <2> HIDE DEF n
  <2>7. AddCents(user, u, n) \in [Users -> UserRow]
    BY <1>1, <2>6, AddedMoney
  <2>1. AddCents(user, u, -1) \in [Users -> UserRow]
    BY <2>7 DEF n
  <2>2. user' \in [Users -> UserRow]
    BY <1>3, <1>5, <2>1, AddedMoney DEF ExchangeBalance
  <2>3. spent' \in [Users -> Nat]
    BY <1>5 DEF ExchangeBalance, TypeOK
  <2>4. balanceLog' \in [Users -> Int] /\ creditLog' \in [Users -> Int]
    BY <1>3, <1>4, <1>5 DEF ExchangeBalance
  <2>5. UNCHANGED <<adjustLog, order, share, referral, handler, gifts, admin>>
    BY <1>5 DEF ExchangeBalance
  <2> QED
    BY <2>2, <2>3, <2>4, <2>5 DEF TypeOK, gifts, admin
<1>6. ASSUME NEW c \in Codes, RedeemRedemptionCode(u, c)
      PROVE  TypeOK'
  <2>1. code' \in [Codes -> CodeRow]
    BY <1>6 DEF RedeemRedemptionCode, TypeOK, CodeRow
  <2>2. user' \in [Users -> UserRow] /\ creditLog' \in [Users -> Int]
    BY <1>3, <1>4, <1>6 DEF RedeemRedemptionCode
  <2>3. UNCHANGED <<balanceLog, adjustLog, shop, checkIns, checking, today, admin>>
    BY <1>6 DEF RedeemRedemptionCode
  <2> QED
    BY <2>1, <2>2, <2>3 DEF TypeOK, shop, admin
<1>7. CASE HasNoCheckIn(u)
  <2>1. today \in 1..Days
    BY <1>7, WalletAssumption DEF HasNoCheckIn, TypeOK, WalletAssumption
  <2> QED
    BY <1>7, <2>1 DEF HasNoCheckIn, TypeOK, money, shop, admin
<1>8. ASSUME NEW d \in 1..Days, CreateCheckIn(u, d)
      PROVE  TypeOK'
  <2>1. user' \in [Users -> UserRow] /\ creditLog' \in [Users -> Int]
    BY <1>3, <1>4, <1>8 DEF CreateCheckIn
  <2>2. checkIns' \subseteq Users \X (1..Days)
    BY <1>8 DEF CreateCheckIn, TypeOK
  <2>3. UNCHANGED <<balanceLog, adjustLog, shop, code, checking, today, admin>>
    BY <1>8 DEF CreateCheckIn
  <2> QED
    BY <2>1, <2>2, <2>3 DEF TypeOK, shop, admin
<1>9. CASE UpdateUserPassword(u)
  <2>1. [user[u] EXCEPT !.version = @ + 1] \in UserRow
    BY <1>1 DEF UserRow
  <2>2. user' \in [Users -> UserRow]
    BY <1>1, <1>9, <2>1 DEF UpdateUserPassword
  <2> QED
    BY <1>9, <2>2 DEF UpdateUserPassword, TypeOK, shop, gifts, admin
<1> QED
  BY <1>5, <1>6, <1>7, <1>8, <1>9 DEF User

\* What an edit reads and writes has the type of a user.
LEMMA AdministratorTypes ==
    ASSUME TypeOK, UnderWay, Administrator
    PROVE  TypeOK'
<1>1. user \in [Users -> UserRow] /\ edit \in EditRow
  BY DEF TypeOK
<1>2. NoEdit \in EditRow
  BY DEF NoEdit, NewUser, EditRow, UserRow
<1>3. edits \in 0..MaxEdits /\ MaxEdits \in Nat
  BY WalletAssumption DEF TypeOK, WalletAssumption
<1>4. CASE SwitchReferral
  BY <1>3, <1>4 DEF SwitchReferral, TypeOK, money, gifts
<1>5. ASSUME NEW c \in Codes, DeleteRedemptionCodes(c)
      PROVE  TypeOK'
  <2>1. code' \in [Codes -> CodeRow]
    BY <1>5 DEF DeleteRedemptionCodes, TypeOK, CodeRow
  <2> QED
    BY <1>5, <2>1 DEF DeleteRedemptionCodes, TypeOK, money, shop, admin
<1>6. ASSUME NEW u \in Users, ReadUser(u)
      PROVE  TypeOK'
  <2>1. edits' \in 0..MaxEdits
    BY <1>3, <1>6 DEF ReadUser
  <2>2. user[u] \in UserRow
    BY <1>1
  <2>3. \A n \in AdjustTo : n \in Int /\ [user[u] EXCEPT !.credits = n] \in UserRow
    BY <2>2, WalletAssumption DEF UserRow, WalletAssumption
  <2>4. [user[u] EXCEPT !.active = ~@] \in UserRow
    BY <2>2 DEF UserRow
  <2>5. user[u].credits \in Int
    BY <2>2 DEF UserRow
  <2>6. edit' \in EditRow
    BY <1>6, <2>3, <2>4, <2>5 DEF ReadUser, EditRow
  <2> QED
    BY <1>6, <2>1, <2>6 DEF ReadUser, TypeOK, money, shop, gifts
<1>7. CASE SaveUser
  <2> DEFINE u == edit.user
             b == edit.row.active # user[u].active
             row == [edit.row EXCEPT !.version = IF b THEN @ + 1 ELSE @]
  <2>1. edit.row \in UserRow
    BY <1>1 DEF EditRow
  <2> HIDE DEF b
  <2>2. row \in UserRow
    BY <2>1 DEF UserRow
  <2> USE DEF b
  <2>3. user' = user \/ user' = [user EXCEPT ![u] = row]
    BY <1>7 DEF SaveUser
  <2> HIDE DEF row
  <2>4. user' \in [Users -> UserRow]
    BY <1>1, <2>2, <2>3
  <2>5. [edit EXCEPT !.step = "log"] \in EditRow
    BY <1>1 DEF EditRow
  <2>6. edit' \in EditRow
    BY <1>2, <1>7, <2>5 DEF SaveUser
  <2> QED
    BY <1>7, <2>4, <2>6 DEF SaveUser, TypeOK, shop, gifts
<1>8. CASE SaveCreditLog
  <2>1. edit.user \in Users /\ edit.amount \in Int
    BY <1>1, <1>8 DEF SaveCreditLog, UnderWay, EditRow
  <2>2. adjustLog' \in [Users -> Int]
    BY <1>8, <2>1, LoggedSum DEF SaveCreditLog, TypeOK
  <2> QED
    BY <1>2, <1>8, <2>2 DEF SaveCreditLog, TypeOK, shop, gifts
<1>9. CASE Stop
  BY <1>2, <1>9 DEF Stop, TypeOK, money, shop, gifts
<1> QED
  BY <1>4, <1>5, <1>6, <1>7, <1>8, <1>9 DEF Administrator

\* What the steps under way know stays true.
LEMMA UnderWayStep ==
    ASSUME TypeOK, UnderWay, Next
    PROVE  UnderWay'
<1>1. handler \in [Handlers -> HandlerRow]
  BY DEF TypeOK
<1>2. UNCHANGED <<handler, edit>> => UnderWay'
  BY DEF UnderWay, Payer
<1>3. ASSUME NEW h \in Handlers, Handler(h)
      PROVE  UnderWay'
  <2>1. edit' = edit
    BY <1>3 DEF Handler, Receive, Verify, SettlePaymentOrder, Abandon, admin
  <2>2. \A g \in Handlers \ {h} : handler'[g] = handler[g]
    BY <1>1, <1>3 DEF Handler, Receive, Verify, SettlePaymentOrder, Abandon
  <2>3. CASE \E t \in Trades : Receive(h, t)
    BY <1>1, <2>1, <2>2, <2>3 DEF Receive, UnderWay, Payer, Idle, HandlerRow
  <2>4. CASE Verify(h)
    <3> DEFINE c == referral /\ InviterOf[Payer(h)] \notin {None, Payer(h)}
    <3>1. handler[h].trade \in Trades
      BY <2>4 DEF Verify, UnderWay
    <3>2. handler' = [handler EXCEPT ![h] = [handler[h] EXCEPT !.step = "settling", !.commission = c]]
      BY <1>1, <2>4 DEF Verify, Payer, HandlerRow
    <3>3. c => InviterOf[Payer(h)] \in Users \ {Payer(h)}
      BY <3>1, Constants, WalletAssumption DEF Payer, WalletAssumption
    <3> HIDE DEF c
    <3>4. handler'[h].trade = handler[h].trade /\ handler'[h].step = "settling" /\ handler'[h].commission = c
      BY <1>1, <3>2 DEF HandlerRow
    <3> QED
      BY <2>1, <2>2, <3>1, <3>3, <3>4 DEF UnderWay, Payer
  <2>5. CASE SettlePaymentOrder(h) \/ Abandon(h)
    <3>1. handler'[h] = Idle
      BY <1>1, <2>5 DEF SettlePaymentOrder, Abandon
    <3> QED
      BY <2>1, <2>2, <3>1 DEF UnderWay, Payer, Idle
  <2> QED
    BY <1>3, <2>3, <2>4, <2>5 DEF Handler
<1>4. ASSUME Administrator PROVE UnderWay'
  <2>1. handler' = handler
    BY <1>4 DEF Administrator, SwitchReferral, DeleteRedemptionCodes, ReadUser, SaveUser,
                SaveCreditLog, Stop, shop
  <2>2. edit' = edit \/ edit' = NoEdit \/ edit'.user \in Users
    <3>1. edit \in EditRow
      BY DEF TypeOK
    <3> QED
      BY <1>4, <3>1 DEF Administrator, SwitchReferral, DeleteRedemptionCodes, ReadUser, SaveUser,
                        SaveCreditLog, Stop, admin, UnderWay, EditRow
  <2> QED
    BY <2>1, <2>2 DEF UnderWay, Payer, NoEdit
<1>5. CASE \E o \in Orders : CreatePaymentOrder(o)
  BY <1>2, <1>5 DEF CreatePaymentOrder, admin
<1>6. CASE \E u \in Users : User(u)
  BY <1>2, <1>6 DEF User, ExchangeBalance, RedeemRedemptionCode, HasNoCheckIn, CreateCheckIn,
                    UpdateUserPassword, admin, shop
<1>7. CASE NextDay
  BY <1>2, <1>7 DEF NextDay, admin, shop
<1> QED
  BY <1>3, <1>4, <1>5, <1>6, <1>7 DEF Next

\* Every step keeps the types.
LEMMA TypeStep ==
    ASSUME TypeOK, UnderWay, Next
    PROVE  TypeOK'
<1>1. ASSUME NEW o \in Orders, CreatePaymentOrder(o)
      PROVE  TypeOK'
  BY <1>1 DEF CreatePaymentOrder, TypeOK, OrderRow, money, gifts, admin
<1>2. ASSUME NEW h \in Handlers, Handler(h)
      PROVE  TypeOK'
  <2>1. ASSUME NEW t \in Trades, Receive(h, t)
        PROVE  TypeOK'
    BY <2>1 DEF Receive, TypeOK, HandlerRow, Idle, money, gifts, admin
  <2>2. CASE Verify(h)
    <3>1. handler' \in [Handlers -> HandlerRow]
      BY <2>2 DEF Verify, TypeOK, HandlerRow
    <3> QED
      BY <2>2, <3>1 DEF Verify, TypeOK, money, gifts, admin
  <2>3. CASE Abandon(h)
    BY <2>3 DEF Abandon, TypeOK, HandlerRow, Idle, money, gifts, admin
  <2> QED
    BY <1>2, <2>1, <2>2, <2>3, SettleTypes DEF Handler
<1>3. CASE NextDay
  BY <1>3, WalletAssumption DEF NextDay, TypeOK, WalletAssumption, money, shop, admin
<1> QED
  BY <1>1, <1>2, <1>3, UserTypes, AdministratorTypes DEF Next

\* Users, orders, shares, logs, codes and the work under way keep their types.
THEOREM TypeCorrect == Spec => [](TypeOK /\ UnderWay)
<1>1. Init => TypeOK /\ UnderWay
  BY WalletAssumption DEF Init, TypeOK, UnderWay, Payer, WalletAssumption, UserRow, OrderRow,
     ShareRow, CodeRow, HandlerRow, EditRow, NewUser, NoShare, Idle, NoEdit
<1>2. TypeOK /\ UnderWay /\ [Next]_vars => (TypeOK /\ UnderWay)'
  <2>1. UNCHANGED vars /\ TypeOK /\ UnderWay => (TypeOK /\ UnderWay)'
    BY DEF vars, money, shop, gifts, admin, TypeOK, UnderWay, Payer
  <2> QED
    BY <2>1, TypeStep, UnderWayStep
<1> QED
  BY <1>1, <1>2, PTL DEF Spec

-----------------------------------------------------------------------------
(***************************************************************************)
(* Money is earned and logged once.                                        *)
(***************************************************************************)

NoOverlap == Env \cap {"overlap", "crash"} = {}

\* Without an overlap an administrator's edit changes the credits alone, by the
\* amount that is logged next.
LEMMA EditWrites ==
    ASSUME NoOverlap, TypeOK, UnderWay, SaveUser
    PROVE  \A u \in Users :
              /\ user'[u].cents = user[u].cents
              /\ user'[u].credits - user[u].credits =
                    IF edit'.step = "log" /\ edit'.user = u THEN edit'.amount ELSE 0
<1> DEFINE u == edit.user
           b == edit.row.active # user[u].active
           row == [edit.row EXCEPT !.version = IF b THEN @ + 1 ELSE @]
<1>1. user \in [Users -> UserRow] /\ edit \in EditRow /\ u \in Users
  BY DEF TypeOK, SaveUser, UnderWay
<1>2. edit.row \in UserRow /\ edit.amount \in Int
  BY <1>1 DEF EditRow
<1>3. user[u].cents = edit.row.cents /\ user[u].credits = edit.row.credits - edit.amount
  BY DEF SaveUser, Overlapped, NoOverlap
<1>4. \/ user' = user /\ edit' = NoEdit
      \/ user' = [user EXCEPT ![u] = row] /\ edit.amount = 0 /\ edit' = NoEdit
      \/ user' = [user EXCEPT ![u] = row] /\ edit' = [edit EXCEPT !.step = "log"]
  BY DEF SaveUser
<1> HIDE DEF b
<1>5. row.cents = edit.row.cents /\ row.credits = edit.row.credits
  BY <1>2 DEF UserRow
<1>6. [edit EXCEPT !.step = "log"].step = "log" /\ [edit EXCEPT !.step = "log"].user = u
      /\ [edit EXCEPT !.step = "log"].amount = edit.amount
  BY <1>1 DEF EditRow
<1>7. \A v \in Users : user[v].credits \in Int /\ user[v].cents \in Nat
  BY <1>1 DEF UserRow
<1>8. edit.row.credits \in Int
  BY <1>2 DEF UserRow
<1> HIDE DEF row, u
<1>9. CASE user' = user /\ edit' = NoEdit
  BY <1>7, <1>9 DEF NoEdit
<1>10. CASE user' = [user EXCEPT ![u] = row] /\ edit.amount = 0 /\ edit' = NoEdit
  BY <1>1, <1>2, <1>3, <1>5, <1>7, <1>8, <1>10 DEF NoEdit
<1>11. CASE user' = [user EXCEPT ![u] = row] /\ edit' = [edit EXCEPT !.step = "log"]
  BY <1>1, <1>2, <1>3, <1>5, <1>6, <1>7, <1>8, <1>11
<1> QED
  BY <1>4, <1>9, <1>10, <1>11

\* A settlement adds the same amounts to the balances and to their log.
LEMMA SettleLedger ==
    ASSUME TypeOK, UnderWay, Ledger, NEW h \in Handlers, SettlePaymentOrder(h)
    PROVE  Ledger'
<1> DEFINE t == handler[h].trade
           o == OrderOf[t]
           u == UserOf[o]
           i == InviterOf[u]
           paid == AddCents(user, u, Amount)
           log == Logged(balanceLog, u, Amount)
<1>1. u \in Users
  BY SettleCases
<1>2. Amount \in Int /\ Commission \in Int /\ Amount \in Nat
  BY Constants
<1>3. user \in [Users -> UserRow] /\ balanceLog \in [Users -> Int]
  BY DEF TypeOK
<1>4. \/ UNCHANGED <<user, balanceLog>>
      \/ user' = paid /\ balanceLog' = log
      \/ i \in Users /\ user' = AddCents(paid, i, Commission) /\ balanceLog' = Logged(log, i, Commission)
  BY SettleCases
<1>5. UNCHANGED <<creditLog, adjustLog, edit>>
  BY DEF SettlePaymentOrder, money, admin
<1> HIDE DEF u, i
<1>6. user[u].cents + Amount \in Nat
  BY <1>1, <1>2, <1>3 DEF UserRow
<1>7. paid \in [Users -> UserRow]
  BY <1>1, <1>2, <1>3, <1>6, AddedMoney
<1>8. log \in [Users -> Int]
  BY <1>1, <1>2, <1>3 DEF Logged
<1>9. \A v \in Users : paid[v].cents = log[v] /\ paid[v].credits = user[v].credits
  BY <1>1, <1>2, <1>3, AddedMoney DEF Logged, Ledger
<1> HIDE DEF paid, log
<1>10. i \in Users =>
        \A v \in Users : /\ AddCents(paid, i, Commission)[v].cents = Logged(log, i, Commission)[v]
                        /\ AddCents(paid, i, Commission)[v].credits = paid[v].credits
  BY <1>2, <1>7, <1>8, <1>9, AddedMoney DEF Logged
<1>11. \A v \in Users : user'[v].cents = balanceLog'[v] /\ user'[v].credits = user[v].credits
  BY <1>4, <1>9, <1>10 DEF Ledger
<1> QED
  BY <1>5, <1>11 DEF Ledger, Unlogged

LEMMA UserLedger ==
    ASSUME TypeOK, Ledger, NEW u \in Users, User(u)
    PROVE  Ledger'
<1>1. /\ user \in [Users -> UserRow] /\ creditLog \in [Users -> Int] /\ adjustLog \in [Users -> Int]
      /\ balanceLog \in [Users -> Int] /\ edit \in EditRow
  BY DEF TypeOK
<1>2. \A v \in Users : Unlogged(v) \in Int
  BY <1>1 DEF Unlogged, EditRow
<1>3. \A v \in Users : user[v].credits \in Int /\ user[v].cents \in Nat
  BY <1>1 DEF UserRow
<1>4. CodeCredits \in Int /\ Reward \in Int /\ Rate \in Int
  BY Constants
\* Credits with their log.
<1>5. ASSUME NEW n \in Int, user' = AddCredits(user, u, n), creditLog' = Logged(creditLog, u, n),
             UNCHANGED <<balanceLog, adjustLog, edit>>
      PROVE  Ledger'
  <2>1. \A v \in Users : /\ user'[v].cents = user[v].cents
                         /\ user'[v].credits = IF v = u THEN user[v].credits + n ELSE user[v].credits
    BY <1>1, <1>5, AddedMoney
  <2>2. \A v \in Users : creditLog'[v] = IF v = u THEN creditLog[v] + n ELSE creditLog[v]
    BY <1>1, <1>5 DEF Logged
  <2>3. \A v \in Users : Unlogged(v)' = Unlogged(v)
    BY <1>5 DEF Unlogged
  <2>4. \A v \in Users : creditLog[v] \in Int /\ adjustLog[v] \in Int
    BY <1>1
  <2> QED
    BY <1>2, <1>3, <1>5, <2>1, <2>2, <2>3, <2>4 DEF Ledger
<1>6. CASE ExchangeBalance(u)
  <2> DEFINE n == -1
             mid == AddCents(user, u, n)
  <2>1. n \in Int /\ user[u].cents + n \in Nat
    BY <1>3, <1>6 DEF ExchangeBalance, Affordable
  <2>2. user' = AddCredits(mid, u, Rate) /\ balanceLog' = Logged(balanceLog, u, n)
        /\ creditLog' = Logged(creditLog, u, Rate) /\ UNCHANGED <<adjustLog, edit>>
    BY <1>6 DEF ExchangeBalance, admin
  <2> HIDE DEF n
  <2>3. mid \in [Users -> UserRow]
    BY <1>1, <2>1, AddedMoney
  <2>4. \A v \in Users : /\ mid[v].cents = IF v = u THEN user[v].cents + n ELSE user[v].cents
                         /\ mid[v].credits = user[v].credits
    BY <1>1, <2>1, AddedMoney
  <2> HIDE DEF mid
  <2>5. \A v \in Users : /\ user'[v].cents = mid[v].cents
                         /\ user'[v].credits = IF v = u THEN mid[v].credits + Rate ELSE mid[v].credits
    BY <1>4, <2>2, <2>3, AddedMoney
  <2>6. \A v \in Users : /\ balanceLog'[v] = IF v = u THEN balanceLog[v] + n ELSE balanceLog[v]
                         /\ creditLog'[v] = IF v = u THEN creditLog[v] + Rate ELSE creditLog[v]
    BY <1>1, <1>4, <2>1, <2>2 DEF Logged
  <2>7. \A v \in Users : Unlogged(v)' = Unlogged(v)
    BY <2>2 DEF Unlogged
  <2>8. \A v \in Users : creditLog[v] \in Int /\ adjustLog[v] \in Int
    BY <1>1
  <2> QED
    BY <1>2, <1>3, <1>4, <2>1, <2>2, <2>4, <2>5, <2>6, <2>7, <2>8 DEF Ledger
<1>7. ASSUME NEW c \in Codes, RedeemRedemptionCode(u, c) PROVE Ledger'
  BY <1>4, <1>5, <1>7 DEF RedeemRedemptionCode, admin
<1>8. ASSUME NEW d \in 1..Days, CreateCheckIn(u, d) PROVE Ledger'
  BY <1>4, <1>5, <1>8 DEF CreateCheckIn, admin
<1>9. CASE HasNoCheckIn(u)
  BY <1>9 DEF HasNoCheckIn, Ledger, Unlogged, money, admin
<1>10. CASE UpdateUserPassword(u)
  <2>1. \A v \in Users : user'[v].cents = user[v].cents /\ user'[v].credits = user[v].credits
    BY <1>1, <1>10 DEF UpdateUserPassword, UserRow
  <2> QED
    BY <1>10, <2>1 DEF UpdateUserPassword, Ledger, Unlogged, admin
<1> QED
  BY <1>6, <1>7, <1>8, <1>9, <1>10 DEF User

LEMMA AdministratorLedger ==
    ASSUME NoOverlap, TypeOK, UnderWay, Ledger, Administrator
    PROVE  Ledger'
<1>1. /\ user \in [Users -> UserRow] /\ creditLog \in [Users -> Int] /\ adjustLog \in [Users -> Int]
      /\ edit \in EditRow
  BY DEF TypeOK
<1>2. \A v \in Users : user[v].credits \in Int /\ creditLog[v] \in Int /\ adjustLog[v] \in Int
  BY <1>1 DEF UserRow
<1>3. CASE SwitchReferral \/ \E c \in Codes : DeleteRedemptionCodes(c)
  BY <1>3 DEF SwitchReferral, DeleteRedemptionCodes, Ledger, Unlogged, money, admin
<1>4. CASE \E u \in Users : ReadUser(u)
  <2>1. edit.step = "idle" /\ edit'.step = "read" /\ UNCHANGED money
    BY <1>4 DEF ReadUser
  <2> QED
    BY <2>1 DEF Ledger, Unlogged, money
<1>5. CASE SaveUser
  <2>1. \A v \in Users : Unlogged(v) = 0
    BY <1>5 DEF SaveUser, Unlogged
  <2>2. edit' \in EditRow
    BY AdministratorTypes DEF TypeOK
  <2>3. \A v \in Users : Unlogged(v)' = user'[v].credits - user[v].credits
    BY <1>5, EditWrites DEF Unlogged
  <2>4. \A v \in Users : user'[v].credits \in Int
    BY AdministratorTypes DEF TypeOK, UserRow
  <2>5. UNCHANGED <<balanceLog, creditLog, adjustLog>>
    BY <1>5 DEF SaveUser
  <2> QED
    BY <1>2, <1>5, <2>1, <2>3, <2>4, <2>5, EditWrites DEF Ledger
<1>6. CASE SaveCreditLog
  <2>1. edit.user \in Users /\ edit.amount \in Int
    BY <1>1, <1>6 DEF SaveCreditLog, UnderWay, EditRow
  <2>2. \A v \in Users : adjustLog'[v] = adjustLog[v] + Unlogged(v)
    BY <1>1, <1>2, <1>6, <2>1, LoggedSum DEF SaveCreditLog, Unlogged
  <2>3. \A v \in Users : Unlogged(v)' = 0
    BY <1>6 DEF SaveCreditLog, Unlogged, NoEdit
  <2>4. \A v \in Users : Unlogged(v) \in Int
    BY <2>1 DEF Unlogged
  <2>5. UNCHANGED <<user, balanceLog, creditLog>>
    BY <1>6 DEF SaveCreditLog
  <2> QED
    BY <1>2, <2>2, <2>3, <2>4, <2>5 DEF Ledger
<1>7. CASE Stop
  <2>1. edit.step = "read" /\ edit' = NoEdit /\ UNCHANGED money
    BY <1>7 DEF Stop, NoOverlap
  <2> QED
    BY <2>1 DEF Ledger, Unlogged, NoEdit, money
<1> QED
  BY <1>3, <1>4, <1>5, <1>6, <1>7 DEF Administrator

\* Unless a transaction overlaps the edit of an administrator, or the process
\* stops before its log, balances and credits are the sums of their logs.
THEOREM LedgerKept ==
    ASSUME NoOverlap
    PROVE  Spec => []Ledger
<1>1. Init => Ledger
  BY DEF Init, Ledger, Unlogged, NewUser, NoEdit
<1>2. TypeOK /\ UnderWay /\ Ledger /\ [Next]_vars => Ledger'
  <2> SUFFICES ASSUME TypeOK, UnderWay, Ledger, [Next]_vars PROVE Ledger'
    OBVIOUS
  <2>1. CASE UNCHANGED <<user, balanceLog, creditLog, adjustLog, edit>>
    BY <2>1 DEF Ledger, Unlogged
  <2>2. CASE \E h \in Handlers : Handler(h)
    BY <2>1, <2>2, SettleLedger DEF Handler, Receive, Verify, Abandon, money, admin
  <2> QED
    BY <2>1, <2>2, UserLedger, AdministratorLedger
       DEF Next, CreatePaymentOrder, NextDay, vars, money, admin
<1> QED
  BY <1>1, <1>2, TypeCorrect, PTL DEF Spec

-----------------------------------------------------------------------------
(***************************************************************************)
(* The balance is earned, and commissions are for first orders.            *)
(***************************************************************************)

\* The orders and shares that count are finitely many.
LEMMA FiniteEarnings ==
    \A u \in Users : /\ IsFiniteSet(PaidOrders(u)) /\ Cardinality(PaidOrders(u)) \in Nat
                     /\ IsFiniteSet(SharesOf(u)) /\ Cardinality(SharesOf(u)) \in Nat
<1> SUFFICES ASSUME NEW u \in Users
             PROVE  /\ IsFiniteSet(PaidOrders(u)) /\ Cardinality(PaidOrders(u)) \in Nat
                    /\ IsFiniteSet(SharesOf(u)) /\ Cardinality(SharesOf(u)) \in Nat
  OBVIOUS
<1>1. PaidOrders(u) \subseteq Orders /\ SharesOf(u) \subseteq Users
  BY DEF PaidOrders, SharesOf
<1>2. IsFiniteSet(Orders) /\ IsFiniteSet(Users)
  BY WalletAssumption DEF WalletAssumption
<1> QED
  BY <1>1, <1>2, FS_Subset, FS_CardinalityType

\* A step that leaves balances, orders, shares and what was spent alone.
EarningsUntouched ==
    /\ \A u \in Users : user'[u].cents = user[u].cents
    /\ \A o \in Orders : order'[o].status = "paid" <=> order[o].status = "paid"
    /\ share' = share /\ spent' = spent

LEMMA UntouchedEarnings ==
    ASSUME BalanceEarned, EarningsUntouched
    PROVE  BalanceEarned'
<1>1. \A u \in Users : PaidOrders(u)' = PaidOrders(u) /\ SharesOf(u)' = SharesOf(u)
  BY DEF EarningsUntouched, PaidOrders, SharesOf
<1> QED
  BY <1>1 DEF EarningsUntouched, BalanceEarned

\* The orders and shares of each user after a settlement.
LEMMA SettledOrders ==
    ASSUME TypeOK, NEW o \in Orders, NEW t \in Trades, order[o].status = "pending",
           order' = [order EXCEPT ![o] = [status |-> "paid", trade |-> t]]
    PROVE  \A v \in Users : Cardinality(PaidOrders(v)') =
                            IF v = UserOf[o] THEN Cardinality(PaidOrders(v)) + 1
                            ELSE Cardinality(PaidOrders(v))
<1> SUFFICES ASSUME NEW v \in Users
             PROVE  Cardinality(PaidOrders(v)') =
                            IF v = UserOf[o] THEN Cardinality(PaidOrders(v)) + 1
                            ELSE Cardinality(PaidOrders(v))
  OBVIOUS
<1>1. order \in [Orders -> OrderRow]
  BY DEF TypeOK
<1>2. o \notin PaidOrders(v)
  BY DEF PaidOrders
<1>3. CASE v = UserOf[o]
  <2>1. PaidOrders(v)' = PaidOrders(v) \cup {o}
    BY <1>1, <1>3 DEF PaidOrders
  <2> QED
    BY <1>2, <1>3, <2>1, FiniteEarnings, FS_AddElement
<1>4. CASE v # UserOf[o]
  <2>1. PaidOrders(v)' = PaidOrders(v)
    BY <1>1, <1>4 DEF PaidOrders
  <2> QED
    BY <1>4, <2>1
<1> QED
  BY <1>3, <1>4

LEMMA SettledShares ==
    ASSUME TypeOK, NEW u \in Users, NEW i \in Users, NEW o \in Orders, share[u] = NoShare,
           share' = [share EXCEPT ![u] = [order |-> o, inviter |-> i]]
    PROVE  \A v \in Users : Cardinality(SharesOf(v)') =
                            IF v = i THEN Cardinality(SharesOf(v)) + 1 ELSE Cardinality(SharesOf(v))
<1> SUFFICES ASSUME NEW v \in Users
             PROVE  Cardinality(SharesOf(v)') =
                            IF v = i THEN Cardinality(SharesOf(v)) + 1 ELSE Cardinality(SharesOf(v))
  OBVIOUS
<1>1. share \in [Users -> ShareRow] /\ None \notin Users
  BY Constants DEF TypeOK
<1>2. u \notin SharesOf(v)
  BY <1>1 DEF SharesOf, NoShare
<1>3. CASE v = i
  <2>1. SharesOf(v)' = SharesOf(v) \cup {u}
    BY <1>1, <1>3 DEF SharesOf
  <2> QED
    BY <1>2, <1>3, <2>1, FiniteEarnings, FS_AddElement
<1>4. CASE v # i
  <2>1. SharesOf(v)' = SharesOf(v)
    BY <1>1, <1>2, <1>4 DEF SharesOf
  <2> QED
    BY <1>4, <2>1
<1> QED
  BY <1>3, <1>4

\* One unit more of what counts adds its amount.
LEMMA Once ==
    ASSUME NEW c \in Nat, NEW n \in Nat
    PROVE  c * (n + 1) = c * n + c /\ c * n \in Nat
OBVIOUS

LEMMA SettleEarns ==
    ASSUME TypeOK, UnderWay, BalanceEarned, NEW h \in Handlers, SettlePaymentOrder(h)
    PROVE  BalanceEarned'
<1> DEFINE t == handler[h].trade
           o == OrderOf[t]
           u == UserOf[o]
           i == InviterOf[u]
           paid == AddCents(user, u, Amount)
           P(v) == Amount * Cardinality(PaidOrders(v))
           S(v) == Commission * Cardinality(SharesOf(v))
<1>1. t \in Trades /\ o \in Orders /\ u \in Users
  BY SettleCases
<1>2. Amount \in Nat /\ Commission \in Nat /\ Amount \in Int /\ Commission \in Int
  BY Constants
<1>3. user \in [Users -> UserRow] /\ spent \in [Users -> Nat] /\ spent' = spent
  BY DEF TypeOK, SettlePaymentOrder
<1>4. \/ UNCHANGED <<user, order, share>>
      \/ /\ order[o].status = "pending"
         /\ order' = [order EXCEPT ![o] = [status |-> "paid", trade |-> t]]
         /\ user' = paid /\ share' = share
      \/ /\ order[o].status = "pending" /\ Earns(h, o) /\ i \in Users
         /\ order' = [order EXCEPT ![o] = [status |-> "paid", trade |-> t]]
         /\ user' = AddCents(paid, i, Commission)
         /\ share' = [share EXCEPT ![u] = [order |-> o, inviter |-> i]]
  BY SettleCases
<1>5. Earns(h, o) => share[u] = NoShare
  BY DEF Earns
<1> HIDE DEF t, i
<1>6. \A v \in Users : /\ Cardinality(PaidOrders(v)) \in Nat /\ Cardinality(SharesOf(v)) \in Nat
                       /\ spent[v] \in Nat /\ user[v].cents \in Nat
                       /\ user[v].cents = P(v) + S(v) - spent[v]
  BY <1>3, FiniteEarnings DEF BalanceEarned, UserRow
<1>7. \A v \in Users : P(v) \in Nat /\ S(v) \in Nat
  BY <1>2, <1>6, Once
<1>8. user[u].cents + Amount \in Nat
  BY <1>1, <1>2, <1>6
<1>9. /\ paid \in [Users -> UserRow]
      /\ \A v \in Users : paid[v].cents = IF v = u THEN user[v].cents + Amount ELSE user[v].cents
  <2> HIDE DEF o, u
  <2>1. u \in Users /\ Amount \in Int
    BY <1>1, <1>2
  <2> QED
    BY <1>3, <1>8, <2>1, AddedMoney
<1> HIDE DEF paid
<1>10. i \in Users => \A v \in Users : AddCents(paid, i, Commission)[v].cents =
                             IF v = i THEN paid[v].cents + Commission ELSE paid[v].cents
  BY <1>2, <1>9, AddedMoney
<1>11. order[o].status = "pending" /\ order' = [order EXCEPT ![o] = [status |-> "paid", trade |-> t]] =>
          \A v \in Users : P(v)' = IF v = u THEN P(v) + Amount ELSE P(v)
  <2> SUFFICES ASSUME order[o].status = "pending",
                      order' = [order EXCEPT ![o] = [status |-> "paid", trade |-> t]],
                      NEW v \in Users
               PROVE  P(v)' = IF v = u THEN P(v) + Amount ELSE P(v)
    OBVIOUS
  <2>1. Cardinality(PaidOrders(v)') = IF v = u THEN Cardinality(PaidOrders(v)) + 1
                                      ELSE Cardinality(PaidOrders(v))
    BY <1>1, SettledOrders
  <2> QED
    BY <1>2, <1>6, <2>1, Once
<1>12. i \in Users /\ share[u] = NoShare /\ share' = [share EXCEPT ![u] = [order |-> o, inviter |-> i]] =>
          \A v \in Users : S(v)' = IF v = i THEN S(v) + Commission ELSE S(v)
  <2> SUFFICES ASSUME i \in Users, share[u] = NoShare,
                      share' = [share EXCEPT ![u] = [order |-> o, inviter |-> i]],
                      NEW v \in Users
               PROVE  S(v)' = IF v = i THEN S(v) + Commission ELSE S(v)
    OBVIOUS
  <2>1. Cardinality(SharesOf(v)') = IF v = i THEN Cardinality(SharesOf(v)) + 1
                                    ELSE Cardinality(SharesOf(v))
    BY <1>1, SettledShares
  <2> QED
    BY <1>2, <1>6, <2>1, Once
<1>13. share' = share => \A v \in Users : S(v)' = S(v)
  BY DEF SharesOf
<1>14. \A v \in Users : user[v].cents = P(v) + S(v) - spent[v]
  BY <1>6
<1>15. CASE UNCHANGED <<user, order, share>>
  BY <1>3, <1>15, UntouchedEarnings DEF EarningsUntouched
<1> SUFFICES ASSUME ~UNCHANGED <<user, order, share>>, NEW v \in Users
             PROVE  user'[v].cents = P(v)' + S(v)' - spent'[v]
  BY <1>15 DEF BalanceEarned
<1> HIDE DEF P, S, u, o
<1>16. CASE user' = paid /\ share' = share
  BY <1>2, <1>3, <1>4, <1>6, <1>7, <1>9, <1>11, <1>13, <1>14, <1>16
<1>17. CASE ~(user' = paid /\ share' = share)
  <2>1. /\ i \in Users /\ user'[v].cents = IF v = i THEN paid[v].cents + Commission ELSE paid[v].cents
        /\ P(v)' = IF v = u THEN P(v) + Amount ELSE P(v)
        /\ S(v)' = IF v = i THEN S(v) + Commission ELSE S(v)
    BY <1>4, <1>5, <1>10, <1>11, <1>12, <1>17
  <2> QED
    BY <1>2, <1>3, <1>6, <1>7, <1>9, <1>14, <2>1
<1> QED
  BY <1>16, <1>17

LEMMA ExchangeEarns ==
    ASSUME TypeOK, BalanceEarned, NEW u \in Users, ExchangeBalance(u)
    PROVE  BalanceEarned'
<1> DEFINE n == -1
           mid == AddCents(user, u, n)
<1>1. user \in [Users -> UserRow] /\ spent \in [Users -> Nat] /\ Rate \in Int
  BY Constants DEF TypeOK
<1>2. n \in Int /\ user[u].cents + n \in Nat
  BY <1>1 DEF ExchangeBalance, Affordable, UserRow
<1>3. user' = AddCredits(mid, u, Rate) /\ spent' = [spent EXCEPT ![u] = @ + 1] /\ UNCHANGED <<order, share>>
  BY DEF ExchangeBalance
<1> HIDE DEF n
<1>4. \A v \in Users : mid[v].cents = IF v = u THEN user[v].cents + n ELSE user[v].cents
  BY <1>1, <1>2, AddedMoney
<1>11. mid \in [Users -> UserRow]
  BY <1>1, <1>2, AddedMoney
<1> HIDE DEF mid
<1>5. \A v \in Users : user'[v].cents = mid[v].cents
  BY <1>1, <1>3, <1>11 DEF AddCredits, UserRow
<1>6. \A v \in Users : PaidOrders(v)' = PaidOrders(v) /\ SharesOf(v)' = SharesOf(v)
  BY <1>3 DEF PaidOrders, SharesOf
<1>7. \A v \in Users : Amount * Cardinality(PaidOrders(v)) \in Nat /\ Commission * Cardinality(SharesOf(v)) \in Nat
  BY FiniteEarnings, Constants, Once
<1> SUFFICES ASSUME NEW v \in Users
             PROVE  user'[v].cents = Amount * Cardinality(PaidOrders(v))
                                       + Commission * Cardinality(SharesOf(v)) - spent'[v]
  BY <1>6 DEF BalanceEarned
<1>8. user[v].cents = Amount * Cardinality(PaidOrders(v)) + Commission * Cardinality(SharesOf(v)) - spent[v]
  BY DEF BalanceEarned
<1>9. spent[v] \in Nat /\ user[v].cents \in Nat
  BY <1>1 DEF UserRow
<1>10. spent'[v] = IF v = u THEN spent[v] + 1 ELSE spent[v]
  BY <1>1, <1>3
<1> QED
  BY <1>4, <1>5, <1>7, <1>8, <1>9, <1>10 DEF n

\* Unless a transaction overlaps the edit of an administrator, the balance is
\* what was paid for: every paid order and every commission once, less what was
\* exchanged.
THEOREM BalanceKept ==
    ASSUME NoOverlap
    PROVE  Spec => []BalanceEarned
<1>1. Init => BalanceEarned
  <2> SUFFICES ASSUME Init, NEW u \in Users
               PROVE  user[u].cents = Amount * Cardinality(PaidOrders(u))
                                        + Commission * Cardinality(SharesOf(u)) - spent[u]
    BY DEF BalanceEarned
  <2>1. PaidOrders(u) = {} /\ SharesOf(u) = {}
    BY Constants DEF Init, PaidOrders, SharesOf, NoShare
  <2>2. Cardinality(PaidOrders(u)) = 0 /\ Cardinality(SharesOf(u)) = 0
    BY <2>1, FS_EmptySet
  <2> QED
    BY <2>2, Constants DEF Init, NewUser
<1>2. TypeOK /\ UnderWay /\ BalanceEarned /\ [Next]_vars => BalanceEarned'
  <2> SUFFICES ASSUME TypeOK, UnderWay, BalanceEarned, [Next]_vars PROVE BalanceEarned'
    OBVIOUS
  <2>1. user \in [Users -> UserRow] /\ order \in [Orders -> OrderRow]
    BY DEF TypeOK
  <2>2. UNCHANGED <<user, order, share, spent>> => EarningsUntouched
    BY DEF EarningsUntouched
  <2>3. CASE \E o \in Orders : CreatePaymentOrder(o)
    BY <2>1, <2>3, UntouchedEarnings DEF CreatePaymentOrder, EarningsUntouched, OrderRow, money
  <2>4. CASE \E h \in Handlers : Handler(h)
    BY <2>2, <2>4, UntouchedEarnings, SettleEarns DEF Handler, Receive, Verify, Abandon, money
  <2>5. ASSUME NEW u \in Users, User(u) PROVE BalanceEarned'
    <3>1. CodeCredits \in Int /\ Reward \in Int
      BY Constants
    <3>2. \A n \in Int : user' = AddCredits(user, u, n) /\ UNCHANGED <<order, share, spent>> => EarningsUntouched
      BY <2>1, AddedMoney DEF EarningsUntouched
    <3>3. \A c \in Codes : RedeemRedemptionCode(u, c) => EarningsUntouched
      BY <3>1, <3>2 DEF RedeemRedemptionCode, shop
    <3>4. \A d \in 1..Days : CreateCheckIn(u, d) => EarningsUntouched
      BY <3>1, <3>2 DEF CreateCheckIn, shop
    <3>5. HasNoCheckIn(u) => EarningsUntouched
      BY <2>2 DEF HasNoCheckIn, money, shop
    <3>6. UpdateUserPassword(u) => EarningsUntouched
      BY <2>1 DEF UpdateUserPassword, EarningsUntouched, UserRow, shop
    <3> QED
      BY <2>5, <3>3, <3>4, <3>5, <3>6, ExchangeEarns, UntouchedEarnings DEF User
  <2>6. CASE NextDay \/ UNCHANGED vars
    BY <2>2, <2>6, UntouchedEarnings DEF NextDay, vars, money, shop
  <2>7. CASE Administrator
    <3>1. SaveUser => EarningsUntouched
      BY EditWrites DEF SaveUser, EarningsUntouched, shop
    <3> QED
      BY <2>2, <2>7, <3>1, UntouchedEarnings DEF Administrator, SwitchReferral, DeleteRedemptionCodes,
         ReadUser, SaveCreditLog, Stop, money, shop
  <2> QED
    BY <2>3, <2>4, <2>5, <2>6, <2>7 DEF Next
<1> QED
  BY <1>1, <1>2, TypeCorrect, PTL DEF Spec

\* A commission is paid with the first order of the invitee, and never changed
\* or paid again with a later one.
THEOREM CommissionWithFirstOrder == Spec => CommissionOnFirst
<1> DEFINE A == \A u \in Users : share'[u] # share[u] =>
                   /\ PaidOrders(u) = {} /\ share[u] = NoShare
                   /\ share'[u].order \in PaidOrders(u)'
<1>1. TypeOK /\ UnderWay /\ [Next]_vars => [A]_vars
  <2> SUFFICES ASSUME TypeOK, UnderWay, Next PROVE A
    BY DEF vars, money, shop, gifts, admin
  <2>1. CASE share' = share
    BY <2>1
  <2>2. ASSUME NEW h \in Handlers, SettlePaymentOrder(h), share' # share PROVE A
    <3> DEFINE T == handler[h].trade
               O == OrderOf[T]
               W == UserOf[O]
    <3>7. /\ T \in Trades /\ O \in Orders /\ W \in Users /\ Earns(h, O)
          /\ order' = [order EXCEPT ![O] = [status |-> "paid", trade |-> T]]
          /\ share' = [share EXCEPT ![W] = [order |-> O, inviter |-> InviterOf[W]]]
      BY <2>2, SettleCases
    <3>1. PICK t \in Trades, o \in Orders, w \in Users :
             /\ w = UserOf[o] /\ Earns(h, o)
             /\ order' = [order EXCEPT ![o] = [status |-> "paid", trade |-> t]]
             /\ share' = [share EXCEPT ![w] = [order |-> o, inviter |-> InviterOf[w]]]
      BY <3>7
    <3>2. order \in [Orders -> OrderRow] /\ share \in [Users -> ShareRow]
      BY DEF TypeOK
    <3>3. share[w] = NoShare /\ PaidOrders(w) = {}
      BY <3>1 DEF Earns, FirstPaid, PaidOrders
    <3>4. order'[o].status = "paid"
      BY <3>1, <3>2
    <3>5. o \in PaidOrders(w)'
      BY <3>1, <3>4 DEF PaidOrders
    <3>6. share'[w].order = o /\ \A v \in Users \ {w} : share'[v] = share[v]
      BY <3>1, <3>2
    <3> QED
      BY <3>3, <3>5, <3>6
  <2> QED
    BY <2>1, <2>2 DEF Next, CreatePaymentOrder, Handler, Receive, Verify, Abandon, User, ExchangeBalance,
       RedeemRedemptionCode, HasNoCheckIn, CreateCheckIn, UpdateUserPassword, NextDay, Administrator,
       SwitchReferral, DeleteRedemptionCodes, ReadUser, SaveUser, SaveCreditLog, Stop, shop
<1> QED
  BY <1>1, TypeCorrect, PTL DEF Spec, CommissionOnFirst

-----------------------------------------------------------------------------
(***************************************************************************)
(* The credits are earned.                                                 *)
(***************************************************************************)

\* What counts is finite, and a code that can still be redeemed counts for
\* nobody.
Gifts ==
    /\ \A c \in Codes : code[c].status = "active" => code[c].by = None
    /\ \A u \in Users : IsFiniteSet(CodesOf(u)) /\ IsFiniteSet(CheckInsOf(u))

\* A step that leaves what was earned in credits alone.
GiftsUntouched ==
    /\ \A c \in Codes : /\ code'[c].by = code[c].by
                        /\ code'[c].status = "active" => code[c].status = "active"
    /\ UNCHANGED <<checkIns, creditLog, spent>>

LEMMA UntouchedGifts ==
    ASSUME Gifts, CreditsEarned, GiftsUntouched
    PROVE  Gifts' /\ CreditsEarned'
<1>1. \A u \in Users : CodesOf(u)' = CodesOf(u) /\ CheckInsOf(u)' = CheckInsOf(u)
  BY DEF GiftsUntouched, CodesOf, CheckInsOf
<1>2. Gifts'
  BY <1>1 DEF GiftsUntouched, Gifts
<1>3. CreditsEarned'
  BY <1>1 DEF GiftsUntouched, CreditsEarned
<1> QED
  BY <1>2, <1>3

\* One element more for one user.
LEMMA OneMore ==
    ASSUME NEW S, NEW T, NEW x, IsFiniteSet(S), x \notin S, T = S \cup {x}
    PROVE  IsFiniteSet(T) /\ Cardinality(S) \in Nat /\ Cardinality(T) = Cardinality(S) + 1
BY FS_AddElement, FS_CardinalityType

\* What a user has earned so far, as three numbers.
LEMMA Earned ==
    ASSUME TypeOK, Gifts, CreditsEarned, NEW u \in Users
    PROVE  /\ spent[u] \in Nat /\ Cardinality(CodesOf(u)) \in Nat /\ Cardinality(CheckInsOf(u)) \in Nat
           /\ Rate * spent[u] \in Nat /\ CodeCredits * Cardinality(CodesOf(u)) \in Nat
           /\ Reward * Cardinality(CheckInsOf(u)) \in Nat
           /\ creditLog[u] = Rate * spent[u] + CodeCredits * Cardinality(CodesOf(u))
                               + Reward * Cardinality(CheckInsOf(u))
<1>1. spent[u] \in Nat /\ Cardinality(CodesOf(u)) \in Nat /\ Cardinality(CheckInsOf(u)) \in Nat
  BY FS_CardinalityType DEF TypeOK, Gifts
<1>2. CodeCredits \in Nat /\ Reward \in Nat /\ Rate \in Nat
  BY Constants
<1> QED
  BY <1>1, <1>2, Once DEF CreditsEarned

LEMMA ExchangeGifts ==
    ASSUME TypeOK, Gifts, CreditsEarned, NEW u \in Users, ExchangeBalance(u)
    PROVE  Gifts' /\ CreditsEarned'
<1>1. /\ UNCHANGED <<code, checkIns>> /\ spent' = [spent EXCEPT ![u] = @ + 1]
      /\ creditLog' = Logged(creditLog, u, Rate)
  BY DEF ExchangeBalance, gifts
<1>2. /\ \A v \in Users : CodesOf(v)' = CodesOf(v) /\ CheckInsOf(v)' = CheckInsOf(v)
      /\ Gifts'
  BY <1>1 DEF CodesOf, CheckInsOf, Gifts
<1>3. Rate \in Nat /\ spent \in [Users -> Nat] /\ creditLog \in [Users -> Int]
  BY Constants DEF TypeOK
<1> SUFFICES ASSUME NEW v \in Users
             PROVE  creditLog'[v] = Rate * spent'[v] + CodeCredits * Cardinality(CodesOf(v))
                                      + Reward * Cardinality(CheckInsOf(v))
  BY <1>2 DEF CreditsEarned
<1>4. creditLog'[v] = IF v = u THEN creditLog[v] + Rate ELSE creditLog[v]
  <2>1. Rate \in Int
    BY <1>3
  <2>2. Logged(creditLog, u, Rate)[v] = IF v = u THEN creditLog[v] + Rate ELSE creditLog[v]
    BY <1>3, <2>1, LoggedSum
  <2> QED
    BY <1>1, <2>2
<1>5. Rate * spent'[v] = IF v = u THEN Rate * spent[v] + Rate ELSE Rate * spent[v]
  BY <1>1, <1>3, Once
<1> QED
  BY <1>3, <1>4, <1>5, Earned

LEMMA RedeemGifts ==
    ASSUME TypeOK, Gifts, CreditsEarned, NEW u \in Users, NEW c \in Codes,
           RedeemRedemptionCode(u, c)
    PROVE  Gifts' /\ CreditsEarned'
<1>1. /\ code[c].status = "active" /\ code' = [code EXCEPT ![c] = [status |-> "used", by |-> u]]
      /\ UNCHANGED <<checkIns, spent>> /\ creditLog' = Logged(creditLog, u, CodeCredits)
  BY DEF RedeemRedemptionCode, shop
<1>2. /\ code \in [Codes -> CodeRow] /\ CodeCredits \in Nat /\ creditLog \in [Users -> Int]
      /\ None \notin Users
  BY Constants DEF TypeOK
<1>3. code[c].by = None
  BY <1>1 DEF Gifts
<1>4. \A v \in Users : c \notin CodesOf(v)
  BY <1>2, <1>3 DEF CodesOf
<1>5. \A v \in Users : CodesOf(v)' = IF v = u THEN CodesOf(v) \cup {c} ELSE CodesOf(v)
  <2> SUFFICES ASSUME NEW v \in Users
               PROVE  CodesOf(v)' = IF v = u THEN CodesOf(v) \cup {c} ELSE CodesOf(v)
    OBVIOUS
  <2>1. \A d \in Codes : code'[d].by = IF d = c THEN u ELSE code[d].by
    BY <1>1, <1>2
  <2> QED
    BY <1>4, <2>1 DEF CodesOf
<1>6. \A v \in Users : /\ IsFiniteSet(CodesOf(v)')
                       /\ Cardinality(CodesOf(v)') =
                             IF v = u THEN Cardinality(CodesOf(v)) + 1 ELSE Cardinality(CodesOf(v))
  BY <1>4, <1>5, OneMore DEF Gifts
<1>7. \A v \in Users : CheckInsOf(v)' = CheckInsOf(v)
  BY <1>1 DEF CheckInsOf
<1>8. Gifts'
  BY <1>1, <1>2, <1>6, <1>7 DEF Gifts
<1>9. CreditsEarned'
  <2> SUFFICES ASSUME NEW v \in Users
               PROVE  creditLog'[v] = Rate * spent[v] + CodeCredits * Cardinality(CodesOf(v)')
                                        + Reward * Cardinality(CheckInsOf(v))
    BY <1>1, <1>7 DEF CreditsEarned
  <2>1. creditLog'[v] = IF v = u THEN creditLog[v] + CodeCredits ELSE creditLog[v]
    BY <1>1, <1>2, LoggedSum
  <2>2. CodeCredits * Cardinality(CodesOf(v)') =
           IF v = u THEN CodeCredits * Cardinality(CodesOf(v)) + CodeCredits
           ELSE CodeCredits * Cardinality(CodesOf(v))
    BY <1>2, <1>6, Earned, Once
  <2> QED
    BY <1>2, <2>1, <2>2, Earned
<1> QED
  BY <1>8, <1>9

LEMMA CheckInGifts ==
    ASSUME TypeOK, Gifts, CreditsEarned, NEW u \in Users, NEW d \in 1..Days, CreateCheckIn(u, d)
    PROVE  Gifts' /\ CreditsEarned'
<1>1. /\ <<u, d>> \notin checkIns /\ checkIns' = checkIns \cup {<<u, d>>}
      /\ UNCHANGED <<code, spent>> /\ creditLog' = Logged(creditLog, u, Reward)
  BY DEF CreateCheckIn, NotCheckedIn, shop
<1>2. Reward \in Nat /\ creditLog \in [Users -> Int]
  BY Constants DEF TypeOK
<1>3. \A v \in Users : <<u, d>> \notin CheckInsOf(v)
  BY <1>1 DEF CheckInsOf
<1>4. \A v \in Users : CheckInsOf(v)' = IF v = u THEN CheckInsOf(v) \cup {<<u, d>>} ELSE CheckInsOf(v)
  BY <1>1 DEF CheckInsOf
<1>5. \A v \in Users : /\ IsFiniteSet(CheckInsOf(v)')
                       /\ Cardinality(CheckInsOf(v)') =
                             IF v = u THEN Cardinality(CheckInsOf(v)) + 1 ELSE Cardinality(CheckInsOf(v))
  BY <1>3, <1>4, OneMore DEF Gifts
<1>6. \A v \in Users : CodesOf(v)' = CodesOf(v)
  BY <1>1 DEF CodesOf
<1>7. Gifts'
  BY <1>1, <1>5, <1>6 DEF Gifts
<1>8. CreditsEarned'
  <2> SUFFICES ASSUME NEW v \in Users
               PROVE  creditLog'[v] = Rate * spent[v] + CodeCredits * Cardinality(CodesOf(v))
                                        + Reward * Cardinality(CheckInsOf(v)')
    BY <1>1, <1>6 DEF CreditsEarned
  <2>1. creditLog'[v] = IF v = u THEN creditLog[v] + Reward ELSE creditLog[v]
    BY <1>1, <1>2, LoggedSum
  <2>2. Reward * Cardinality(CheckInsOf(v)') =
           IF v = u THEN Reward * Cardinality(CheckInsOf(v)) + Reward
           ELSE Reward * Cardinality(CheckInsOf(v))
    BY <1>2, <1>5, Earned, Once
  <2> QED
    BY <1>2, <2>1, <2>2, Earned
<1> QED
  BY <1>7, <1>8

\* Each exchange, each code and each day counts once, whichever requests race
\* for it and whatever an administrator's edit overlaps.
THEOREM CreditsKept == Spec => []CreditsEarned
<1>1. Init => Gifts /\ CreditsEarned
  <2> SUFFICES ASSUME Init PROVE Gifts /\ CreditsEarned
    OBVIOUS
  <2>1. \A u \in Users : CodesOf(u) = {} /\ CheckInsOf(u) = {}
    BY Constants DEF Init, CodesOf, CheckInsOf
  <2>2. IsFiniteSet({}) /\ Cardinality({}) = 0
    BY FS_EmptySet
  <2>3. Gifts
    BY <2>1, <2>2 DEF Init, Gifts
  <2>4. Rate * 0 + CodeCredits * 0 + Reward * 0 = 0
    BY Constants
  <2>5. CreditsEarned
    BY <2>1, <2>2, <2>4 DEF Init, CreditsEarned
  <2> QED
    BY <2>3, <2>5
<1>2. TypeOK /\ Gifts /\ CreditsEarned /\ [Next]_vars => Gifts' /\ CreditsEarned'
  <2> SUFFICES ASSUME TypeOK, Gifts, CreditsEarned, [Next]_vars PROVE Gifts' /\ CreditsEarned'
    OBVIOUS
  <2>1. UNCHANGED <<code, checkIns, creditLog, spent>> => GiftsUntouched
    BY DEF GiftsUntouched
  <2>2. CASE \/ UNCHANGED vars \/ NextDay
             \/ \E o \in Orders : CreatePaymentOrder(o)
    BY <2>1, <2>2, UntouchedGifts DEF vars, money, shop, gifts, NextDay, CreatePaymentOrder
  <2>3. CASE \E h \in Handlers : Handler(h)
    BY <2>1, <2>3, UntouchedGifts
       DEF Handler, Receive, Verify, Abandon, SettlePaymentOrder, money, gifts
  <2>4. CASE Administrator
    <3>1. ASSUME NEW c \in Codes, DeleteRedemptionCodes(c) PROVE GiftsUntouched
      <4>1. code \in [Codes -> CodeRow]
        BY DEF TypeOK
      <4> QED
        BY <3>1, <4>1 DEF DeleteRedemptionCodes, GiftsUntouched, CodeRow, money, shop
    <3> QED
      BY <2>1, <2>4, <3>1, UntouchedGifts
         DEF Administrator, SwitchReferral, ReadUser, SaveUser, SaveCreditLog, Stop, money, shop, gifts
  <2>5. ASSUME NEW u \in Users, User(u) PROVE Gifts' /\ CreditsEarned'
    <3>1. HasNoCheckIn(u) \/ UpdateUserPassword(u) => UNCHANGED <<code, checkIns, creditLog, spent>>
      BY DEF HasNoCheckIn, UpdateUserPassword, money, shop, gifts
    <3> QED
      BY <2>1, <2>5, <3>1, UntouchedGifts, ExchangeGifts, RedeemGifts, CheckInGifts DEF User
  <2> QED
    BY <2>2, <2>3, <2>4, <2>5 DEF Next
<1> QED
  BY <1>1, <1>2, TypeCorrect, PTL DEF Spec

=============================================================================
