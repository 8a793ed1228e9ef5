------------------------------ MODULE CreditHold ------------------------------
(***************************************************************************)
(* What a hold on credits promises (repository/credit_hold.go), for jobs   *)
(* of one price: credits that are free are held for a job, and the hold is *)
(* either spent or returned, once.                                         *)
(***************************************************************************)
EXTENDS Integers, FiniteSets

CONSTANTS
    Jobs,
    Price,           \* what a job is estimated to cost
    InitialCredits,
    LeastCredits     \* bound: how far other charges may take the balance

VARIABLES
    hold,     \* what became of the hold of each job
    balance   \* the credits of the account, held ones included

holdVars == <<hold, balance>>

HoldState == {"none", "held", "spent", "returned"}
HeldOf(holds) == {j \in Jobs : holds[j] = "held"}

HoldInit ==
    /\ hold = [j \in Jobs |-> "none"]
    /\ balance = InitialCredits

\* Credits are held only if no other hold counts on them.
HoldCredits(j) ==
    /\ hold[j] = "none"
    /\ balance >= Price * (Cardinality(HeldOf(hold)) + 1)
    /\ hold' = [hold EXCEPT ![j] = "held"]
    /\ UNCHANGED balance

SettleHeldCredits(j) ==
    /\ hold[j] = "held"
    /\ balance >= Price
    /\ hold' = [hold EXCEPT ![j] = "spent"]
    /\ balance' = balance - Price

ReleaseHeldCredits(j) ==
    /\ hold[j] = "held"
    /\ hold' = [hold EXCEPT ![j] = "returned"]
    /\ UNCHANGED balance

\* A late delivery of the account pool charges without looking at the holds.
LateCharge ==
    /\ balance > LeastCredits
    /\ balance' = balance - 1
    /\ UNCHANGED hold

HoldNext ==
    \/ \E j \in Jobs : HoldCredits(j) \/ SettleHeldCredits(j) \/ ReleaseHeldCredits(j)
    \/ LateCharge

HoldSpec == HoldInit /\ [][HoldNext]_holdVars

=============================================================================
