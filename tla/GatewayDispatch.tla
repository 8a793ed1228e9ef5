--------------------------- MODULE GatewayDispatch ---------------------------
(***************************************************************************)
(* Image requests in the account pool of the gateway: the goroutine that   *)
(* tries accounts, dispatch attempts, quota holds, the recovery of         *)
(* accepted tasks, the maintenance sweeps, and the caller that delivers or *)
(* refunds (gateway/internal/service, gateway/internal/repo,               *)
(* service/pool_tasks.go).                                                 *)
(*                                                                         *)
(* Providers are ChatGPT, which acknowledges a task while it runs, and     *)
(* BytePlus, which has a task history. A request tries an account at most  *)
(* once, so an attempt is a request and an account. Abstractions: the      *)
(* order in which accounts are tried, their cooling, health and slots, the *)
(* retry after a login is refreshed; the cost of every request is one      *)
(* unit; time, except that a step which waits longer than a generation can *)
(* run needs a goroutine that is gone.                                     *)
(***************************************************************************)
EXTENDS Integers, FiniteSets

CONSTANTS
    Requests,    \* idempotency keys, one event each
    Accounts,
    BytePlus,    \* accounts of BytePlus; the others are ChatGPT's
    Seen,        \* what the gateway knows of the allowance at the start
    Balance,     \* allowance of each account at its provider
    Unknown,     \* a balance never observed
    None,
    MaxCrashes,  \* bound on Crash
    MaxFaults    \* bound on failed bookkeeping writes

ASSUME DispatchAssumption ==
    /\ IsFiniteSet(Requests) /\ IsFiniteSet(Accounts)
    /\ BytePlus \subseteq Accounts
    /\ Balance \in [Accounts -> Nat]
    /\ Seen \in [Accounts -> Nat \cup {Unknown}]
    /\ Unknown \notin Nat
    /\ None \notin Accounts
    /\ MaxCrashes \in Nat /\ MaxFaults \in Nat

VARIABLES
    event,    \* event_logs: status of the event of a request
    stored,   \* are the bytes of its artifact in the object store?
    attempt,  \* dispatch_attempts
    hold,     \* quota_reservations
    bucket,   \* account_quota_buckets
    upstream, \* the task of an attempt at the provider
    balance,  \* what the provider would answer to a balance probe
    job,      \* goroutine of the request
    rec,      \* goroutine that recovers an accepted task
    sweep,    \* reservation the maintenance is settling
    caller,   \* the generation task in the main program
    crashes, faults

vars == <<event, stored, attempt, hold, bucket, upstream, balance, job, rec,
          sweep, caller, crashes, faults>>

(***************************************************************************)
(* Rows                                                                    *)
(***************************************************************************)

AttemptStates == {"none", "submitting", "accepted", "unknown", "unresolved", "failed", "succeeded"}
Classes == {"none", "quota", "other"}
AttemptRow == [state : AttemptStates, class : Classes, task : BOOLEAN]
NoAttempt == [state |-> "none", class |-> "none", task |-> FALSE]

HoldStates == {"none", "held", "uncertain", "settled", "released"}
Open == {"held", "uncertain"}

\* What one call of the provider can return, besides an image.
AcceptedOutcomes == {"accepted", "rejected"}
RefusedOutcomes == {"quota", "temporary", "request", "uncharged"}
Outcomes == {"ok", "unknown"} \cup AcceptedOutcomes \cup RefusedOutcomes

JobLive == {"choosing", "reserving", "sending", "finishing", "storing",
            "completing", "failing"}
RecLive == {"polling", "failing", "storing", "completing"}

JobOf(pc, a, o) == [pc |-> pc, on |-> a, out |-> o]
RecOf(pc, a) == [pc |-> pc, on |-> a]
NoRec == RecOf("none", None)

\* The registry of the work in flight.
Live(r) == job[r].pc \in JobLive
Inflight(r) == Live(r) \/ rec[r].pc \in RecLive

IsOpen(r, a) == hold[r][a] \in Open
Pending(r) == event[r] = "pending"

\* A task the provider would still deliver after a restart.
Resumable(r, a) == attempt[r][a].state \in {"accepted", "succeeded"} /\ attempt[r][a].task

Init ==
    /\ event = [r \in Requests |-> "none"]
    /\ stored = [r \in Requests |-> FALSE]
    /\ attempt = [r \in Requests |-> [a \in Accounts |-> NoAttempt]]
    /\ hold = [r \in Requests |-> [a \in Accounts |-> "none"]]
    /\ bucket = [a \in Accounts |-> [remaining |-> Seen[a], reserved |-> 0]]
    /\ upstream = [r \in Requests |-> [a \in Accounts |-> "none"]]
    /\ balance = Balance
    /\ job = [r \in Requests |-> JobOf("idle", None, "none")]
    /\ rec = [r \in Requests |-> NoRec]
    /\ sweep = None
    /\ caller = [r \in Requests |-> "waiting"]
    /\ crashes = 0
    /\ faults = 0

(***************************************************************************)
(* The quota ledger                                                        *)
(***************************************************************************)

Affords(a) == bucket[a].remaining # Unknown => bucket[a].remaining >= 1

Deducted(b) ==
    [remaining |-> IF b.remaining = Unknown THEN Unknown ELSE b.remaining - 1,
     reserved |-> b.reserved + 1]

\* A balance of the provider less what is held for running work.
\* Mutant: not cut off at zero.
Difference(seen, reserved) == seen - reserved
Available(seen, reserved) == IF seen > reserved THEN seen - reserved ELSE 0
Observed(b, seen) == [b EXCEPT !.remaining = Available(seen, b.reserved)]

\* The bucket after a reservation ends; seen is a balance, or None.
Freed(b) == IF b.reserved > 1 THEN b.reserved - 1 ELSE 0
\* Mutant: there is nothing to give back to an unknown balance.
ReturnedIfKnown(b) ==
    IF b.remaining = Unknown THEN b
    ELSE [remaining |-> b.remaining + (b.reserved - Freed(b)), reserved |-> Freed(b)]
Returned(b) ==
    [remaining |-> IF b.remaining = Unknown THEN Unknown
                   ELSE b.remaining + (b.reserved - Freed(b)),
     reserved |-> Freed(b)]
Consumed(b, seen) ==
    [remaining |-> IF seen = None THEN b.remaining ELSE Available(seen, Freed(b)),
     reserved |-> Freed(b)]

\* A hold that is no longer open is left as it is.
Release(r, a) ==
    IF IsOpen(r, a)
    THEN /\ hold' = [hold EXCEPT ![r][a] = "released"]
         /\ bucket' = [bucket EXCEPT ![a] = Returned(@)]
    ELSE UNCHANGED <<hold, bucket>>

\* A probe that proves that nothing was charged also renews the balance.
ReleaseObserved(r, a) ==
    /\ hold' = [hold EXCEPT ![r][a] = IF IsOpen(r, a) THEN "released" ELSE @]
    /\ bucket' = [bucket EXCEPT ![a] =
                     LET seen == Observed(@, balance[a]) IN
                     IF IsOpen(r, a) THEN Returned(seen) ELSE seen]

Settle(r, a, seen) ==
    IF IsOpen(r, a)
    THEN /\ hold' = [hold EXCEPT ![r][a] = "settled"]
         /\ bucket' = [bucket EXCEPT ![a] = Consumed(@, seen)]
    ELSE UNCHANGED <<hold, bucket>>

Doubted(h) == IF h = "held" THEN "uncertain" ELSE h
MarkUncertain(r, a) ==
    /\ hold' = [hold EXCEPT ![r][a] = Doubted(@)]
    /\ UNCHANGED bucket

(***************************************************************************)
(* The goroutine of a request                                              *)
(***************************************************************************)

Goto(r, pc) == job' = [job EXCEPT ![r].pc = pc]
SetState(r, a, state, class, task) ==
    attempt' = [attempt EXCEPT ![r][a] =
        [state |-> state, class |-> class, task |-> @.task \/ task]]

\* A failed write is recorded, and the goroutine goes on.
Bookkeeping == faults' = faults
BookkeepingFails == faults < MaxFaults /\ faults' = faults + 1

Quiet == UNCHANGED <<upstream, balance, rec, sweep, caller, crashes, faults>>

\* The event is unique for its idempotency key.
Receive(r) ==
    /\ job[r].pc = "idle" /\ caller[r] = "waiting"
    /\ event' = [event EXCEPT ![r] = "pending"]
    /\ Goto(r, "choosing")
    /\ UNCHANGED <<stored, attempt, hold, bucket>> /\ Quiet

TryAccount(r, a) ==
    /\ job[r].pc = "choosing"
    /\ attempt[r][a].state = "none"
    /\ SetState(r, a, "submitting", "none", FALSE)
    /\ job' = [job EXCEPT ![r] = JobOf("reserving", a, "none")]
    /\ UNCHANGED <<event, stored, hold, bucket, upstream, balance, rec, sweep, caller, crashes, faults>>

Reserve(r) ==
    LET a == job[r].on IN
    /\ job[r].pc = "reserving"
    /\ Affords(a)
    /\ hold' = [hold EXCEPT ![r][a] = "held"]
    /\ bucket' = [bucket EXCEPT ![a] = Deducted(@)]
    /\ Goto(r, "sending")
    /\ UNCHANGED <<event, stored, attempt>> /\ Quiet

ReserveRejected(r) ==
    LET a == job[r].on IN
    /\ job[r].pc = "reserving"
    /\ ~Affords(a)
    /\ \/ SetState(r, a, "failed", "quota", FALSE) /\ Bookkeeping
       \/ UNCHANGED attempt /\ BookkeepingFails
    /\ Goto(r, "choosing")
    /\ UNCHANGED <<event, stored, hold, bucket, upstream, balance, rec, sweep, caller, crashes>>

\* The transaction of the reservation fails: the request is given up.
ReserveFails(r) ==
    /\ job[r].pc = "reserving"
    /\ SetState(r, job[r].on, "failed", "other", FALSE) /\ BookkeepingFails
    /\ Goto(r, "failing")
    /\ UNCHANGED <<event, stored, hold, bucket, upstream, balance, rec, sweep, caller, crashes>>

\* The provider takes the task of a request that is being sent, and charges it.
Take(r) ==
    LET a == job[r].on IN
    /\ job[r].pc = "sending"
    /\ upstream[r][a] = "none" /\ balance[a] >= 1
    /\ upstream' = [upstream EXCEPT ![r][a] = "running"]
    /\ balance' = [balance EXCEPT ![a] = @ - 1]
    /\ UNCHANGED <<event, stored, attempt, hold, bucket, job, rec, sweep, caller, crashes, faults>>

\* The task ends; BytePlus may end it without a charge.
TaskEnds(r, a) ==
    /\ upstream[r][a] = "running"
    /\ \E u \in {"done", "rejected"} \cup (IF a \in BytePlus THEN {"void"} ELSE {}) :
          /\ upstream' = [upstream EXCEPT ![r][a] = u]
          /\ balance' = [balance EXCEPT ![a] = IF u = "void" THEN @ + 1 ELSE @]
    /\ UNCHANGED <<event, stored, attempt, hold, bucket, job, rec, sweep, caller, crashes, faults>>

\* ChatGPT acknowledges the task while its stream is still open.
Acknowledge(r) ==
    LET a == job[r].on IN
    /\ job[r].pc = "sending" /\ a \notin BytePlus
    /\ upstream[r][a] # "none" /\ attempt[r][a].state = "submitting"
    /\ SetState(r, a, "accepted", "none", TRUE)
    /\ UNCHANGED <<event, stored, hold, bucket, job>> /\ Quiet

\* What the client may report, given what happened at the provider.
MayReport(r, a, o) ==
    LET u == upstream[r][a] IN
    CASE o = "ok" -> u = "done" /\ (a \in BytePlus \/ attempt[r][a].task)
      [] o = "accepted" -> u # "none" /\ (a \in BytePlus \/ attempt[r][a].task)
      [] o = "rejected" -> u \in {"rejected", "void"} /\ (a \in BytePlus \/ attempt[r][a].task)
      [] o = "uncharged" -> u = "void"
      [] o = "unknown" -> ~attempt[r][a].task
      [] OTHER -> u = "none"

\* dispatchFailureClass: the state of the attempt after an outcome.
StateAfter(o) ==
    CASE o = "ok" -> "succeeded" [] o = "accepted" -> "accepted"
      [] o = "unknown" -> "unknown" [] OTHER -> "failed"
ClassAfter(o) == IF o = "ok" THEN "none" ELSE IF o = "quota" THEN "quota" ELSE "other"
TaskAfter(o) == o \in AcceptedOutcomes \cup {"uncharged"}

Charged == {"ok"} \cup AcceptedOutcomes

\* The reservation of the attempt is decided before the attempt is.
Book(r, a, o) ==
    \/ o \in Charged /\ Settle(r, a, None)
    \/ o = "unknown" /\ MarkUncertain(r, a)
    \/ o = "quota" /\ Settle(r, a, 0)
    \/ o \in {"temporary", "request"} /\ Release(r, a)
    \/ o = "uncharged" /\ ReleaseObserved(r, a)

Return(r, o) ==
    LET a == job[r].on IN
    /\ job[r].pc = "sending"
    /\ MayReport(r, a, o)
    /\ \/ Book(r, a, o) /\ Bookkeeping
       \/ UNCHANGED <<hold, bucket>> /\ BookkeepingFails
    /\ job' = [job EXCEPT ![r] = JobOf("finishing", a, o)]
    /\ UNCHANGED <<event, stored, attempt, upstream, balance, rec, sweep, caller, crashes>>

\* Mutant: a submission without an answer is tried elsewhere.
FailsOverUnknown(o) == o \in {"quota", "temporary", "uncharged", "unknown"}
\* Failures before the provider took the task go to another account.
FailsOver(o) == o \in {"quota", "temporary", "uncharged"}

\* An accepted or unknown submission leaves the event pending. The recovery
\* that is called here finds the request in flight and does nothing.
After(o) ==
    CASE o = "ok" -> "storing"
      [] FailsOver(o) -> "choosing"
      [] o \in {"accepted", "unknown"} -> "over"
      [] OTHER -> "failing"

FinishAttempt(r) ==
    LET a == job[r].on
        o == job[r].out
    IN
    /\ job[r].pc = "finishing"
    /\ \/ SetState(r, a, StateAfter(o), ClassAfter(o), TaskAfter(o)) /\ Bookkeeping
       \/ UNCHANGED attempt /\ BookkeepingFails
    /\ job' = [job EXCEPT ![r] = JobOf(After(o), a, "none")]
    /\ UNCHANGED <<event, stored, hold, bucket, upstream, balance, rec, sweep, caller, crashes>>

\* No account is left, or the budget of failures is spent.
GiveUp(r) ==
    /\ job[r].pc = "choosing"
    /\ Goto(r, "failing")
    /\ UNCHANGED <<event, stored, attempt, hold, bucket>> /\ Quiet

\* The object key is on the event before the bytes are in the store.
Store(r) ==
    /\ job[r].pc = "storing"
    /\ \/ /\ stored' = [stored EXCEPT ![r] = TRUE]
          /\ Goto(r, "completing")
       \/ Goto(r, "failing") /\ UNCHANGED stored
    /\ UNCHANGED <<event, attempt, hold, bucket>> /\ Quiet

\* UpdateStatus, whatever the status of the event.
Complete(r) ==
    /\ job[r].pc = "completing"
    /\ event' = [event EXCEPT ![r] = "success"]
    /\ Goto(r, "over")
    /\ UNCHANGED <<stored, attempt, hold, bucket>> /\ Quiet

Fail(r) ==
    /\ job[r].pc = "failing"
    /\ event' = [event EXCEPT ![r] = "failed"]
    /\ Goto(r, "over")
    /\ UNCHANGED <<stored, attempt, hold, bucket>> /\ Quiet

\* The process of a request stops.
Crash(r) ==
    /\ crashes < MaxCrashes
    /\ Inflight(r) \/ job[r].pc = "idle"
    /\ job' = [job EXCEPT ![r] = JobOf("over", @.on, "none")]
    /\ rec' = [rec EXCEPT ![r] = NoRec]
    /\ crashes' = crashes + 1
    /\ sweep' \in {sweep, None}
    /\ UNCHANGED <<event, stored, attempt, hold, bucket, upstream, balance, caller, faults>>

(***************************************************************************)
(* Recovery of an accepted task                                            *)
(***************************************************************************)

RecGoto(r, pc) == rec' = [rec EXCEPT ![r].pc = pc]
RecOnly == UNCHANGED <<hold, bucket, upstream, balance, job, sweep, caller, crashes, faults>>

\* A poll or the maintenance reads the pending event ...
LookAccepted(r) ==
    /\ rec[r].pc = "none" /\ Pending(r)
    /\ rec' = [rec EXCEPT ![r] = RecOf("looked", None)]
    /\ UNCHANGED <<event, stored, attempt>> /\ RecOnly

\* ... and starts the recovery with that reading, or drops it.
StartRecovery(r) ==
    /\ rec[r].pc = "looked"
    /\ \/ \E a \in Accounts :
            /\ ~Live(r) /\ Resumable(r, a)
            /\ rec' = [rec EXCEPT ![r] = RecOf("polling", a)]
       \/ (Live(r) \/ ~\E a \in Accounts : Resumable(r, a)) /\ rec' = [rec EXCEPT ![r] = NoRec]
    /\ UNCHANGED <<event, stored, attempt>> /\ RecOnly

Poll(r) ==
    LET u == upstream[r][rec[r].on] IN
    /\ rec[r].pc = "polling"
    /\ \/ u = "done" /\ RecGoto(r, "storing")
       \/ u \in {"rejected", "void"} /\ RecGoto(r, "failing")
       \/ rec' = [rec EXCEPT ![r] = NoRec]  \* still running, or unreachable
    /\ UNCHANGED <<event, stored, attempt>> /\ RecOnly

\* The recovery closes the event and then the attempt, unless it stops between.
RecFail(r) ==
    /\ rec[r].pc = "failing"
    /\ event' = [event EXCEPT ![r] = "failed"]
    /\ \/ \E c \in {"quota", "other"} : SetState(r, rec[r].on, "failed", c, TRUE)
       \/ UNCHANGED attempt
    /\ rec' = [rec EXCEPT ![r] = NoRec]
    /\ UNCHANGED stored /\ RecOnly

\* eventStillPending, when the bytes are in the store.
\* Mutant: not read again.
PendingBefore(r) == TRUE
StillPending(r) == Pending(r)

RecStore(r) ==
    /\ rec[r].pc = "storing"
    /\ \/ /\ stored' = [stored EXCEPT ![r] = TRUE]
          /\ IF StillPending(r) THEN RecGoto(r, "completing") ELSE rec' = [rec EXCEPT ![r] = NoRec]
       \/ rec' = [rec EXCEPT ![r] = NoRec] /\ UNCHANGED stored
    /\ UNCHANGED <<event, attempt>> /\ RecOnly

RecComplete(r) ==
    /\ rec[r].pc = "completing"
    /\ event' = [event EXCEPT ![r] = "success"]
    /\ \/ SetState(r, rec[r].on, "succeeded", "none", TRUE)
       \/ UNCHANGED attempt
    /\ rec' = [rec EXCEPT ![r] = NoRec]
    /\ UNCHANGED stored /\ RecOnly

(***************************************************************************)
(* Maintenance                                                             *)
(***************************************************************************)

MaintOnly == UNCHANGED <<upstream, balance, job, caller, crashes, faults>>

\* An attempt after which the provider may have charged the request.
MayHaveCharged(r, a) ==
    \/ attempt[r][a].state \in {"submitting", "accepted", "unknown"}
    \/ attempt[r][a].state = "succeeded" /\ attempt[r][a].task

\* PurgeStale waits longer than a generation may run.
PurgeStale(r) ==
    /\ Pending(r) /\ ~Inflight(r)
    /\ \A a \in Accounts : ~MayHaveCharged(r, a)
    /\ event' = [event EXCEPT ![r] = "failed"]
    /\ UNCHANGED <<stored, attempt, hold, bucket, rec, sweep>> /\ MaintOnly

\* Mutant: an accepted task is left to its recovery.
InterruptedBeforeTask(r, a) ==
    Pending(r) /\ ~Inflight(r) /\ attempt[r][a].state \in {"submitting", "unknown"}
Interrupted(r, a) ==
    /\ Pending(r) /\ ~Inflight(r)
    /\ attempt[r][a].state \in {"submitting", "unknown", "accepted", "succeeded"}

\* The key on the event proves nothing: the stored bytes are inspected.
\* Mutant: it proves enough.
ProvedByKey(r) == TRUE
ProvesStored(r) == stored[r]

InterruptedStored(r, a) ==
    /\ Interrupted(r, a) /\ ProvesStored(r)
    /\ event' = [event EXCEPT ![r] = "success"]
    /\ SetState(r, a, "succeeded", "none", FALSE)
    /\ UNCHANGED <<stored, hold, bucket, rec, sweep>> /\ MaintOnly

\* event.provider is the provider of the account tried last.
ByBytePlus(r) == job[r].on \in BytePlus

\* A task that is known goes to the recovery again, a BytePlus submission
\* without one to the task history, the rest is closed as unresolved.
InterruptedAdopted(r, a) ==
    /\ Interrupted(r, a) /\ ~stored[r] /\ attempt[r][a].task
    /\ attempt[r][a].state # "accepted"
    /\ SetState(r, a, "accepted", "other", TRUE)
    /\ UNCHANGED <<event, stored, hold, bucket, rec, sweep>> /\ MaintOnly

InterruptedUnknown(r, a) ==
    /\ Interrupted(r, a) /\ ~stored[r] /\ ByBytePlus(r) /\ ~attempt[r][a].task
    /\ attempt[r][a].state = "submitting"
    /\ SetState(r, a, "unknown", "other", FALSE)
    /\ UNCHANGED <<event, stored, hold, bucket, rec, sweep>> /\ MaintOnly

\* A known task is given up after a day.
InterruptedUnresolved(r, a) ==
    /\ Interrupted(r, a) /\ ~stored[r]
    /\ ByBytePlus(r) /\ ~attempt[r][a].task =>
          attempt[r][a].state \notin {"submitting", "unknown"}
    /\ event' = [event EXCEPT ![r] = "failed"]
    /\ SetState(r, a, "unresolved", "other", FALSE)
    /\ UNCHANGED <<stored, hold, bucket, rec, sweep>> /\ MaintOnly

\* The registered recovery of the event is cancelled. Nothing keeps one that
\* registers later from starting.
Cancelled(r) == IF rec[r].pc \in RecLive THEN NoRec ELSE rec[r]

\* The maintenance cancels after its transaction: until then the recovery goes on.
Left(r) == {rec[r], Cancelled(r)}
CancelAfter(r) == \E left \in Left(r) : rec' = [rec EXCEPT ![r] = left]

\* A lost BytePlus submission is looked up in the history of the account.
LookedUp(r, a) == a \in BytePlus /\ attempt[r][a].state = "unknown" /\ ~Live(r)

Adopt(r, a) ==
    /\ LookedUp(r, a) /\ Pending(r) /\ ByBytePlus(r)
    /\ upstream[r][a] # "none"
    /\ SetState(r, a, "accepted", "other", TRUE)
    /\ UNCHANGED <<event, stored, hold, bucket, rec, sweep>> /\ MaintOnly

ResolveAbsent(r, a) ==
    /\ LookedUp(r, a) /\ Pending(r) /\ ByBytePlus(r)
    /\ upstream[r][a] = "none"
    /\ SetState(r, a, "failed", "other", FALSE)
    /\ event' = [event EXCEPT ![r] = "failed"]
    /\ CancelAfter(r)
    /\ UNCHANGED <<stored, hold, bucket, sweep>> /\ MaintOnly

\* The history cannot be read for an hour, or the event is closed.
ResolveUnverified(r, a) ==
    /\ LookedUp(r, a) /\ event[r] # "success"
    /\ Pending(r) => ByBytePlus(r)
    /\ SetState(r, a, "unresolved", "other", FALSE)
    /\ MarkUncertain(r, a)
    /\ event' = [event EXCEPT ![r] = "failed"]
    /\ CancelAfter(r)
    /\ UNCHANGED <<stored, sweep>> /\ MaintOnly

\* Reservations older than two minutes, those of running work among them.
Undecided == {"submitting", "unknown", "unresolved"}

\* A failed attempt with a task may have been charged.
\* Mutant: the task is ignored.
SweepReleasesFailed(r, a) == attempt[r][a].state = "failed" /\ attempt[r][a].class # "quota"
SweepReleases(r, a) ==
    attempt[r][a].state = "failed" /\ attempt[r][a].class # "quota" /\ ~attempt[r][a].task
SweepExhausts(r, a) == attempt[r][a].state = "failed" /\ attempt[r][a].class = "quota"

SweepClosed(r, a) ==
    /\ IsOpen(r, a)
    /\ \/ SweepReleases(r, a) /\ Release(r, a)
       \/ SweepExhausts(r, a) /\ Settle(r, a, 0)
    /\ UNCHANGED <<event, stored, attempt, rec, sweep>> /\ MaintOnly

\* The others are probed: the answer, if there is one, goes to the bucket ...
SweepProbe(r, a) ==
    /\ sweep = None /\ IsOpen(r, a)
    /\ ~SweepReleases(r, a) /\ ~SweepExhausts(r, a)
    /\ hold' = [hold EXCEPT ![r][a] =
                    IF attempt[r][a].state \in Undecided THEN Doubted(@) ELSE @]
    /\ \/ /\ sweep' = [for |-> r, on |-> a, seen |-> balance[a]]
          /\ bucket' = [bucket EXCEPT ![a] = Observed(@, balance[a])]
       \/ /\ sweep' = IF attempt[r][a].state \in Undecided THEN None
                      ELSE [for |-> r, on |-> a, seen |-> None]
          /\ UNCHANGED bucket
    /\ UNCHANGED <<event, stored, attempt, rec>> /\ MaintOnly

\* ... and then ends the reservation.
SweepSettle ==
    /\ sweep # None
    /\ Settle(sweep.for, sweep.on, sweep.seen)
    /\ sweep' = None
    /\ UNCHANGED <<event, stored, attempt, rec>> /\ MaintOnly

\* The regular refresh of a balance needs an account without open holds.
RefreshQuota(a) ==
    /\ bucket[a].reserved = 0 /\ bucket[a].remaining # balance[a]
    /\ bucket' = [bucket EXCEPT ![a] = Observed(@, balance[a])]
    /\ UNCHANGED <<event, stored, attempt, hold, rec, sweep>> /\ MaintOnly

(***************************************************************************)
(* The caller                                                              *)
(***************************************************************************)

CallerOnly ==
    UNCHANGED <<stored, attempt, hold, bucket, upstream, balance, job, sweep, crashes, faults>>

Deliver(r) ==
    /\ caller[r] \in {"waiting", "abandoned"} /\ event[r] = "success"
    /\ caller' = [caller EXCEPT ![r] = "delivered"]
    /\ UNCHANGED <<event, rec>> /\ CallerOnly

\* The event failed, or the request never reached the pool.
Refund(r) ==
    /\ \/ caller[r] \in {"waiting", "abandoned"} /\ event[r] = "failed"
       \/ caller[r] = "waiting" /\ event[r] = "none" /\ job[r].pc = "over"
    /\ caller' = [caller EXCEPT ![r] = "refunded"]
    /\ UNCHANGED <<event, rec>> /\ CallerOnly

\* Past its deadline the caller reads the pending event ...
Abandon(r) ==
    /\ caller[r] = "waiting" /\ Pending(r) /\ ~Live(r)
    /\ caller' = [caller EXCEPT ![r] = "abandoning"]
    /\ UNCHANGED <<event, rec>> /\ CallerOnly

\* ... cancels the recovery that is registered at this moment ...
CancelRecovery(r) ==
    /\ caller[r] = "abandoning"
    /\ rec' = [rec EXCEPT ![r] = Cancelled(r)]
    /\ caller' = [caller EXCEPT ![r] = "closing"]
    /\ UNCHANGED event /\ CallerOnly

\* ... and then closes the event, if it is still pending.
CloseAbandoned(r) ==
    /\ caller[r] = "closing"
    /\ event' = [event EXCEPT ![r] = IF @ = "pending" THEN "failed" ELSE @]
    /\ caller' = [caller EXCEPT ![r] = "abandoned"]
    /\ UNCHANGED rec /\ CallerOnly

(***************************************************************************)
(* Specification                                                           *)
(***************************************************************************)

JobStep(r) ==
    \/ Receive(r) \/ (\E a \in Accounts : TryAccount(r, a))
    \/ Reserve(r) \/ ReserveRejected(r) \/ ReserveFails(r)
    \/ (\E o \in Outcomes : Return(r, o))
    \/ FinishAttempt(r) \/ GiveUp(r)
    \/ Store(r) \/ Complete(r) \/ Fail(r)

RecStep(r) ==
    \/ StartRecovery(r) \/ Poll(r) \/ RecFail(r)
    \/ RecStore(r) \/ RecComplete(r)

Resolve(r, a) ==
    \/ InterruptedStored(r, a) \/ InterruptedUnknown(r, a) \/ InterruptedUnresolved(r, a)
    \/ Adopt(r, a) \/ ResolveAbsent(r, a) \/ ResolveUnverified(r, a)

\* What the maintenance does to close an event.
Closing(r) == PurgeStale(r) \/ \E a \in Accounts : Resolve(r, a)

Maintenance(r, a) ==
    \/ InterruptedAdopted(r, a)
    \/ SweepClosed(r, a) \/ SweepProbe(r, a)

Environment(r) ==
    \/ Take(r) \/ Acknowledge(r) \/ Crash(r)
    \/ \E a \in Accounts : TaskEnds(r, a)

CallerStep(r) ==
    \/ Deliver(r) \/ Refund(r)
    \/ Abandon(r) \/ CancelRecovery(r) \/ CloseAbandoned(r)

Next ==
    \/ \E r \in Requests :
          \/ JobStep(r) \/ RecStep(r) \/ LookAccepted(r) \/ Closing(r)
          \/ Environment(r) \/ CallerStep(r)
          \/ \E a \in Accounts : Maintenance(r, a)
    \/ SweepSettle
    \/ \E a \in Accounts : RefreshQuota(a)

Spec == Init /\ [][Next]_vars

\* A goroutine that does not crash goes on, and the maintenance runs every
\* minute. Its sweep comes before the next recovery of the same tick, so it
\* meets the event out of flight again and again.
Fairness ==
    \A r \in Requests :
       /\ WF_vars(JobStep(r)) /\ WF_vars(RecStep(r))
       /\ SF_vars(Closing(r))

FairSpec == Spec /\ Fairness

(***************************************************************************)
(* Properties                                                              *)
(***************************************************************************)

\* The rows and the goroutines keep their shape.
TypeOK ==
    /\ event \in [Requests -> {"none", "pending", "success", "failed"}]
    /\ stored \in [Requests -> BOOLEAN]
    /\ attempt \in [Requests -> [Accounts -> AttemptRow]]
    /\ hold \in [Requests -> [Accounts -> HoldStates]]
    /\ bucket \in [Accounts -> [remaining : Nat \cup {Unknown}, reserved : Nat]]
    /\ upstream \in [Requests -> [Accounts -> {"none", "running", "done", "rejected", "void"}]]
    /\ balance \in [Accounts -> Nat]
    /\ job \in [Requests -> [pc : JobLive \cup {"idle", "over"},
                             on : Accounts \cup {None}, out : Outcomes \cup {"none"}]]
    /\ rec \in [Requests -> [pc : RecLive \cup {"none", "looked"}, on : Accounts \cup {None}]]
    /\ sweep \in [for : Requests, on : Accounts, seen : Nat \cup {None}] \cup {None}
    /\ caller \in [Requests -> {"waiting", "abandoning", "closing", "abandoned", "delivered", "refunded"}]
    /\ crashes \in 0 .. MaxCrashes
    /\ faults \in 0 .. MaxFaults

\* What a bucket counts as reserved is what its open reservations hold, though
\* the request, the sweep and a crash all end reservations.
QuotaLedger ==
    \A a \in Accounts : bucket[a].reserved = Cardinality({r \in Requests : IsOpen(r, a)})

\* A request is taken and charged by one provider account at most: no failover,
\* recovery or restart submits it again after an unclear answer.
ChargedOnce ==
    \A r \in Requests :
       Cardinality({a \in Accounts : upstream[r][a] \notin {"none", "void"}}) <= 1

\* A reservation is given back only when the provider did not charge for it.
RefundOnlyUncharged ==
    \A r \in Requests, a \in Accounts : hold[r][a] = "released" => upstream[r][a] \in {"none", "void"}

\* An event that succeeded has its bytes in the store.
DeliveredStored == \A r \in Requests : event[r] = "success" => stored[r]

\* A request the caller refunded is not a success. It can become one: the caller
\* cancels the recovery before it closes the event, and one that starts in
\* between reads the event as pending.
RefundedNotDelivered == \A r \in Requests : caller[r] = "refunded" => event[r] # "success"

\* A refund is final for every recovery, sweep and goroutine that had not yet
\* decided: after it no recovery comes to the write of a success, and only one
\* that had read the event as pending before still makes it.
Decided(r) == rec[r].pc = "completing"
RefundStep(r) ==
    caller[r] = "refunded" =>
       /\ Decided(r)' => Decided(r)
       /\ event'[r] = "success" => event[r] = "success" \/ Decided(r)
RefundFinal == [][\A r \in Requests : RefundStep(r)]_vars

\* No event stays open for ever, whatever crashes, though no caller gives it up.
\* Only an attempt at another provider whose end could not be written, and which
\* the sweep then files as a lost submission of BytePlus, leaves the event to its
\* caller: no history is searched for it.
Misfiled(r) == ByBytePlus(r) /\ \E a \in Accounts \ BytePlus : attempt[r][a].state = "unknown"
EventClosed == \A r \in Requests : []<>(~Pending(r) \/ Misfiled(r))

=============================================================================
