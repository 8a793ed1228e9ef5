--------------------------- MODULE BatchProduction ---------------------------
(***************************************************************************)
(* Batch image production: jobs of one organization, their items, the      *)
(* credit hold a job takes, the generation task that charges one run of    *)
(* one item, and the worker processes that lease items                     *)
(* (repository/commerce.go, repository/generation_task.go,                 *)
(* service/batch_worker.go, service/batch_executor.go).                    *)
(*                                                                         *)
(* Every action on the database is one transaction of the code; a worker   *)
(* is a sequence of such transactions and can stop between any two.        *)
(* Abstractions: one account pays every job (the credit source a job       *)
(* froze, without a monthly budget); every item has the same price; a      *)
(* lease is live or expired, with no clock; the job statuses queued and    *)
(* running, which no transaction tells apart, are "active"; a lease token  *)
(* is the worker it was given to, who works on one claim at a time.        *)
(***************************************************************************)
EXTENDS Integers, FiniteSets, Totals

CONSTANTS
    Jobs, Items, Workers, Scopes,
    JobOf,              \* the job of an item
    ScopeOf,            \* the product and SKU an item shows
    NoItem, NoWorker,
    Price,              \* estimated_credits of an item
    InitialCredits,
    MaxAttempts,        \* maxBatchProductionAttempts
    MaxRuns,            \* bound: members ask for no run that could pass it
    MaxPending,         \* maxBatchProductionPendingItemsPerOrganization
    TenantConcurrency,  \* BATCH_WORKER_TENANT_CONCURRENCY
    Executor,           \* "standard" or "http"
    Env                 \* what the environment may do, see EnvKinds

\* crash: a worker process stops between two transactions
\* pause: a worker may outlive its lease
\* lookup: a read before the charge may fail for a moment
\* late: the account pool delivers the image of a task already refunded
EnvKinds == {"crash", "pause", "lookup", "late"}

ASSUME BatchAssumption ==
    /\ IsFiniteSet(Jobs) /\ IsFiniteSet(Items)
    /\ JobOf \in [Items -> Jobs]
    /\ ScopeOf \in [Items -> Scopes]
    /\ NoItem \notin Items
    /\ NoWorker \notin Workers
    /\ Price \in Nat
    /\ InitialCredits \in Nat
    /\ MaxAttempts \in Nat \ {0}
    /\ MaxRuns \in Nat /\ MaxRuns >= MaxAttempts
    /\ MaxPending \in Nat
    /\ TenantConcurrency \in Nat
    /\ Executor \in {"standard", "http"}
    /\ Env \subseteq EnvKinds

VARIABLES
    account,  \* credits and reserved_credits of the account
    job,      \* batch_production_jobs
    item,     \* batch_production_items
    task,     \* generation_tasks, by item and run: request id batch:item:run
    worker    \* what each worker process remembers

vars == <<account, job, item, task, worker>>

Runs == 1..MaxRuns

JobStatus == {"absent", "active", "pending_review", "partial_success",
              "completed", "failed", "cancelled"}
ItemStatus == {"absent", "queued", "running", "completed", "failed", "cancelled"}
Review == {"none", "pending", "approved", "rejected"}
TaskStatus == {"none", "running", "success", "failed"}
Steps == {"idle", "claimed", "lookup", "begin", "upstream", "verify",
          "deliver", "complete", "settle", "fence", "refund", "finish"}

AccountRow == [credits: Int, reserved: Int]
JobRow == [status: JobStatus, reserved: Int, settled: Int, released: Int,
           actual: Int]
ItemRow == [status: ItemStatus, run: Runs, attempts: 0..MaxAttempts,
            holder: Workers \cup {NoWorker}, live: BOOLEAN,
            review: Review, primary: BOOLEAN]
WorkerState == [step: Steps, item: Items \cup {NoItem}, run: Runs,
                charged: BOOLEAN, retry: BOOLEAN]

ItemsOf(j) == {i \in Items : JobOf[i] = j}
Pending == {i \in Items : item[i].status \in {"queued", "running"}}
LiveRunning == {i \in Items : item[i].status = "running" /\ item[i].live}
Outstanding(row) == row.reserved - row.settled - row.released

Spendable == account.credits - account.reserved

\* The limits of the organization: items to come, and live leases.
Fits(n) == Cardinality(Pending) + n <= MaxPending
HasRoom == Cardinality(LiveRunning) < TenantConcurrency

\* Which task of a run a worker goes on with, and which one it refunds.
\* Mutant: a settled task is taken up again.
ResumableUnlessAbsent(status) == status # "none"
Resumable(status) == status = "running"
\* Mutant: a settled task is refunded again.
RefundableUnlessAbsent(status) == status # "none"
Refundable(status) == status = "running"

\* A worker between two claims. Of its claim a worker keeps the item, the run
\* and whether it saw the task of the run (charged); its copy of the attempts
\* is the stored one for as long as it holds the lease, so it is left out.
Idle == [step |-> "idle", item |-> NoItem, run |-> 1, charged |-> FALSE, retry |-> FALSE]

\* The row of an item when its job is created.
Created == [status |-> "queued", run |-> 1, attempts |-> 0, holder |-> NoWorker,
            live |-> FALSE, review |-> "none", primary |-> FALSE]

Init ==
    /\ account = [credits |-> InitialCredits, reserved |-> 0]
    /\ job = [j \in Jobs |-> [status |-> "absent", reserved |-> 0, settled |-> 0,
                              released |-> 0, actual |-> 0]]
    /\ item = [i \in Items |-> [Created EXCEPT !.status = "absent"]]
    /\ task = [i \in Items |-> [r \in Runs |-> "none"]]
    /\ worker = [w \in Workers |-> Idle]

-----------------------------------------------------------------------------
(***************************************************************************)
(* Aggregation, which ends every transaction that changes an item.         *)
(***************************************************************************)

\* The status of a job from the rows of its items; a cancelled job stays so.
Rollup(status, rows) ==
    LET Has(s) == \E x \in rows : x.status = s
        Holds(v) == \E x \in rows : x.status = "completed" /\ x.review = v
        Busy == Has("queued") \/ Has("running")
        Lost == Has("failed") \/ Has("cancelled")
    IN  CASE status = "cancelled" -> "cancelled"
          [] status # "cancelled" /\ Busy -> "active"
          [] status # "cancelled" /\ ~Busy /\ Lost ->
                IF Has("completed") THEN "partial_success" ELSE "failed"
          [] OTHER ->
                IF Holds("pending") THEN "pending_review"
                ELSE IF Holds("rejected") THEN "partial_success"
                ELSE "completed"

RollupOf(j, row, rows) == Rollup(row.status, {rows[i] : i \in ItemsOf(j)})

\* What the aggregation gives back: the whole outstanding hold, once the job
\* is no longer active.
Release(j, row, rows) ==
    IF RollupOf(j, row, rows) = "active" THEN 0 ELSE Outstanding(row)

\* The sum of what the aggregation of the jobs js gives back, when no release
\* is negative.
Released(js, jobs, rows) == Total(js, [j \in js |-> Release(j, jobs[j], rows)])

\* An over-drawn hold, or one the account no longer covers, aborts the
\* transaction.
CanAggregate(js, jobs, rows, funds) ==
    /\ \A j \in js : 0 <= Release(j, jobs[j], rows)
    /\ Released(js, jobs, rows) <= funds.reserved

\* The end of a transaction that touched items of the jobs js, leaving the
\* jobs as in jobs, the items as in rows and the account as in funds.
Aggregate(js, jobs, rows, funds) ==
    /\ CanAggregate(js, jobs, rows, funds)
    /\ item' = rows
    /\ job' = [j \in Jobs |->
                 IF j \in js
                 THEN [jobs[j] EXCEPT !.status = RollupOf(j, jobs[j], rows),
                                      !.released = @ + Release(j, jobs[j], rows)]
                 ELSE jobs[j]]
    /\ account' = [funds EXCEPT !.reserved = @ - Released(js, jobs, rows)]

\* A reservation of amount on the account, booked on a job.
Reserved(j, amount) == [job EXCEPT ![j].reserved = @ + amount]
\* Mutant: the reservation is booked on the job alone.
HoldingNothing(amount) == account
Holding(amount) == [account EXCEPT !.reserved = @ + amount]

-----------------------------------------------------------------------------
(***************************************************************************)
(* Requests of the members of the organization.                            *)
(***************************************************************************)

\* A request id creates its job once; a repeated request changes nothing.
Create(j) ==
    LET hold == Price * Cardinality(ItemsOf(j))
    IN  /\ job[j].status = "absent"
        /\ ItemsOf(j) # {}
        /\ Fits(Cardinality(ItemsOf(j)))
        /\ hold = 0 \/ Spendable >= hold
        /\ account' = Holding(hold)
        /\ job' = [job EXCEPT ![j].status = "active", ![j].reserved = hold]
        /\ item' = [i \in Items |-> IF i \in ItemsOf(j) THEN Created ELSE item[i]]
        /\ UNCHANGED <<task, worker>>

Cancelled(row) ==
    IF row.status \in {"queued", "running"}
    THEN [row EXCEPT !.status = "cancelled", !.holder = NoWorker, !.live = FALSE]
    ELSE row

Cancel(j) ==
    /\ job[j].status = "active"
    /\ Aggregate({j}, [job EXCEPT ![j].status = "cancelled"],
                 [i \in Items |-> IF i \in ItemsOf(j) THEN Cancelled(item[i]) ELSE item[i]],
                 account)
    /\ UNCHANGED <<task, worker>>

\* A new run of an item, asked for by a member: the attempts start again.
Rerun(row) ==
    [row EXCEPT !.status = "queued", !.run = @ + 1, !.attempts = 0,
                !.holder = NoWorker, !.live = FALSE, !.review = "none",
                !.primary = FALSE]

RetryItem(i) ==
    LET j == JobOf[i]
    IN  /\ job[j].status \notin {"absent", "cancelled"}
        /\ \/ item[i].status = "failed"
           \/ item[i].status = "completed" /\ item[i].review = "rejected"
        /\ item[i].run + MaxAttempts <= MaxRuns
        /\ Fits(1)
        /\ Spendable >= Price
        /\ Aggregate({j}, Reserved(j, Price), [item EXCEPT ![i] = Rerun(@)],
                     Holding(Price))
        /\ UNCHANGED <<task, worker>>

RetryJob(j) ==
    LET failed == {i \in ItemsOf(j) : item[i].status = "failed"}
        hold == Price * Cardinality(failed)
    IN  /\ job[j].status \in {"failed", "partial_success"}
        /\ failed # {}
        /\ \A i \in failed : item[i].run + MaxAttempts <= MaxRuns
        /\ Fits(Cardinality(failed))
        /\ Spendable >= hold
        /\ Aggregate({j}, Reserved(j, hold),
                     [i \in Items |-> IF i \in failed THEN Rerun(item[i]) ELSE item[i]],
                     Holding(hold))
        /\ UNCHANGED <<task, worker>>

Reviewed(row, verdict) ==
    [row EXCEPT !.review = verdict, !.primary = @ /\ verdict # "rejected"]

ReviewItem(i, verdict) ==
    LET j == JobOf[i]
    IN  /\ item[i].status = "completed"
        /\ Aggregate({j}, job, [item EXCEPT ![i] = Reviewed(@, verdict)], account)
        /\ UNCHANGED <<task, worker>>

\* Mutant: the other jobs of the product are forgotten.
SameScopeAndJob(i, k) == ScopeOf[i] = ScopeOf[k] /\ JobOf[i] = JobOf[k]
SameScope(i, k) == ScopeOf[i] = ScopeOf[k]

\* One primary image per product and SKU: the others of the scope lose it.
SetPrimary(i) ==
    /\ item[i].status = "completed" /\ item[i].review = "approved"
    /\ item' = [k \in Items |->
                  IF SameScope(k, i) THEN [item[k] EXCEPT !.primary = (k = i)]
                  ELSE item[k]]
    /\ UNCHANGED <<account, job, task, worker>>

-----------------------------------------------------------------------------
(***************************************************************************)
(* Claims. Every claim first fails the items whose last attempt lost its   *)
(* lease, in one transaction over all jobs: when that transaction aborts,  *)
(* the claim returns its error and nothing is claimed.                     *)
(***************************************************************************)

Exhausted == {i \in Items : /\ item[i].status = "running" /\ ~item[i].live
                            /\ item[i].attempts >= MaxAttempts
                            /\ job[JobOf[i]].status = "active"}
TimedOut(row) == [row EXCEPT !.status = "failed", !.holder = NoWorker]
Expired == [i \in Items |-> IF i \in Exhausted THEN TimedOut(item[i]) ELSE item[i]]
CanFailExhausted == CanAggregate({JobOf[i] : i \in Exhausted}, job, Expired, account)

FailExhausted ==
    /\ Exhausted # {}
    /\ Aggregate({JobOf[i] : i \in Exhausted}, job, Expired, account)
    /\ UNCHANGED <<task, worker>>

\* Mutant: an expired lease is never taken over.
ClaimableOnce(i) == job[JobOf[i]].status = "active" /\ item[i].status = "queued"
Claimable(i) ==
    /\ job[JobOf[i]].status = "active"
    /\ \/ item[i].status = "queued"
       \/ item[i].status = "running" /\ ~item[i].live /\ item[i].attempts < MaxAttempts

Claimed(row, w) ==
    [row EXCEPT !.status = "running", !.attempts = @ + 1, !.holder = w,
                !.live = TRUE, !.review = "none", !.primary = FALSE]

Claim(w, i) ==
    /\ worker[w].step = "idle"
    /\ CanFailExhausted
    /\ Claimable(i)
    /\ HasRoom
    /\ Aggregate({JobOf[i]}, job, [item EXCEPT ![i] = Claimed(@, w)], account)
    /\ worker' = [worker EXCEPT ![w] = [Idle EXCEPT !.step = "claimed", !.item = i,
                                                    !.run = item[i].run]]
    /\ UNCHANGED task

-----------------------------------------------------------------------------
(***************************************************************************)
(* The steps of a worker on its claim.                                     *)
(***************************************************************************)

\* The lease token of the worker is still the one on its item.
Held(w) ==
    LET i == worker[w].item
    IN  i # NoItem /\ item[i].status = "running" /\ item[i].holder = w

At(w, step) == worker[w].step = step
TaskOf(w) == task[worker[w].item][worker[w].run]
Become(w, state) == worker' = [worker EXCEPT ![w] = state]
GoTo(w, step) == Become(w, [worker[w] EXCEPT !.step = step])
\* The executor gave up: with the task of the run or not, to be tried again or not.
GiveUp(w, charged, retry) ==
    Become(w, [worker[w] EXCEPT !.step = "fence", !.charged = charged, !.retry = retry])

\* Renewing the lease by its token alone, whether it expired or not; a worker
\* that lost the token abandons its claim without settling anything.
Renew(w) == item' = [item EXCEPT ![worker[w].item].live = TRUE]
Abandon(w) == ~Held(w) /\ Become(w, Idle) /\ UNCHANGED item
Fenced(w, step) == \/ Held(w) /\ Renew(w) /\ GoTo(w, step)
                   \/ Abandon(w)

\* The input is built from the snapshots of the item, then the lease renewed.
Start(w) ==
    /\ At(w, "claimed")
    /\ \/ Fenced(w, "lookup")
       \/ /\ Held(w) /\ Renew(w)
          /\ \E retry \in BOOLEAN :
                /\ retry => "lookup" \in Env
                /\ Become(w, [worker[w] EXCEPT !.step = "finish", !.retry = retry])
    /\ UNCHANGED <<account, job, task>>

\* What the executor checks before it charges: the standard one reads the task
\* of the run first, the http one last, with the charge.
Lookup(w) ==
    /\ At(w, "lookup")
    /\ \/ "lookup" \in Env /\ GiveUp(w, FALSE, TRUE)
       \/ Executor = "http" /\ (GoTo(w, "begin") \/ GiveUp(w, FALSE, FALSE))
       \/ /\ Executor = "standard"
          /\ \/ TaskOf(w) = "none"
                /\ \/ GoTo(w, "begin")
                   \/ \E retry \in BOOLEAN : GiveUp(w, FALSE, retry)
             \/ Resumable(TaskOf(w))
                /\ \/ Become(w, [worker[w] EXCEPT !.step = "upstream", !.charged = TRUE])
                   \/ \E retry \in BOOLEAN : GiveUp(w, TRUE, retry)
             \/ TaskOf(w) \in {"success", "failed"} /\ GiveUp(w, TRUE, FALSE)
    /\ UNCHANGED <<account, job, item, task>>

\* Mutant: cancelled jobs can still be charged.
ClosedWhenCompleted == {"completed"}
ClosedToCharges == {"completed", "cancelled"}

\* The hold of the job pays the task; what the job released is not looked at.
Chargeable(j) ==
    /\ job[j].status \notin ClosedToCharges
    /\ job[j].reserved - job[j].settled >= Price
    /\ account.credits >= Price /\ account.reserved >= Price

Charge(w) ==
    LET i == worker[w].item
        j == JobOf[i]
    IN  /\ TaskOf(w) = "none" /\ Chargeable(j)
        /\ task' = [task EXCEPT ![i][worker[w].run] = "running"]
        /\ account' = [credits |-> account.credits - Price,
                       reserved |-> account.reserved - Price]
        /\ job' = [job EXCEPT ![j].settled = @ + Price, ![j].actual = @ + Price]
        /\ Become(w, [worker[w] EXCEPT !.step = "upstream", !.charged = TRUE])
        /\ UNCHANGED item

Begin(w) ==
    /\ At(w, "begin")
    /\ \/ Charge(w)
       \/ /\ \/ TaskOf(w) = "none" /\ ~Chargeable(JobOf[worker[w].item])
                /\ GiveUp(w, FALSE, TRUE)
             \/ Resumable(TaskOf(w))
                /\ Become(w, [worker[w] EXCEPT !.step = "upstream", !.charged = TRUE])
             \/ /\ TaskOf(w) \in {"success", "failed"}
                /\ \E retry \in {TRUE, Executor = "http"} : GiveUp(w, FALSE, retry)
          /\ UNCHANGED <<account, job, item, task>>

\* The model service answers, or fails for good or for a moment.
Upstream(w) ==
    /\ At(w, "upstream")
    /\ \/ GoTo(w, "verify")
       \/ \E retry \in BOOLEAN : GiveUp(w, TRUE, retry)
    /\ UNCHANGED <<account, job, item, task>>

Verify(w) ==
    /\ At(w, "verify")
    /\ Fenced(w, "deliver")
    /\ UNCHANGED <<account, job, task>>

\* The delivery transform and the archive of the file.
Deliver(w) ==
    /\ At(w, "deliver")
    /\ \/ GoTo(w, "complete")
       \/ \E retry \in BOOLEAN : GiveUp(w, TRUE, retry)
    /\ UNCHANGED <<account, job, item, task>>

FenceFailure(w) ==
    /\ At(w, "fence")
    /\ Fenced(w, IF worker[w].charged THEN "refund" ELSE "finish")
    /\ UNCHANGED <<account, job, task>>

\* Settling the failure: the charge goes back once, whoever holds the lease.
Refund(w) ==
    LET i == worker[w].item
    IN  /\ At(w, "refund")
        /\ IF Refundable(TaskOf(w))
           THEN /\ task' = [task EXCEPT ![i][worker[w].run] = "failed"]
                /\ account' = [account EXCEPT !.credits = @ + Price]
                /\ job' = [job EXCEPT ![JobOf[i]].actual = @ - Price]
           ELSE UNCHANGED <<account, job, task>>
        /\ GoTo(w, "finish")
        /\ UNCHANGED item

\* The row of an item its worker gives back, with a status of its own.
Returned(row, status) ==
    [row EXCEPT !.status = status, !.holder = NoWorker, !.live = FALSE]
Requeued(row) == [Returned(row, "queued") EXCEPT !.run = @ + 1]

\* Mutant: off by one.
AttemptsUpTo(i) == item[i].attempts <= MaxAttempts
AttemptsLeft(i) == item[i].attempts < MaxAttempts
\* What a new run takes from the account: a run never charged keeps its hold.
\* Mutant: the automatic retry forgets the reservation.
FreeRetry(w) == 0
RetryHold(w) == IF worker[w].charged THEN Price ELSE 0

\* A failed attempt is queued as a new run while attempts are left. The new run
\* is reserved only if the old one was charged, and fails without the credits.
Finish(w) ==
    LET i == worker[w].item
        j == JobOf[i]
        again == /\ worker[w].retry /\ AttemptsLeft(i)
                 /\ worker[w].charged => Spendable >= Price
        hold == IF again THEN RetryHold(w) ELSE 0
        rows == [item EXCEPT ![i] = IF again THEN Requeued(@) ELSE Returned(@, "failed")]
    IN  /\ At(w, "finish")
        /\ IF /\ job[j].status = "active" /\ Held(w)
              /\ CanAggregate({j}, Reserved(j, hold), rows, Holding(hold))
           THEN Aggregate({j}, Reserved(j, hold), rows, Holding(hold))
           ELSE UNCHANGED <<account, job, item>>
        /\ Become(w, Idle)
        /\ UNCHANGED task

Delivered(row) == [Returned(row, "completed") EXCEPT !.review = "pending"]

Complete(w) ==
    LET i == worker[w].item
        j == JobOf[i]
        rows == [item EXCEPT ![i] = Delivered(@)]
    IN  /\ At(w, "complete")
        /\ IF job[j].status = "active" /\ Held(w) /\ CanAggregate({j}, job, rows, account)
           THEN Aggregate({j}, job, rows, account) /\ GoTo(w, "settle")
           ELSE Become(w, Idle) /\ UNCHANGED <<account, job, item>>
        /\ UNCHANGED task

Settle(w) ==
    /\ At(w, "settle")
    /\ task' = [task EXCEPT ![worker[w].item][worker[w].run] =
                   IF @ = "running" THEN "success" ELSE @]
    /\ Become(w, Idle)
    /\ UNCHANGED <<account, job, item>>

\* The ticker of the worker: it keeps the lease of a long call, and a lost
\* token cancels the call, whose outcome is then ignored.
Heartbeat(w) ==
    /\ worker[w].step # "idle"
    /\ \/ Held(w) /\ Renew(w) /\ UNCHANGED worker
       \/ worker[w].step \in {"upstream", "deliver"} /\ Abandon(w)
    /\ UNCHANGED <<account, job, task>>

Work(w) == \/ Start(w) \/ Lookup(w) \/ Begin(w) \/ Upstream(w) \/ Verify(w)
           \/ Deliver(w) \/ Complete(w) \/ Settle(w)
           \/ FenceFailure(w) \/ Refund(w) \/ Finish(w)

-----------------------------------------------------------------------------
(***************************************************************************)
(* Time, crashes and the background repairs.                               *)
(***************************************************************************)

Abandoned(i) == \A w \in Workers : ~(worker[w].item = i /\ Held(w))

\* The heartbeat keeps a lease live unless its worker is gone or was paused.
LeaseExpires(i) ==
    /\ item[i].status = "running" /\ item[i].live
    /\ "pause" \in Env \/ Abandoned(i)
    /\ item' = [item EXCEPT ![i].live = FALSE]
    /\ UNCHANGED <<account, job, task, worker>>

Crash(w) ==
    /\ "crash" \in Env
    /\ worker[w].step # "idle"
    /\ Become(w, Idle)
    /\ UNCHANGED <<account, job, item, task>>

\* Mutant: only approved results are repaired.
ReconcileApproved(i) ==
    /\ item[i].status = "completed" /\ item[i].review = "approved"
    /\ task[i][item[i].run] = "running"
    /\ task' = [task EXCEPT ![i][item[i].run] = "success"]
    /\ UNCHANGED <<account, job, item, worker>>
\* A completed item whose task is still running has its task completed.
Reconcile(i) ==
    /\ item[i].status = "completed" /\ task[i][item[i].run] = "running"
    /\ task' = [task EXCEPT ![i][item[i].run] = "success"]
    /\ UNCHANGED <<account, job, item, worker>>

\* The account pool delivers after the refund: the task is charged again, even
\* below zero.
DeliverLate(i, r) ==
    /\ "late" \in Env
    /\ task[i][r] = "failed"
    /\ task' = [task EXCEPT ![i][r] = "success"]
    /\ account' = [account EXCEPT !.credits = @ - Price]
    /\ job' = [job EXCEPT ![JobOf[i]].actual = @ + Price]
    /\ UNCHANGED <<item, worker>>

Members == \/ \E j \in Jobs : Create(j) \/ Cancel(j) \/ RetryJob(j)
           \/ \E i \in Items : \/ RetryItem(i) \/ SetPrimary(i)
                                \/ \E v \in {"approved", "rejected"} : ReviewItem(i, v)

Next ==
    \/ Members
    \/ FailExhausted
    \/ \E w \in Workers : Work(w) \/ Heartbeat(w) \/ Crash(w) \/ \E i \in Items : Claim(w, i)
    \/ \E i \in Items : LeaseExpires(i) \/ Reconcile(i) \/ \E r \in Runs : DeliverLate(i, r)

Spec == Init /\ [][Next]_vars

\* Workers, their claim loop, the reconciler and the clock run for ever; the
\* members, the crashes and the late deliveries owe nothing.
Fairness ==
    /\ \A w \in Workers : WF_vars(Work(w)) /\ WF_vars(\E i \in Items : Claim(w, i))
    /\ WF_vars(FailExhausted)
    /\ \A i \in Items : /\ WF_vars(Abandoned(i) /\ LeaseExpires(i))
                         /\ WF_vars(Reconcile(i))

FairSpec == Spec /\ Fairness

-----------------------------------------------------------------------------
(***************************************************************************)
(* Safety.                                                                 *)
(***************************************************************************)

\* Rows with attempts left for every automatic retry up to the bound on runs: an
\* item is queued with an attempt left, and each attempt makes one run at most.
BudgetedRow == {row \in ItemRow :
    /\ row.status = "queued" => /\ row.attempts < MaxAttempts
                               /\ row.run + MaxAttempts <= MaxRuns + 1 + row.attempts
    /\ row.status = "running" => row.run + MaxAttempts <= MaxRuns + row.attempts}

\* A worker that is not idle works on an item.
BusyState == {state \in WorkerState : state.step # "idle" => state.item \in Items}

\* No item exceeds its attempts, although the claim of a queued item does not
\* check them, and no run passes the bound.
TypeOK ==
    /\ account \in AccountRow
    /\ job \in [Jobs -> JobRow]
    /\ item \in [Items -> BudgetedRow]
    /\ task \in [Items -> [Runs -> TaskStatus]]
    /\ worker \in [Workers -> BusyState]

Paid == {p \in Items \X Runs : task[p[1]][p[2]] \in {"running", "success"}}
PaidOf(j) == {p \in Paid : JobOf[p[1]] = j}
Charged == {p \in Items \X Runs : task[p[1]][p[2]] # "none"}
ChargedOf(j) == {p \in Charged : JobOf[p[1]] = j}

\* Every credit that left the account is the price of one task that is running
\* or succeeded, and the job books it (actual_credits); settled_credits counts
\* the tasks ever charged. No charge or refund is lost, made twice or booked on
\* another job, whatever crashes, pauses, retries and late deliveries do.
Ledger ==
    /\ account.credits = InitialCredits - Price * Cardinality(Paid)
    /\ \A j \in Jobs : /\ job[j].actual = Price * Cardinality(PaidOf(j))
                       /\ job[j].settled = Price * Cardinality(ChargedOf(j))

\* What the account reserves is the sum of the outstanding holds of its jobs,
\* also when a hold is over-drawn: nothing is reserved for no job, and no job
\* counts on credits that are not reserved for it.
HoldsAddUp == account.reserved = Net(Jobs, [j \in Jobs |-> Outstanding(job[j])])

\* The items of a job whose current run is still to be charged.
Owed(j) == {i \in ItemsOf(j) : i \in Pending /\ task[i][item[i].run] = "none"}

\* The hold of a job covers the runs it may still have to charge, so no pending
\* run has to be paid from elsewhere. What a failed sibling leaves uncharged stays
\* held beside it, but nothing stays frozen behind a job whose items are all over.
Coverage ==
    \A j \in Jobs :
        /\ Price * Cardinality(Owed(j)) <= Outstanding(job[j])
        /\ ItemsOf(j) \cap Pending = {} => Outstanding(job[j]) = 0

\* A completed item was paid for: the task of its run was not refunded.
CompletedPaid ==
    \A i \in Items : item[i].status = "completed"
                      => task[i][item[i].run] \in {"running", "success"}

\* A product and SKU show at most one primary image over all jobs, and it is a
\* completed, approved result: rejecting or rerunning takes the mark away.
PrimaryUnique ==
    /\ \A i, k \in Items : item[i].primary /\ item[k].primary /\ ScopeOf[i] = ScopeOf[k] => i = k
    /\ \A i \in Items : item[i].primary => item[i].status = "completed" /\ item[i].review = "approved"

(***************************************************************************)
(* What no step may do.                                                    *)
(***************************************************************************)

\* After a cancellation nothing of the job runs or is charged again, although
\* its workers still hold their claims.
CancelledStep ==
    \A j \in Jobs : job[j].status = "cancelled" =>
        /\ job'[j].status = "cancelled" /\ job'[j].settled = job[j].settled
        /\ \A i \in ItemsOf(j) : item'[i].status = item[i].status
CancelledQuiet == [][CancelledStep]_vars

\* A task that was settled is never settled again the other way: a success is
\* not refunded, a failure is not revived except by a late delivery.
SettledStep ==
    \A i \in Items, r \in Runs :
        /\ task[i][r] = "success" => task'[i][r] = "success"
        /\ task[i][r] = "failed" => task'[i][r] \in {"failed", "success"}
SettledForever == [][SettledStep]_vars

(***************************************************************************)
(* Liveness.                                                               *)
(***************************************************************************)

\* Every queued or running item is decided, though its workers keep crashing,
\* and the task of a completed run does not stay running, though its worker died
\* before settling it.
Open(i) == \/ i \in Pending
           \/ item[i].status = "completed" /\ task[i][item[i].run] = "running"
ItemSettled == \A i \in Items : Open(i) ~> ~Open(i)

(***************************************************************************)
(* What the documentation says of the code, and the code does not do.      *)
(***************************************************************************)

\* docs backend-database.mdx:137: a task covers everything from the charge to
\* the completion of the item, and any failure refunds it. So the charge of a
\* run whose item failed goes back.
FailureRefunded ==
    \A i \in Items, r \in Runs :
        item[i].status = "failed" /\ item[i].run = r /\ task[i][r] = "running"
        ~> task[i][r] # "running" \/ item[i].run # r

\* docs backend-database.mdx:139: an item whose lease timed out on its last
\* attempt fails by itself.
ExhaustedFails == \A i \in Items : i \in Exhausted ~> i \notin Exhausted

=============================================================================
