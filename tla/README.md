# Infinite Canvas: TLA+ models and proofs

Infinite Canvas is a Go service (`handler` → `service` → `repository`, one SQL
database), two worker processes (`cmd/batch-worker`, `cmd/video-worker`), an
embedded gateway to a pool of third-party accounts (`gateway/`), and a web
client. The programs that must agree share only the database. What makes the
system hard is the same everywhere: long calls to paid services run between
short transactions, workers die or stall in the middle, members cancel and
retry at any time, and credits must not be lost, charged twice or frozen.

This directory holds the TLA+ modules, TLC configurations and TLAPS proofs
about it. `PROJECT.json` maps every definition to the lines it models.

## Inventory

| Component | State | Operations and interactions | What is hard | What makes it correct |
|---|---|---|---|---|
| Batch image production (`repository/commerce.go` 1316–2289, `commerce_expanded.go`, `service/batch_worker.go`, `batch_executor.go`) | jobs (status, reserved/settled/released/actual credits), items (status, run, attempts, lease, review, primary mark) | create, cancel, retry item or job, review, set primary; claim, renew, finish; execute with the built-in or an HTTP executor; calls generation tasks and holds | leases, takeover, crash between transactions, requeue with a new reservation, limits per organization | exact holds, one charge per run, attempts bounded, every item decided, one primary image |
| Credit accounts and holds (`repository/credit_hold.go`, `user.go`) | credits, reserved credits, monthly usage | hold, settle, release; used by batch and video | three counters moved by different transactions | reserved = sum of outstanding holds; never below zero |
| Generation tasks (`repository/generation_task.go`, `service/generation_task*.go`, `pool_late_delivery.go`, `handler/ai.go`) | task per request id: running, success, failed; maintenance lease | begin with charge, complete, fail with refund, reconcile, late delivery with a second charge | refund against completion, duplicate requests, stale maintenance, month boundary | a charge is returned once or kept once |
| Video renders (`repository/video_render.go`, `service/video_worker.go`) | job with phase, lease, attempts, hold | create, claim, renew, advance phase, finish, cancel, review | the lease runs while the job waits for a slot; a renewal that fails does not stop the worker; last attempt | hold settled or released once; phases in order; every render decided |
| Agent runs (`repository/agent*.go`, `service/agent*.go`) | run, steps, events, execution lease, waits; goroutines and the registry of their cancel functions | create, execute, wait for tools, claim, submit, confirm, answer, expire, cancel, revert, retry | pages and goroutine race on a run; parallel calls; a cancellation against an execution that starts; executions under old numbers | the status names the work there is; one execution at a time; a cancellation reaches it; nothing waits for an execution that is gone |
| E-mail outbox (`service/email_outbox.go`, `commerce.go` 230–316) | mail rows with lease and attempts | enqueue with the invitation, claim, send, finish | crash after sending | at least once, bounded retries |
| Organizations and invitations (`commerce.go` 42–590) | members, invitations, audit log | invite, accept, revoke, expire, transfer ownership | accept against revoke and expiry | one owner; an invitation is accepted once |
| Catalog (`commerce.go` 615–1060) | rows with a version | conditional updates | lost update | versions only grow |
| User files (`repository/user_workspace.go`, `service/user_storage*.go`) | files, reservations, references, deletion queue; objects in the store | reserve, put, confirm, cancel, expire, collect, delete; batch results and renders archive through it | quotas under concurrency; deletion against new use; bytes that arrive late | nothing in use is deleted, nothing unused stays, reservations are honoured within the quota |
| Workspace sync (`repository/workspace_sync.go`, `user_workspace.go` 128–386) | documents, versions, references | pull, push | lost update, replay | versions only grow; named files exist |
| Payments, redeem codes, referral, check-in (`repository/payment.go`, `redeem_code.go`, `check_in.go`, `service/payment.go`) | balance, credits, their logs, orders, commissions, codes, check-ins | create, notify, settle, exchange, redeem, check in | duplicated and late notifications, racing requests, edits of the same row | each order, commission, code and day counts once; the logs add up |
| Gateway account pool (`gateway/internal/service`, `repo`, `service/pool_tasks.go`) | events, dispatch attempts, quota buckets and reservations, artifacts, goroutines | dispatch with failover, recover, sweep, abandon; the main program delivers or refunds | unclear answers, restart with tasks open, sweeps beside running work, two processes | one charge per request, exact reservations, no event open for ever, no success after a refund |
| Providers and proxies, media protocols | none that others read | calls to third parties | parsing, networks | not modelled: input and output |
| Accounts and sessions (`service/auth.go`, `repository/user.go`) | users | log in, register, edit, change a password | edits read and write in two transactions | an edit loses no money |
| API keys, pricing, settings, prompts, backup, import, web | single rows or files | one request at a time | little concurrency | not modelled |

## Modules

| Module | What it is |
|---|---|
| `BatchProduction` | the model: state, actions, properties, and the mutated operators that show each property can fail |
| `MCBatchProduction` | instances for TLC: two jobs of one item that show the same SKU, one job of two items, one job of one item |
| `BatchProductionProofs` | lemmas on the operators; type correctness |
| `BatchProductionSafety` | the ledger, the properties of steps and marks, the sum of the holds, who works on an item, what was paid for, and what a hold covers |
| `CreditHold` | what a hold on credits promises: the abstract account, taken from free credits once, then spent or returned |
| `VideoRender` | the model of renders: job, hold, lease and the runs of the worker processes; it implements `CreditHold` |
| `MCVideoRender` | instances for TLC: one or two renders, two processes |
| `VideoRenderProofs` | type correctness, phases, stages and the hold of renders, and the refinement of `CreditHold` |
| `UserFiles`, `MCUserFiles` | the files of one organization; three uploads to two keys |
| `UserFilesProofs` | all its properties |
| `Wallet`, `MCWallet` | the money of users; an inviter and a guest with two orders |
| `WalletProofs` | type correctness, the logs, the balance, the credits, the commission |
| `GatewayDispatch`, `MCGatewayDispatch` | image requests in the account pool; one request, a ChatGPT and a BytePlus account |
| `GatewayDispatchProofs` | all its safety properties |
| `AgentRun`, `MCAgentRun` | one run of the canvas agent; two calls that may be retried, one that asks for confirmation, two goroutines |
| `AgentRunProofs` | all its properties |
| `Totals`, `TotalsProofs` | sums over the rows of a table, and what adding, changing or removing rows does to them |

### From the code to `BatchProduction`

`account` is the organization or user row that pays (`credits`,
`reserved_credits`); `job` and `item` are the batch tables; `task[i][r]` is the
generation task with request id `batch:<i>:<r>` — the request id is unique, so
the task of a run exists once by key; `worker` is what a worker process has in
memory. An action on the database is one transaction, and the aggregation that
ends almost every one of them (`aggregateBatchProductionJob`, which recomputes
the status of the job and gives back its hold) is part of the action: it can
abort the whole transaction, and then nothing happens.

| Actions | Code |
|---|---|
| `Create`, `Cancel`, `RetryItem`, `RetryJob`, `ReviewItem`, `SetPrimary` | the member operations of `repository/commerce.go` |
| `FailExhausted`, `Claim` | the two transactions of `ClaimNextBatchProductionItem`; a claim is possible only if the first one does not abort |
| `Start` … `Settle`, `FenceFailure`, `Refund`, `Finish` | `executeBatchProductionItem`, one action per transaction or outside call, with the lease check before each irreversible step as the code has it |
| `Lookup`, `Begin`, `Charge` | the read of an earlier task and `CreateBatchGenerationTaskWithCharge`, as each executor uses them |
| `Heartbeat` | the ticker that renews the lease and cancels the call |
| `LeaseExpires`, `Crash` | time and process failure |
| `Reconcile`, `DeliverLate` | the repair of completed items, and the late delivery that charges a refunded task again |

Abstractions: equal prices; one account without a monthly budget; a lease is
live or expired; the job statuses `queued` and `running` are one (`active`),
because no transaction treats them differently; the backoff before a retry is
not a delay; images, files and prompts are left out; the order in which the
claim picks organizations and items is free. A worker's goroutine is a worker
of the model: it has one claim at a time. Every lease token is new in the code
and is the worker in the model: two claims of one worker cannot overlap, so the
two tell the same claims apart.

`Env` names what the environment may do in a run: `crash` (a worker stops
between two transactions), `pause` (a worker outlives its lease), `lookup` (a
read before the charge fails for a moment), `late` (a late delivery).

### From the code to `VideoRender`

`account` is the row that pays, `job` the table `video_render_jobs`, `run[j][a]`
the goroutine of attempt `a` at job `j` and the process it belongs to, and
`seen[p]` the job that a claim in progress has chosen. The loop of a process is
sequential (`RunVideoRenderWorker`): it claims, waits until one of its slots is
free, and starts the run; the lease is renewed only once the run has started. A
lost token does not stop a run, so old runs of a job go on beside the new one
until their next write fails.

| Actions | Code |
|---|---|
| `Create`, `Cancel`, `Review` | the member operations of `repository/video_render.go`; a repeated request returns the existing job and changes nothing |
| `ClaimRead`, `ClaimWrite` | `ClaimNextVideoRenderJob`: the reads, and the conditional update, which looks again at the job but not at the limit of the organization |
| `Take` | the slot of the process (`sem`) |
| `Prepare` … `Upload` | the steps of `executeVideoRenderJob`, each with the transaction it ends in |
| `Fail` | `FinishVideoRenderJobFailure`, terminal or not |
| `Heartbeat`, `LeaseExpires`, `Crash` | the ticker, time, and the end of a process |
| `LateCharge` | a late delivery of the account pool, which charges without looking at holds |

Abstractions: one organization and one account; equal prices; a lease is live or
expired, and so is the backoff of a retry (no delay); files, the timeline and
FFmpeg are left out. Every claim makes a new lease token and raises `attempt`,
which nothing resets, so the attempt stands for the token. `Env` adds `overlap`:
the reads of one claim may come before the write of another. Without it claims
are atomic.

A hold of `CreditHold` is read off the three counters of the job (`HoldOfRow`);
its balance is the balance of the account, held credits included.

### From the code to `UserFiles`

`file`, `reservation`, `deletion` and `ref` are the tables of one organization,
`store` the objects that exist, `putting` the uploads whose bytes are under way,
`holder[w]` the deletion row that worker `w` has claimed. An upload id is made
once and gives the object its key, so an upload and its object share a name. The
transactions lock the organization and are one action each; only
`SetUserFileReferences` does not lock, and has two.

| Actions | Code |
|---|---|
| `Look`, `ReserveUserFileUpload` | `PrepareUserWorkspaceFileUpload` and `ArchiveGeneratedFile`: what they see before the transaction, and the transaction, which sweeps expired reservations, replaces the one of the same key and checks all limits |
| `StartPut`, `EndPut` | the bytes, sent to the store directly or through the program |
| `ConfirmUserFileUpload`, `CancelUserFileUploadReservation` | the transactions of the same names |
| `SweepReservations`, `CollectUserFileGarbage` | the maintenance of an organization, every minute |
| `ClaimUserObjectDeletion`, `DeleteObject`, `FinishUserObjectDeletion` | `cleanupPendingUserObjects`: claim, access to the store, and the write under the token of the claim |
| `ApplyUserWorkspaceMutations`, `CheckReference`, `SetUserFileReferences` | the references of a synced document, and of the result of a render |
| `TicketExpires`, `GraceEnds`, `Age`, `LeaseLapses`, `Lose`, `Crash` | time, and faults of the store and of workers |

Abstractions: one user of the organization; one document, whose content is the
files it names; sizes, but no bytes, hashes or types; the request rate; a retry
of a deletion waits for nothing; a sweep takes all expired reservations (the code
takes them in batches, oldest first). A collection takes one file, in any order.
`Env` adds `loss` (the store loses an object), `crash` (a deletion worker stops)
and `late` (an upload starts after its ticket expired, or goes on after the grace,
which the code makes as long as the longest upload so that it does not happen).

### From the code to `Wallet`

`user` has the columns of `users` that money depends on, `order`, `share`, `code`
and `checkIns` are tables, `balanceLog`, `creditLog` and `adjustLog` the sums of
the logs of a user. `handler[h]` is a notification being handled; `edit` is an
administrator's request between its read and its write.

| Actions | Code |
|---|---|
| `Receive`, `Verify`, `SettlePaymentOrder` | `HandlePaymentNotification`: the order is read, the platform asked, the commission computed, and then one transaction settles |
| `ExchangeBalance`, `RedeemRedemptionCode`, `CreateCheckIn` | one transaction each; the check-in looks first (`HasNoCheckIn`) |
| `ReadUser`, `SaveUser`, `SaveCreditLog` | `service.SaveUser` and `AdjustUserCredits`: a read, a write of all columns, and the log of an adjustment |
| `UpdateUserPassword`, `SwitchReferral`, `DeleteRedemptionCodes`, `NextDay` | what changes under the others' feet |

Abstractions: notifications are genuine and agree with their order; an exchange
converts one unit at a fixed rate; one administrator. `Env` adds `overlap`
(another transaction comes between the read and the write of an edit) and
`crash` (the process stops before it logs an adjustment).

### From the code to `GatewayDispatch`

`event`, `attempt`, `hold` and `bucket` are the tables `event_logs`,
`dispatch_attempts`, `quota_reservations` and `account_quota_buckets`;
`upstream` is the task at the provider and `balance` what the provider answers to
a probe. `job[r]` is the goroutine of the request, `rec[r]` the one that recovers
its accepted task, `sweep` the reservation that the maintenance has probed and not
settled yet, `caller[r]` the generation task of the main program. A request
tries an account at most once, so an attempt is a request and an account.

| Actions | Code |
|---|---|
| `Receive`, `TryAccount`, `Reserve…`, `Return`, `FinishAttempt`, `GiveUp` | `prepareImageExecution` and `tryAccount`: the attempt row, the reservation, the call, what it does to the reservation (`Book`) and the end of the attempt, each a write that may fail where the code goes on after a failure |
| `Take`, `TaskEnds`, `Acknowledge` | the provider; ChatGPT acknowledges a task while the call is open |
| `Store`, `Complete`, `Fail` | the artifact and the end of the event |
| `LookAccepted`, `StartRecovery`, `Poll`, `RecFail`, `RecStore`, `RecComplete` | `startAcceptedImageRecovery`, started from an event that was read before |
| `PurgeStale`, `Interrupted…`, `Adopt`, `Resolve…` | the tick that closes, adopts or looks up what a dead process left |
| `SweepClosed`, `SweepProbe`, `SweepSettle`, `RefreshQuota` | the reservations older than two minutes, and the refresh of balances |
| `Deliver`, `Refund`, `Abandon` | `reconcilePoolImageTask` of the main program |
| `CancelRecovery`, `CloseAbandoned` | `AbandonImageRequest` of the gateway: it cancels what the registry holds (`abandon.go:40`), and then closes the event (`:41`); a recovery can register in between |
| `Crash` | the process of a request stops: its goroutines and the registry of work in flight are gone |

Abstractions: every request costs one unit of the allowance of an account; the
order of accounts is free; cooling, health, logins and the slots that limit
concurrent calls are left out, as they only choose or delay an account; videos and
texts go other ways. Time-outs are steps that may happen at any time, except that
a step which waits longer than a call can run needs its goroutine to be gone.
The registry is that of one process. A sweep looks at it and closes the event in
one action, though the code does so in two steps (`interrupted_tasks.go:36`); the
cancellation after such a transaction (`maintenance.go:429`) may come late or
never (`CancelAfter`).

### From the code to `AgentRun`

`status` and `old` are the row of the run, `tool` and `completion` its steps,
`begun` the request numbers that have a generation task, `thread[t]` a goroutine
of `executeAgentRun` with the call of `startAgentRun` before it, `registry` the
entry of the run in `agentRuns.cancels`. `signals`, `poll` and `submitting` are
handlers between two of their steps. `overrun` is no column: it records that the
run was ended by an expiry, or by another execution, while an execution was at
work on it.

| Actions | Code |
|---|---|
| `SubmitMessage`, `SubmitAgain` | `SubmitAgentMessage`: a new run, and a repeated message, which starts an execution if the registry has none |
| `Count`, `ClaimRun`, `Register`, `Recheck` | `startAgentRun`: the number of the request, the claim of the completion step, the entry, and the second look at the status |
| `Begin`, `Upstream` | `requestAgentCompletion`: the generation task, charged under the lock of the run, and the call to the model |
| `WriteText`, `WriteTools`, `WriteConfirm`, `WriteRefused`, `FailRun`, `Leave` | the end of `executeAgentRun`, each with its transaction; the entry goes last |
| `ClaimTool` | `ClaimAgentToolExecution`: a page claims, renews or takes over a call |
| `SubmitSuccess`, `ReadFailures`, `SubmitFailure` | `SubmitAgentToolResult`: earlier failures are counted before the transaction, which sees whether siblings are still out; then the plan is kept, which may fail, and the execution started |
| `Approve`, `Decline`, `Retry` | `ConfirmAgentTool` with `AnswerAgentAskUser`, and `RetryAgentStep` |
| `Cancel`, `RevertTool`, `RevertRun`, `Signal` | the transaction that ends the run, and the look into the registry after it |
| `ExpireWaiting`, `LookForExecution`, `ExpireRunning` | `expireWaitingAgentRun`, which every request about the run performs first |
| `AgeRun`, `AgeClaim`, `AgeLease`, `Crash` | time, and the end of the process |

Abstractions: what calls do and return, events, the plan, memories and the canvas;
a tool lease is its age, because whoever has the token may renew it; of the budgets
the number of calls is counted, and any other may be used up at any time. There is
one process, as for the registry. A run gets old only when no execution is at work
on it: a completion is cut off after 300 seconds, the timeouts are 6 and 15
minutes.

## Runs

The run `batch_…`, `video_…`, `files`, `wallet…`, `gateway…`, `agent` is of the MC module
of its component. Deadlock is not checked: every system here stops when all work
is done and its bounds are reached.

| Run | Question | Result |
|---|---|---|
| `batch_crash` | One job of two items, a worker that crashes anywhere (`TenantConcurrency` is 1, so the lease it leaves behind blocks the claim of the other item until it expires), retries by members: types and attempts, a job holds enough for what its runs may still charge and nothing once its items are over, completed results are paid for; is every item decided, and the task of every completed item settled? | holds |
| `batch_faults` | External executor, crashes, pauses, failing reads, late deliveries, two jobs and workers, retries against a queue cap of 1: the account reserves the sum of the holds, no charge is lost or made twice, nothing settled twice, nothing charged after a cancellation, one primary image over two jobs | holds |
| `batch_refund` | Is the charge of a failed item returned? | violated |
| `batch_exhausted` | Does an item that ran out of leases fail by itself? (HTTP executor) | violated |
| `video_crash` | Two processes; crashes, pauses, overlapping claims, takeovers, late charges: types and attempts, the hold of each status, the sum of the reservations, linear stages, every hold one of `CreditHold`; is every render decided, or stranded on its last attempt? | holds |
| `video_takeover` | Is a render with an expired lease taken over, or ended? | violated |
| `files` | Uploads, replacements, lost objects, a crashing deletion worker: nothing in use is deleted, no orphans, storage and cleanup within their quotas, reservations honoured, references backed and use recorded | holds |
| `wallet` | Two notification handlers and two orders, gifts, edits: logs add up, every cent and credit is earned once, the commission comes with the first order | holds |
| `wallet_overlap` | The same with edits that overlap: is the balance the sum of its log? | violated |
| `gateway` | A crash, a failed write, recovery, sweeps and the caller: exact reservations, one charge, refunds of the uncharged only, stored successes, no success after a refund but by a recovery that had decided before it, every event closed | holds |
| `gateway_abandon` | One process, no crash: can a refunded request still succeed? | violated |
| `agent` | Two goroutines, parallel calls, confirmation, retries, reverts, cancellation, expiry, a failing plan and a crash: the status names the work there is, one execution at a time, a cancellation reaches the call under way, no entry of an execution that is gone, a failure after another one ends the run | holds |

**Bounds.** `MaxAttempts` is 5 in the code and 1 to 3 here: with two there is a
first attempt that may be requeued and a last one that may not, and a takeover
that uses the last. `MaxRuns` bounds the rounds members may ask for: a member's
retry is allowed only if all its automatic retries still fit, so the bound never
cuts a run in the middle (part of `TypeOK`, and proved). Two jobs of one item
each give every interaction between jobs — account, cap, primary mark — and one
job of two items those within a job: an aggregation with a failed and a pending
item, a hold that several runs share. Two workers give takeover and double claim;
one worker that crashes takes over from itself. `Price = 1`; the proofs hold for
every price. `InitialCredits` is 1 or 2 so that retries run out of credits in some runs and not in others.
Workers are interchangeable, so the safety runs use symmetry; the liveness runs
do not.

For renders `MaxAttempts` is 2 (5 in the code), again a first and a last attempt;
two processes with one slot each claim the same render at the same time, take it
over from each other, and leave an old run of one beside a new run of the other; a
claim waits for the slot that an old run still has. `InitialCredits` pays for two
renders, and late charges may take all of it (`LeastCredits` is 0), also what is
held. `MaxPending` is 1 (50 in the code): the second render is created when the
first waits for its review or has ended, while runs of the first may still be at work. So in this run no
two renders wait for a claim together, `TenantConcurrency` never binds, and no
process has two runs that execute; the theorems on renders hold with any number of
renders, processes and slots, but `DecidedOrStranded` has no theorem and is checked
within these bounds only.

For files: one large upload and two small ones, two keys and quotas of two make
every limit bind, and let a replacement be larger, smaller or equal. One deletion
worker suffices for a takeover: it crashes or its lease lapses, and it claims
again. For money: two orders of one invited user, two handlers (interchangeable,
so the runs use symmetry), one code, one day, one edit; `AdjustTo` and `MaxEdits`
bound the edits. For the gateway: one request and two accounts, of which one has a
balance that was never observed and one was seen exhausted, one crash and one
failed write; the proofs hold for any number of each, and only they have several
requests in one bucket.

**Fairness.** Weak fairness of the steps of each worker and of its claims: the
loop polls without end, and a crashed worker process is started again. Of
`FailExhausted`: it is the first thing each claim does. Of the expiry of an
abandoned lease: time passes. Of `Reconcile`: the maintenance worker runs it
periodically. Nothing is assumed of members, crashes and late deliveries; a
worker's outside call ends because every client has a timeout. No fairness is
assumed of the heartbeat.

For renders: weak fairness of the steps of each run, of the loop of each process
and of the expiry of a lease that nobody renews. Members, crashes and late charges
owe nothing. The order in which claims choose renders is free in the model; the
code takes the oldest first.

For the gateway: weak fairness of the goroutines, which go on unless they crash,
and strong fairness of the steps of the maintenance that close an event. Those
steps need the event out of flight, and recoveries of it begin and end again and
again; but the sweep of a tick comes before the recoveries that the same tick
starts, at a moment when a finished recovery is out of flight. Nothing is assumed
of the caller, the provider, crashes or polls. Files, money and agent runs have no
liveness property: a deletion that fails is retried for ever, a run that nobody
asks about is not expired, and the rest owes nothing.

For the agent: two calls that may go out in parallel, fail, be reverted and be
retried, one that waits for confirmation, a budget of two calls, two goroutines
(interchangeable, as the two calls are, so the run uses symmetry) and one crash.
Two goroutines suffice for an execution beside a stale one; a third start waits.

**What the passing runs leave out.** `Coverage` and `CompletedPaid` are checked for
the built-in executor with crashes, and proved under what they need (see
Proofs). `Coverage` fails with failing reads and with
the external executor, where a queued run can be without a reservation (see 2
below). `CompletedPaid` fails with pauses: the code checks the lease in one
transaction and acts in the next, and a worker paused in between for longer than
its lease can refund a run that another worker is delivering. `Coverage` bounds
the hold from below and not from above while items are pending: what a failed item
left uncharged stays held until all items of its job are over.

`OneExecution` speaks of runs in which no execution was run over (`overrun`): the
writes of an execution look at the status of the run and not at the token of its
claim, so after a late expiry and a retry a stale execution and a new one work side
by side. `CancelReaches` leaves out the same runs, and executions under the number
of an earlier round: the number is counted before the claim, and the entry of such
an execution may be removed by the one whose number it has. `Drives` and
`NoGhostExecution` hold in all of them.

The limit of
an organization on renders is no property: two claims at the same time can both
pass the count (the claim takes no lock on the organization), and a render that
waited for a slot until its lease expired can revive it when others have taken its
place. No document promises more, so these are hazards and not findings.

## Disagreements between the code and its documentation

1. **`FailureRefunded`.** `backend-database.mdx:137` says that the failure of any
   stage refunds the task. An item whose worker died after the charge on the
   last attempt is failed by `failExhaustedBatchProductionItems`
   (`commerce.go:2185`), which does not touch the task; the stale-task
   maintenance excludes batch tasks. The charge stays. (A cancellation keeps the
   charge too, but there the documentation only promises the hold.)
2. **`ExhaustedFails`.** `backend-database.mdx:139` says an item fails after five
   expired leases. With the external executor, a crash between the refund of a
   run and the end of the attempt makes the next worker find the run settled,
   report no task, and queue a new run without a reservation
   (`batch_worker.go:176`); the guard of the charge ignores what was released
   (`generation_task.go:172`), so the job charges more than it holds. Once a hold
   is overdrawn, the release returns an error (`commerce.go:1571`), the
   transaction that fails exhausted items aborts every time, and as each claim
   starts with it (`commerce.go:2061`), no organization can claim anything.
3. **`TakenOver`.** `pending-test.mdx:188` and `:216` say that a render whose lease
   expired can be taken over. The claim takes it only while `attempt < 5`
   (`video_render.go:147`), and no transaction fails exhausted renders, as there
   is for batch items. When the process of the fifth attempt dies, the render
   keeps its phase and its hold until a member cancels it.
4. **`BalanceMatchesLogs`.** `backend-database.mdx:453` says that the balance and
   its log are written in one transaction, and `:462` that a log row has the
   balance after it. An administrator's edit reads the user in one transaction
   and saves every column in another (`repository/user.go:94`), guarded by the
   version of passwords, roles and status alone; a recharge that commits in
   between loses its money and keeps its log.
5. **`RefundedNotDelivered`.** `service/pool_tasks.go:22` says that no result can
   arrive after the refund. The gateway cancels the recovery that is registered
   (`abandon.go:40`) and closes the event after that (`:41`). A recovery that looked
   at the registry before (`task_recovery.go:29`) and enters it in between (`:49`)
   goes on: it reads the event again while it is still pending (`:106`), and writes
   the success without a condition (`:110`) after the event was closed and
   refunded. The run needs one process and no crash; a recovery in another
   process is never cancelled at all. What does hold is `RefundFinal`: only a
   recovery that had read the event before the refund writes such a success.

`backend-database.mdx:139` also says that claim, renewal, cancellation,
completion and timeout lock the organization first; cancellation and completion
lock only the job. No property depends on it here.

`backend-database.mdx:135` promises one primary image per product in a job; the
code keeps one per product and SKU over all jobs (`commerce.go:1932`), and
`PrimaryUnique` states what the code does. `backend-database.mdx:605` says that
references are replaced under the lock of the organization;
`SetUserFileReferences` takes none, which is why `References` is about the
document only. `backend-database.mdx:95` ends a run at its second failure;
`SubmitAgentToolResult` counts the failures before its transaction
(`service/agent.go:598`), so calls that fail in parallel are all forgiven, and
`LateFailureEnds` is about failures one after the other.

## Proofs

For all values of the constants that the named assumption of each module allows
(`BatchAssumption`, `RenderAssumption`, `WalletAssumption`, `DispatchAssumption`,
`FilesAssumption`, `AgentAssumption`: all finite sets of jobs, items, renders,
users, orders, requests, accounts, uploads, keys and calls, any set of workers and
goroutines, every price, size, limit and combination of faults), TLAPS proves:

| Module | Theorem | Statement |
|---|---|---|
| `BatchProductionProofs` | `TypeCorrect` | `Spec => []TypeOK` |
| `BatchProductionSafety` | `LedgerHolds` | `Spec => []Ledger` |
| | `SettledForeverHolds` | `Spec => SettledForever` |
| | `CancelledQuietHolds` | `Spec => CancelledQuiet` |
| | `PrimaryUniqueHolds` | `Spec => []PrimaryUnique` |
| | `HoldsAddUpHolds` | `Spec => []HoldsAddUp` |
| | `ExclusiveHolds` | `Spec => []Exclusive`, assuming that no worker outlives its lease (`"pause"` is not in `Env`) |
| | `CompletedPaidHolds` | `Spec => []CompletedPaid`, under the same assumption, for both executors |
| | `CoverageHolds` | `Spec => []Coverage`, for the built-in executor, if moreover no read before the charge fails |
| `VideoRenderProofs` | `TypeCorrect` | `Spec => []TypeOK` |
| | `PhaseOfHolderHolds` | `Spec => []PhaseOfHolder` |
| | `LinearStagesHolds` | `Spec => LinearStages` |
| | `EnvelopeHolds`, `ReservationsHold` | `Spec => []Envelope`, `Spec => []Reservations` |
| | `HeldOnceHolds` | `Spec => HeldOnce`, that is `VideoRender` implements `CreditHold` |
| `WalletProofs` | `TypeCorrect` | `Spec => [](TypeOK /\ UnderWay)` |
| | `LedgerKept`, `BalanceKept` | `Spec => []Ledger`, `Spec => []BalanceEarned`, assuming that no edit overlaps and no adjustment crashes |
| | `CreditsKept` | `Spec => []CreditsEarned`, with overlaps and crashes |
| | `CommissionWithFirstOrder` | `Spec => CommissionOnFirst` |
| `GatewayDispatchProofs` | `TypeCorrect`, `LedgerKept` | `Spec => []TypeOK`, `Spec => []QuotaLedger` |
| | `OneCharge`, `ReleasedUncharged` | `Spec => []ChargedOnce`, `Spec => []RefundOnlyUncharged` |
| | `SuccessStored` | `Spec => []DeliveredStored` |
| | `RefundIsFinal` | `Spec => RefundFinal` |
| `UserFilesProofs` | `TypeCorrect`, `LifecycleHolds` | `Spec => []TypeOK`, and that an upload is reserved, then a file or being deleted, each once |
| | `LiveNotDoomedHolds`, `ReferencesHold` | `Spec => []LiveNotDoomed`, `Spec => []References` |
| | `ReservationsHold` | `Spec => []Reservations`: what a reservation reserves and cleans up is enough for what it may do |
| | `QuotasHold`, `ReservationHonouredHolds` | `Spec => []Quotas`, `Spec => []ReservationHonoured` |
| | `NoOrphansHolds` | `Spec => []NoOrphans`, assuming that no upload starts, or goes on, after its ticket and grace are over (`"late"` is not in `Env`) |
| `AgentRunProofs` | `TypeCorrect`, `StatusDrives` | `Spec => []TypeOK`, `Spec => []Drives` |
| | `OneExecutionHolds`, `NoGhostHolds`, `CancelReachesHolds` | `Spec => []OneExecution`, `Spec => []NoGhostExecution`, `Spec => []CancelReaches` |
| | `LateFailureHolds` | `Spec => LateFailureEnds` |

*Type correctness* needs more than types: the claim of a queued item does not
look at its attempts, so `attempts <= MaxAttempts` is inductive only with the
fact that a queued item has an attempt left, and the number of the run stays in
range only because each attempt makes one run at most. `TypeOK` therefore
restricts item rows to `BudgetedRow`, and it is its own inductive invariant. The
proof has one lemma per group of actions and one, `AggregateType`, for the
transaction end that they share.

*The ledger* is inductive together with `TypeOK`. A step either moves one task
between paid and unpaid, or none; the lemmas on `Posting` say how the
cardinalities of `Paid`, `PaidOf`, `Charged` and `ChargedOf` change for each move
of one task, and each action is shown to be one such move with the matching
change of the balance and of the books, or to book nothing.

*Settled tasks* and *cancelled jobs* are properties of one step under `TypeOK`.
*The primary mark* is inductive with `TypeOK`: an action either keeps marks only
on rows that keep their approval, or is `SetPrimary`, which clears its scope.

*The sum of the holds* is `account.reserved` against `Net` of what each job has
outstanding, which may be negative for an over-drawn job. It is inductive with
`NotCreated`: a job that does not exist yet holds nothing, so creating it adds what
it reserves. A transaction changes the hold of one job and the account by the same
amount (`ReservedHolds`, `ChargeHolds`), and the aggregation that ends it gives
back exactly what the jobs it touches give up (`AggregateHolds`).

*Who works on an item.* `Owners`: the item of a worker between its claim and its
settlement is leased to it, live and with its run, or the job and with it the item
is cancelled. `Active`: only jobs that are not over have items to come. Both are
needed at once, as a result is accepted only from the holder and a retry opens the
job again. That a lease is live while its worker is at work is what the assumption
on pauses gives, and TLC finds `CompletedPaid` violated without it. `Exclusive`
follows: two workers are never at work on one item of a job that is not cancelled.

*What a worker knows.* From `Owners` follows that nobody else moves the task of the
run a worker is in (`TaskMoves`), so what it learned stays true (`Known`): at the
steps after the charge the task is running or a success. As the completion comes
from such a step, a completed item was paid for (`CompletedPaid`, kept afterwards
because a success is never refunded). Where the first read cannot fail and the
executor is the built-in one (`Certain`), a worker about to charge, or to queue an
uncharged run again, knows moreover that the task does not exist.

*Coverage* then counts: `OwedIn` are the items of a job whose run may still be
charged, and the hold is at least their price, and nothing once the job is over
(`Covered`). A charge takes one price from the hold and one item from `OwedIn`, a
retry with a new reservation adds one to both, a retry of an uncharged run changes
neither because its item was counted before, and an aggregation keeps a hold or
empties that of a job that is over.

*Renders.* `TypeOK` contains the fact that a render that waits to be claimed has an
attempt left. `PhaseOfHolder` is inductive with it: a run writes only under its
token (`WorkShape`), so old runs cannot move the phase of the current one; this
gives the linear stages, as properties of one step, and it is what tells `Fail`
and `Upload` that a render they end still has its hold. Every step then leaves all
holds as they are, or takes, spends or returns the hold of one render
(`HoldMoves`). From this case distinction follow both that `HoldInv` (`TypeOK`,
`PhaseOfHolder`, `Envelope`, `Reservations`) is inductive and that each step is a
step of `CreditHold` or a stutter: the sum of the reservations is what turns
"enough free credits" of the code into that of the abstract account.

*Money.* `UnderWay` says what a handler and an edit carry: a trade whose order
exists, and a user. The balance then follows order by order: a settlement adds one
order to the paid ones, and one invitee to those whose commission was paid, or
neither; the lemmas on `PaidOrders` and `SharesOf` turn this into cardinalities.
Where an edit writes a row back, the assumption gives that the row is the
stored one. `CreditsEarned` needs no such assumption: it speaks of the log of what
was earned, which edits do not write. It is inductive with `Gifts`, that a code
which is still active counts for nobody, so that its redemption counts once.

*The gateway.* No single property is inductive: that a failed attempt without a
task was not charged depends on where its goroutine is, on the reservation, and on
which account it tries. `Sound(r)` collects, for one request, what the goroutine's
place implies (`WorkingOf`), which phases exclude each other (`PhasesOf`), which
attempt may have a task at the provider (`ChargingOf`), which attempts are over
(`AttemptingOf`), and that a completion has stored (`CompletingOf`). `IInv` is
`TypeOK`, `Sound` of all requests, and the quota ledger; it is inductive, and a
step of one request leaves the others' `Sound` alone, so the proof goes by request.
The other properties follow from it. `RefundIsFinal` adds that a refunded request
has no goroutine and no pending event (`Closed`): the sweeps then leave it alone, and
a recovery that reads the event again drops its result. The proof makes no use of
cancellations, which a late recovery escapes.

*Files.* The life of an upload is a line: held, then the object of a file, then
queued for deletion (`Lifecycle`). Each transaction is one of a few shapes — it
ends reservations (`Ends`), queues objects (`Dooms`), adds one reservation or moves
one upload into a file — and each invariant is proved by shape. `LiveNotDoomed`
is a consequence of the line. `Reservations` says that the reservation of a
replacement still finds the file whose size it counted on, which holds because a
key has one reservation that can be confirmed, and that what it cleans up covers
what it may queue. The quotas are sums; `Totals` defines a sum as the number of its
units, so that the library's facts on the cardinality of finite sets give what
adding, changing and removing rows does to a sum, without induction over data.
`NoOrphans` follows from `Bytes`: a row owns every object, and a row whose grace has
not ended waits for every upload under way.

*Agent runs.* `IInv` is `TypeOK`, `Drives` and seven facts: numbers of requests
are in range (`Numbers`), an execution at work is alone and has the claim (`Single`),
executions that are about to leave a running run worked for an earlier request
(`Fresh`), the execution of the next request has the entry of the registry and no
other one is about to remove it (`Entry`), no entry outlives its execution
(`NoGhostExecution`), a cancellation finds the execution (`CancelReaches`), and no
handler is about to forgive a call that was sent out after a failure (`Late`). A
step has one of the few shapes of `Shape`, and the facts about threads and registry
are proved for shapes. The arguments turn on numbers: request numbers never fall (`Monotone`), and the last
result of a round raises the number, so a claim of an old number fails. After an
execution was run over the claims no longer exclude each other, so `Single` and
`Entry` speak of runs in which none was.

**Only model-checked.** Every invariant, action property and refinement that a
passing run checks is stated by one of these theorems. What TLC alone checks is
liveness — `ItemSettled`, `DecidedOrStranded` and `EventClosed` — as liveness under
fairness and ENABLED are beyond the prover, and the five disagreements above, each
of which is one counterexample. The theorems with an assumption on `Env` are not
true without it: with a pause a worker may refund the run that another delivers, and
the bytes of an upload that outlives its grace belong to nobody.

## Plan

Done, in the order in which they were written: `BatchProduction`, `CreditHold` and
`VideoRender`, `UserFiles`, `Wallet`, `GatewayDispatch`, `AgentRun`. Left, each a
component with its own MC module and runs:

1. `GenerationTasks`: tasks outside batches, maintenance leases, the monthly
   budget and its reset, refunds over the end of a month, duplicate requests.
2. `EmailOutbox`, and members and invitations with it.
3. What the overrun of an execution leaves true: the bounds on executions and
   entries in all runs of the agent, and those on holds when workers pause.
4. The order of agent events over reconnections of the event stream.
5. The reads and writes inside the transactions that check a cap or choose the
   primary image, at the isolation the database gives.

## Not modelled

- The e-mail outbox: leases and retries of one table, in the plan.
- Of agent runs: events and streams, the plan and memories, the content of calls.
- The charge of generation tasks outside batches and the monthly budget.
- In the gateway: videos and texts, the Adobe and Grok accounts, the slots that
  limit concurrent calls, cooling and health, logins and proxies. They choose,
  delay or refuse an account; no property here depends on which is chosen.
- Versions of synced documents, the catalog, projects of videos, organizations and
  invitations: conditional updates of single rows.
- Pricing, settings, prompts, media protocols, parsing of third-party answers:
  calculation and input; the models take their results as given.
- Backup, import, the web client: input and output.
