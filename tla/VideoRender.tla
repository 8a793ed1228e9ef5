----------------------------- MODULE VideoRender -----------------------------
(***************************************************************************)
(* Video renders of one organization: the job, its hold on credits, its    *)
(* lease, and the worker processes that claim a job, wait for a slot and   *)
(* render it phase by phase (repository/video_render.go,                   *)
(* service/video_worker.go).                                               *)
(*                                                                         *)
(* A claim makes a new lease token and raises the attempt, which nothing   *)
(* resets: the token is the attempt it was made for. Abstractions: one     *)
(* account; equal prices; a lease is live or expired; the backoff of a     *)
(* retry is no delay; files are left out.                                  *)
(***************************************************************************)
EXTENDS Integers, FiniteSets

CONSTANTS
    Jobs, Processes,
    NoJob, NoProcess,
    Price,              \* estimated_credits of a job
    InitialCredits,
    LeastCredits,       \* bound: how far late charges may take the balance
    MaxAttempts,
    MaxPending,         \* maxVideoRenderPendingPerOrganization
    Slots,              \* VIDEO_WORKER_CONCURRENCY
    TenantConcurrency,  \* VIDEO_WORKER_TENANT_CONCURRENCY
    Env                 \* what the environment may do, see RenderEnv

\* crash: a process stops between two transactions
\* pause: a run may outlive its lease although it renews it
\* late: other charges take credits that are held
\* overlap: claims of two processes read before either writes
RenderEnv == {"crash", "pause", "late", "overlap"}

ASSUME RenderAssumption ==
    /\ IsFiniteSet(Jobs)
    /\ NoJob \notin Jobs
    /\ NoProcess \notin Processes
    /\ Price \in Nat \ {0}
    /\ InitialCredits \in Nat
    /\ LeastCredits \in Int
    /\ MaxAttempts \in Nat \ {0}
    /\ MaxPending \in Nat
    /\ Slots \in Nat \ {0}
    /\ TenantConcurrency \in Nat \ {0}
    /\ Env \subseteq RenderEnv

VARIABLES
    account,  \* credits and reserved_credits of the account
    job,      \* video_render_jobs
    run,      \* the goroutine of each attempt at each job
    seen      \* the job a claim in progress has chosen, by process

vars == <<account, job, run, seen>>

Attempts == 1..MaxAttempts
Running == {"materializing", "rendering", "archiving"}
Unfinished == {"queued"} \cup Running
JobStatus == {"absent", "pending_review", "completed", "failed", "cancelled"} \cup Unfinished

\* A run waits for a slot, executes, settles its failure, and is off before
\* and after.
Executing == {"prepare", "download", "encode", "upload", "retry", "terminal"}
RunStep == {"off", "waiting"} \cup Executing

AccountRow == [credits: Int, reserved: Int]
JobRow == [status: JobStatus, attempt: 0..MaxAttempts, leased: BOOLEAN, live: BOOLEAN,
           reserved: Int, settled: Int, released: Int]
RunRow == [step: RunStep, by: Processes \cup {NoProcess}]
Off == [step |-> "off", by |-> NoProcess]

Init ==
    /\ account = [credits |-> InitialCredits, reserved |-> 0]
    /\ job = [j \in Jobs |-> [status |-> "absent", attempt |-> 0, leased |-> FALSE,
                              live |-> FALSE, reserved |-> 0, settled |-> 0, released |-> 0]]
    /\ run = [j \in Jobs |-> [a \in Attempts |-> Off]]
    /\ seen = [p \in Processes |-> NoJob]

Pending == {j \in Jobs : job[j].status \in Unfinished}
LiveRunning == {j \in Jobs : job[j].status \in Running /\ job[j].live}
RunsOf(p, steps) == {r \in Jobs \X Attempts : run[r[1]][r[2]].by = p /\ run[r[1]][r[2]].step \in steps}
Outstanding(j) == job[j].reserved - job[j].settled - job[j].released

\* The lease token of attempt a is the one on the job.
\* Mutant: any token will do while the job is at work.
TokenOfAny(j, a) == job[j].leased
TokenOf(j, a) == job[j].leased /\ job[j].attempt = a

-----------------------------------------------------------------------------
(***************************************************************************)
(* Credits and members.                                                    *)
(***************************************************************************)

\* The end of a job whose hold is returned.
Returned(j, status) ==
    [job[j] EXCEPT !.status = status, !.leased = FALSE, !.live = FALSE,
                   !.released = @ + Outstanding(j)]
CanReturn(j) == 0 <= Outstanding(j) /\ Outstanding(j) <= account.reserved
\* Mutant: only the job notes that its hold is returned.
ReturnOnTheJob(j) == account
ReturnHold(j) == [account EXCEPT !.reserved = @ - Outstanding(j)]

Fits == Cardinality(Pending) < MaxPending

Create(j) ==
    /\ job[j].status = "absent"
    /\ Fits
    /\ account.credits - account.reserved >= Price
    /\ account' = [account EXCEPT !.reserved = @ + Price]
    /\ job' = [job EXCEPT ![j].status = "queued", ![j].reserved = Price]
    /\ UNCHANGED <<run, seen>>

\* Mutant: a result that waits for its review can be cancelled.
CancellableUntilReviewed == Unfinished \cup {"pending_review"}
Cancellable == Unfinished

Cancel(j) ==
    /\ job[j].status \in Cancellable
    /\ CanReturn(j)
    /\ account' = ReturnHold(j)
    /\ job' = [job EXCEPT ![j] = Returned(j, "cancelled")]
    /\ UNCHANGED <<run, seen>>

Review(j, approved) ==
    /\ job[j].status = "pending_review"
    /\ job' = [job EXCEPT ![j].status = IF approved THEN "completed" ELSE "failed"]
    /\ UNCHANGED <<account, run, seen>>

-----------------------------------------------------------------------------
(***************************************************************************)
(* The loop of a worker process: claim a job, wait for a slot, start the   *)
(* run. The claim counts the leases of the organization and writes its own *)
(* without a lock on the organization.                                     *)
(***************************************************************************)

\* Mutant: a job is not taken over.
ClaimableQueued(j) == job[j].status = "queued"
Claimable(j) ==
    \/ job[j].status = "queued"
    \/ job[j].status \in Running /\ ~job[j].live /\ job[j].attempt < MaxAttempts

HasRoom == Cardinality(LiveRunning) < TenantConcurrency

ClaimRead(p, j) ==
    /\ seen[p] = NoJob
    /\ RunsOf(p, {"waiting"}) = {}
    /\ "overlap" \in Env \/ \A q \in Processes : seen[q] = NoJob
    /\ Claimable(j) /\ HasRoom
    /\ seen' = [seen EXCEPT ![p] = j]
    /\ UNCHANGED <<account, job, run>>

ClaimWrite(p) ==
    LET j == seen[p]
    IN  /\ j # NoJob
        /\ IF Claimable(j)
           THEN /\ job' = [job EXCEPT ![j].status = "materializing", ![j].attempt = @ + 1,
                                      ![j].leased = TRUE, ![j].live = TRUE]
                /\ run' = [run EXCEPT ![j][job[j].attempt + 1] = [step |-> "waiting", by |-> p]]
           ELSE UNCHANGED <<job, run>>
        /\ seen' = [seen EXCEPT ![p] = NoJob]
        /\ UNCHANGED account

HasSlot(p) == Cardinality(RunsOf(p, Executing)) < Slots

Take(p) ==
    /\ HasSlot(p)
    /\ \E r \in RunsOf(p, {"waiting"}) : run' = [run EXCEPT ![r[1]][r[2]].step = "prepare"]
    /\ UNCHANGED <<account, job, seen>>

-----------------------------------------------------------------------------
(***************************************************************************)
(* The run of attempt a at job j: each step does its work and then its     *)
(* transaction.                                                            *)
(***************************************************************************)

At(j, a, step) == run[j][a].step = step
GoTo(j, a, step) == run' = [run EXCEPT ![j][a].step = step]
Stop(j, a) == run' = [run EXCEPT ![j][a] = Off]

\* The phase is written under the token; without it the run fails.
AdvanceVideoRenderPhase(j, a, status, step) ==
    IF TokenOf(j, a)
    THEN job' = [job EXCEPT ![j].status = status] /\ GoTo(j, a, step)
    ELSE GoTo(j, a, "retry") /\ UNCHANGED job

Prepare(j, a) ==
    /\ At(j, a, "prepare")
    /\ \/ (GoTo(j, a, "terminal") \/ GoTo(j, a, "retry")) /\ UNCHANGED job
       \/ AdvanceVideoRenderPhase(j, a, "materializing", "download")
    /\ UNCHANGED <<account, seen>>

Download(j, a) ==
    /\ At(j, a, "download")
    /\ \/ GoTo(j, a, "retry") /\ UNCHANGED job
       \/ AdvanceVideoRenderPhase(j, a, "rendering", "encode")
    /\ UNCHANGED <<account, seen>>

Encode(j, a) ==
    /\ At(j, a, "encode")
    /\ \/ GoTo(j, a, "terminal") /\ UNCHANGED job
       \/ AdvanceVideoRenderPhase(j, a, "archiving", "upload")
    /\ UNCHANGED <<account, seen>>

\* The result is archived, then the hold is spent and the job put up for
\* review; if that cannot be done the run fails.
\* Mutant: what is held is taken to be there.
CanFinishUnchecked(j, a) ==
    /\ TokenOf(j, a)
    /\ job[j].status \in {"rendering", "archiving"}
    /\ Outstanding(j) = Price
    /\ account.reserved >= Price
CanFinish(j, a) ==
    /\ TokenOf(j, a)
    /\ job[j].status \in {"rendering", "archiving"}
    /\ Outstanding(j) = Price
    /\ account.credits >= Price /\ account.reserved >= Price

Upload(j, a) ==
    /\ At(j, a, "upload")
    /\ \/ GoTo(j, a, "retry") /\ UNCHANGED <<account, job>>
       \/ ~CanFinish(j, a) /\ GoTo(j, a, "retry") /\ UNCHANGED <<account, job>>
       \/ /\ CanFinish(j, a)
          /\ account' = [credits |-> account.credits - Price,
                         reserved |-> account.reserved - Price]
          /\ job' = [job EXCEPT ![j].status = "pending_review", ![j].leased = FALSE,
                                ![j].live = FALSE, ![j].settled = Price]
          /\ Stop(j, a)
    /\ UNCHANGED seen

\* A failure ends the job, or puts it back into the queue with its hold.
\* Mutant: the last attempt is queued again.
OverWhenTerminal(j, a) == At(j, a, "terminal")
Over(j, a) == At(j, a, "terminal") \/ job[j].attempt >= MaxAttempts

Fail(j, a) ==
    /\ At(j, a, "retry") \/ At(j, a, "terminal")
    /\ \/ /\ TokenOf(j, a) /\ Over(j, a) /\ CanReturn(j)
          /\ account' = ReturnHold(j)
          /\ job' = [job EXCEPT ![j] = Returned(j, "failed")]
       \/ /\ TokenOf(j, a) /\ ~Over(j, a)
          /\ job' = [job EXCEPT ![j].status = "queued", ![j].leased = FALSE, ![j].live = FALSE]
          /\ UNCHANGED account
       \/ /\ ~TokenOf(j, a) \/ (Over(j, a) /\ ~CanReturn(j))
          /\ UNCHANGED <<account, job>>
    /\ Stop(j, a)
    /\ UNCHANGED seen

\* The ticker of an executing run; a lost token does not stop the run.
Heartbeat(j, a) ==
    /\ run[j][a].step \in Executing
    /\ TokenOf(j, a) /\ job[j].status \in Running
    /\ job' = [job EXCEPT ![j].live = TRUE]
    /\ UNCHANGED <<account, run, seen>>

Work(j, a) == Prepare(j, a) \/ Download(j, a) \/ Encode(j, a) \/ Upload(j, a) \/ Fail(j, a)

-----------------------------------------------------------------------------
(***************************************************************************)
(* Time, crashes and the rest of the system.                               *)
(***************************************************************************)

\* Someone renews the lease of the job, or is about to: a run that waits for a
\* slot does not.
Kept(j) ==
    \E a \in Attempts :
        /\ TokenOf(j, a)
        /\ \/ run[j][a].step \in Executing
           \/ run[j][a].step = "waiting" /\ HasSlot(run[j][a].by)

LeaseExpires(j) ==
    /\ job[j].status \in Running /\ job[j].live
    /\ "pause" \in Env \/ ~Kept(j)
    /\ job' = [job EXCEPT ![j].live = FALSE]
    /\ UNCHANGED <<account, run, seen>>

Crash(p) ==
    /\ "crash" \in Env
    /\ RunsOf(p, RunStep) # {}
    /\ run' = [j \in Jobs |-> [a \in Attempts |-> IF run[j][a].by = p THEN Off ELSE run[j][a]]]
    /\ seen' = [seen EXCEPT ![p] = NoJob]
    /\ UNCHANGED <<account, job>>

LateCharge ==
    /\ "late" \in Env
    /\ account.credits > LeastCredits
    /\ account' = [account EXCEPT !.credits = @ - 1]
    /\ UNCHANGED <<job, run, seen>>

Next ==
    \/ \E j \in Jobs : \/ Create(j) \/ Cancel(j) \/ LeaseExpires(j)
                       \/ \E approved \in BOOLEAN : Review(j, approved)
                       \/ \E a \in Attempts : Work(j, a) \/ Heartbeat(j, a)
    \/ \E p \in Processes : \/ ClaimWrite(p) \/ Take(p) \/ Crash(p)
                             \/ \E j \in Jobs : ClaimRead(p, j)
    \/ LateCharge

Spec == Init /\ [][Next]_vars

\* Runs, the loop of each process and the clock go on for ever; members, crashes
\* and late charges owe nothing.
Fairness ==
    /\ \A j \in Jobs, a \in Attempts : WF_vars(Work(j, a))
    /\ \A j \in Jobs : WF_vars(~Kept(j) /\ LeaseExpires(j))
    /\ \A p \in Processes : /\ WF_vars(Take(p)) /\ WF_vars(ClaimWrite(p))
                            /\ WF_vars(\E j \in Jobs : ClaimRead(p, j))

FairSpec == Spec /\ Fairness

-----------------------------------------------------------------------------
(***************************************************************************)
(* Safety.                                                                 *)
(***************************************************************************)

\* The rows have their types, no render has more than MaxAttempts attempts, and
\* one that waits to be claimed has an attempt left: its claim does not look.
TypeOK ==
    /\ account \in AccountRow
    /\ job \in [Jobs -> JobRow]
    /\ \A j \in Jobs : job[j].status \in {"absent", "queued"} => job[j].attempt < MaxAttempts
    /\ run \in [Jobs -> [Attempts -> RunRow]]
    /\ seen \in [Processes -> Jobs \cup {NoJob}]

\* The three counters of a job follow its status: a hold is open exactly while
\* the render is to come, a result is paid in full, a cancelled render is free,
\* and a failed one is free unless it was a result that a member rejected.
Open(row) == row.reserved = Price /\ row.settled = 0 /\ row.released = 0
Spent(row) == row.reserved = Price /\ row.settled = Price /\ row.released = 0
Freed(row) == row.reserved = Price /\ row.settled = 0 /\ row.released = Price
Balanced(row) ==
    /\ row.status = "absent" => row.reserved = 0 /\ row.settled = 0 /\ row.released = 0
    /\ row.status \in Unfinished => Open(row)
    /\ row.status \in {"pending_review", "completed"} => Spent(row)
    /\ row.status = "cancelled" => Freed(row)
    /\ row.status = "failed" => Spent(row) \/ Freed(row)
Envelope == \A j \in Jobs : Balanced(job[j])

\* What the account reserves is the price of every render that is to come.
Reservations == account.reserved = Price * Cardinality(Pending)

\* The stored phase is the one the holder of the lease has reached, whatever
\* older runs of the job still do.
PhaseAt(j, a) ==
    TokenOf(j, a) =>
        /\ job[j].status \in Running
        /\ run[j][a].step \in {"waiting", "prepare", "download"} => job[j].status = "materializing"
        /\ run[j][a].step = "encode" => job[j].status = "rendering"
        /\ run[j][a].step = "upload" => job[j].status = "archiving"
PhaseOfHolder == \A j \in Jobs, a \in Attempts : PhaseAt(j, a)

(***************************************************************************)
(* What no step may do.                                                    *)
(***************************************************************************)

\* model/video_render.go:3-6: the stages are linear and none is skipped. A
\* failure or a takeover starts again, and a render that ended stays ended.
Stage ==
    {<<"absent", "queued">>, <<"queued", "materializing">>,
     <<"materializing", "rendering">>, <<"rendering", "archiving">>,
     <<"archiving", "pending_review">>,
     <<"pending_review", "completed">>, <<"pending_review", "failed">>}
    \cup (Running \X {"queued", "materializing", "failed"})
    \cup (Unfinished \X {"cancelled"})
StageStep ==
    \A j \in Jobs : job'[j].status # job[j].status => <<job[j].status, job'[j].status>> \in Stage
LinearStages == [][StageStep]_vars

(***************************************************************************)
(* The hold of a render is one of CreditHold.                              *)
(***************************************************************************)

HoldOfRow(row) ==
    IF row.reserved = 0 THEN "none"
    ELSE IF row.settled > 0 THEN "spent"
    ELSE IF row.released > 0 THEN "returned" ELSE "held"
HoldOf == [j \in Jobs |-> HoldOfRow(job[j])]

Envelopes == INSTANCE CreditHold WITH hold <- HoldOf, balance <- account.credits

\* A render takes its price from free credits once, and spends it or gives it
\* back once, under every fault.
HeldOnce == Envelopes!HoldSpec

(***************************************************************************)
(* Liveness.                                                               *)
(***************************************************************************)

\* Lost on its last attempt: no claim takes the job over.
Stranded(j) == job[j].status \in Running /\ ~job[j].live /\ job[j].attempt = MaxAttempts

\* Every render is decided or ends up stranded, however processes crash and
\* although its lease runs while it waits for a slot.
DecidedOrStranded == \A j \in Jobs : j \in Pending ~> j \notin Pending \/ Stranded(j)

\* docs pending-test.mdx:188: a render whose lease expired can be taken over by
\* another worker. So it does not stay with an expired lease for ever.
TakenOver ==
    \A j \in Jobs : job[j].status \in Running /\ ~job[j].live
                     ~> job[j].live \/ job[j].status \notin Running

=============================================================================
