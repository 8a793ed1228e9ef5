------------------------------ MODULE AgentRun ------------------------------
(***************************************************************************)
(* One run of the canvas agent: the completions a goroutine requests from  *)
(* the model, the tool calls that pages of the browser execute under a     *)
(* lease, confirmations, retries, reverts and cancellation, the registry   *)
(* of cancel functions in the process, and the expiry that every request   *)
(* about the run performs (service/agent.go, repository/agent.go).         *)
(*                                                                         *)
(* Abstractions: the content of answers, results and the canvas, the plan  *)
(* shown to the user, memories and events; the token of a tool lease is    *)
(* its age, since whoever holds it may renew it; of the budgets only the   *)
(* number of calls is counted, any other may be exhausted at any time. One *)
(* process; a run that waits for its timeout has no execution at work, for *)
(* a completion is cut off after 300 seconds and the timeouts are 6 and 15 *)
(* minutes.                                                                *)
(***************************************************************************)
EXTENDS Integers, FiniteSets

CONSTANTS
    Calls,        \* tool call ids
    Retryable,    \* calls of tools that may be tried again
    Revertible,   \* calls whose work on the canvas can be undone
    Danger,       \* calls that wait for the user's confirmation
    Ask,          \* those of them that ask a question
    Threads,      \* bound on the goroutines and handlers that start one
    None,
    MaxToolCalls, \* budget of the run
    MaxCrashes,   \* bound on Crash
    Env

\* plan: the bookkeeping of the plan fails after a result was committed
AgentEnv == {"plan"}

ASSUME AgentAssumption ==
    /\ IsFiniteSet(Calls)
    /\ Retryable \subseteq Revertible /\ Revertible \subseteq Calls
    /\ Ask \subseteq Danger /\ Danger \subseteq Calls
    /\ Retryable \cap Danger = {} /\ Revertible \cap Ask = {}
    /\ None \notin Threads
    /\ MaxToolCalls \in Nat /\ MaxCrashes \in Nat
    /\ Env \subseteq AgentEnv

VARIABLES
    status,     \* agent_runs.status
    old,        \* was agent_runs.updated_at passed by the timeout of the status?
    tool,       \* agent_steps of type tool
    completion, \* the running step of type completion, and its claim
    begun,      \* request numbers with a generation task
    thread,     \* startAgentRun and executeAgentRun
    registry,   \* agentRuns.cancels
    signals,    \* handlers that ended the run and have yet to look it up there
    poll,       \* a request that found no execution and has yet to expire the run
    submitting, \* a failed result whose handler counted the failures before
    reverted,   \* calls with a tool.reverted event
    overrun,    \* no column: has the run been ended while an execution was at work on it?
    crashes

vars == <<status, old, tool, completion, begun, thread, registry, signals, poll,
          submitting, reverted, overrun, crashes>>

rows == <<status, old, tool, completion>>
handlers == <<signals, poll, submitting>>

Terminal == {"completed", "failed", "cancelled"}
With(s) == {c \in Calls : tool[c].status = s}
Finished == With("completed") \cup With("failed")
Room == Cardinality(Finished) < MaxToolCalls

\* The number of the next request to the model.
Request == Cardinality(Finished) + 1

\* `late' is no column: the call was sent out after another one had failed.
NoCall == [status |-> "none", confirmed |-> "", lease |-> "none", late |-> FALSE]
NewCall == [NoCall EXCEPT !.status = "running", !.late = With("failed") # {}]

\* Nothing reads the lease of a call that is over.
Over(c, s) == [NoCall EXCEPT !.status = s, !.confirmed = tool[c].confirmed]

Idle == [pc |-> "idle", req |-> 0, cancelled |-> FALSE]
NoEntry == [req |-> 0, thread |-> None]

Executing == {"claimed", "registered", "run", "called", "answered", "failing"}
Current == {t \in Threads : thread[t].pc \in Executing}

Init ==
    /\ status = "none" /\ old = FALSE /\ completion = "none"
    /\ tool = [c \in Calls |-> NoCall]
    /\ begun = {} /\ reverted = {} /\ overrun = FALSE
    /\ thread = [t \in Threads |-> Idle]
    /\ registry = NoEntry
    /\ signals = {} /\ poll = "idle"
    /\ submitting = [c \in Calls |-> "no"]
    /\ crashes = 0

(***************************************************************************)
(* Pieces of transactions                                                  *)
(***************************************************************************)

\* Ending the run takes every running step along.
End(s, step) ==
    /\ status' = s /\ old' = FALSE /\ completion' = "none"
    /\ tool' = [c \in Calls |-> IF tool[c].status = "running"
                                THEN Over(c, step) ELSE tool[c]]

\* Something ends the step other executions than those in ts work for.
Overrun(ts) == overrun' = (overrun \/ Current \ ts # {})

\* A handler runs startAgentRun.
Start == \E t \in Threads : /\ thread[t].pc = "idle"
                            /\ thread' = [thread EXCEPT ![t].pc = "start"]

\* The last result of a round makes a new completion step.
Resume == status' = "running" /\ old' = FALSE /\ completion' = "free"

(***************************************************************************)
(* Messages and executions                                                 *)
(***************************************************************************)

SubmitMessage ==
    /\ status = "none"
    /\ Resume /\ Start
    /\ UNCHANGED <<tool, begun, registry, handlers, reverted, overrun, crashes>>

\* The same message again finds the run, and executes it if no one does.
SubmitAgain ==
    /\ status = "running" /\ registry = NoEntry
    /\ Start
    /\ UNCHANGED <<rows, begun, registry, handlers, reverted, overrun, crashes>>

To(t, pc) == thread' = [thread EXCEPT ![t].pc = pc]

\* The request number comes from the calls that are over by now, ...
Count(t) ==
    /\ thread[t].pc = "start"
    /\ thread' = [thread EXCEPT ![t].pc = "counted", ![t].req = Request]
    /\ UNCHANGED <<rows, begun, registry, handlers, reverted, overrun, crashes>>

\* Mutant: the claim overwrites the token of another.
ClaimableHeld == completion # "none"
Claimable == completion \in {"free", "lapsed"}

\* ... the claim takes whatever completion step is running.
ClaimRun(t) ==
    /\ thread[t].pc = "counted"
    /\ \/ /\ Claimable
          /\ completion' = "held"
          /\ To(t, "claimed")
       \/ /\ ~Claimable
          /\ thread' = [thread EXCEPT ![t] = Idle]
          /\ UNCHANGED completion
    /\ UNCHANGED <<status, old, tool, begun, registry, handlers, reverted, overrun, crashes>>

Register(t) ==
    /\ thread[t].pc = "claimed"
    /\ registry' = [req |-> thread[t].req, thread |-> t]
    /\ To(t, "registered")
    /\ UNCHANGED <<rows, begun, handlers, reverted, overrun, crashes>>

\* Mutant: the early return forgets the entry.
RecheckForgetting(t) ==
    /\ thread[t].pc = "registered"
    /\ IF status = "running" THEN To(t, "run") ELSE thread' = [thread EXCEPT ![t] = Idle]
    /\ UNCHANGED <<rows, begun, registry, handlers, reverted, overrun, crashes>>
\* A run that ended before it was registered is not executed.
Recheck(t) ==
    /\ thread[t].pc = "registered"
    /\ To(t, IF status = "running" THEN "run" ELSE "leaving")
    /\ UNCHANGED <<rows, begun, registry, handlers, reverted, overrun, crashes>>

\* The generation task is charged under the lock of the run, once per request
\* number. Without it: answers that need no model, or any budget used up.
Begin(t) ==
    /\ thread[t].pc = "run"
    /\ \/ /\ Room
          /\ status \in {"running", "tool"} /\ thread[t].req \notin begun
          /\ begun' = begun \cup {thread[t].req}
          /\ To(t, "called") /\ UNCHANGED old
       \/ To(t, "answered") /\ old' \in {old, FALSE} /\ UNCHANGED begun
       \/ To(t, "failing") /\ UNCHANGED <<old, begun>>
    /\ UNCHANGED <<status, tool, completion, registry, handlers, reverted, overrun, crashes>>

\* The model answers, fails, or the context is cancelled or times out.
Upstream(t) ==
    /\ thread[t].pc = "called"
    /\ To(t, "answered") \/ To(t, "failing")
    /\ UNCHANGED <<rows, begun, registry, handlers, reverted, overrun, crashes>>

\* The end of an execution: text completes the run, calls suspend it. The
\* transactions look at the status of the run and not at the claim.
WriteText(t) ==
    /\ thread[t].pc = "answered" /\ status = "running"
    /\ End("completed", "completed")
    /\ To(t, "leaving") /\ Overrun({t})
    /\ UNCHANGED <<begun, registry, handlers, reverted, crashes>>

Suspend(t, sent, s) ==
    /\ thread[t].pc = "answered" /\ status = "running" /\ completion # "none"
    /\ Room
    /\ status' = s /\ old' = FALSE /\ completion' = "none"
    /\ tool' = [c \in Calls |-> IF c \in sent THEN NewCall ELSE tool[c]]
    /\ To(t, "leaving") /\ Overrun({t})
    /\ UNCHANGED <<begun, registry, handlers, reverted, crashes>>

WriteTools(t) ==
    \E sent \in SUBSET (With("none") \ Danger) :
        /\ sent # {}
        /\ Cardinality(Finished) + Cardinality(sent) <= MaxToolCalls
        /\ Suspend(t, sent, "tool")

WriteConfirm(t) == \E c \in With("none") \cap Danger : Suspend(t, {c}, "confirm")

WriteRefused(t) ==
    /\ thread[t].pc = "answered" /\ status # "running"
    /\ To(t, "failing")
    /\ UNCHANGED <<rows, begun, registry, handlers, reverted, overrun, crashes>>

FailRun(t) ==
    /\ thread[t].pc = "failing"
    /\ \/ status = "running" /\ End("failed", "failed") /\ To(t, "leaving") /\ Overrun({t})
       \/ status # "running" /\ To(t, "leaving") /\ UNCHANGED <<rows, overrun>>
    /\ UNCHANGED <<begun, registry, handlers, reverted, crashes>>

\* Mutant: the entry keeps its request number.
WithoutThread(t) == [registry EXCEPT !.thread = None]
\* Mutant: whatever entry there is is removed.
WithoutAny(t) == NoEntry
\* Only the entry of the same request number is removed.
WithoutEntry(t) == IF registry.req = thread[t].req THEN NoEntry ELSE registry

Leave(t) ==
    /\ thread[t].pc = "leaving"
    /\ registry' = WithoutEntry(t)
    /\ thread' = [thread EXCEPT ![t] = Idle]
    /\ UNCHANGED <<rows, begun, handlers, reverted, overrun, crashes>>

ThreadStep(t) ==
    \/ Count(t) \/ ClaimRun(t) \/ Register(t) \/ Recheck(t) \/ Begin(t) \/ Upstream(t)
    \/ WriteText(t) \/ WriteTools(t) \/ WriteConfirm(t) \/ WriteRefused(t)
    \/ FailRun(t) \/ Leave(t)

(***************************************************************************)
(* Tool calls                                                              *)
(***************************************************************************)

\* A page claims or renews a call, or takes it over when its lease ran out. A
\* handler that saw the run waiting may get here after a sibling failed it.
ClaimTool(c) ==
    /\ status \in {"tool", "failed"}
    /\ tool[c].status = "running" /\ tool[c].lease # "live"
    /\ tool' = [tool EXCEPT ![c].lease = "live"]
    /\ submitting' \in {submitting, [submitting EXCEPT ![c] = "no"]}
    /\ UNCHANGED <<status, old, completion, begun, thread, registry, signals, poll, reverted, overrun, crashes>>

Accepted(c) == status = "tool" /\ tool[c].status = "running" /\ tool[c].lease = "live"

\* Mutant: the run goes on at the first result of a round.
LastOfAny(c) == TRUE
Last(c) == With("running") = {c}

\* The run goes on when no sibling is out; when the bookkeeping of the plan
\* fails then, nobody starts the execution.
Proceed(c, s) ==
    /\ tool' = [tool EXCEPT ![c] = Over(c, s)]
    /\ \/ ~Last(c) /\ old' = FALSE /\ UNCHANGED <<status, completion, thread>>
       \/ Last(c) /\ Resume /\ Start
       \/ Last(c) /\ Resume /\ "plan" \in Env /\ UNCHANGED thread

SubmitSuccess(c) ==
    /\ Accepted(c)
    /\ Proceed(c, "completed")
    /\ UNCHANGED <<begun, registry, handlers, reverted, overrun, crashes>>

\* Mutant: a run goes on whatever has failed before.
ForgivenAlways(c) == c \in Retryable
Forgiven(c) == c \in Retryable /\ With("failed") = {}

\* A failed result is forgiven when no call has failed before ...
ReadFailures(c) ==
    /\ tool[c].status = "running" /\ tool[c].lease # "none" /\ submitting[c] = "no"
    /\ submitting' = [submitting EXCEPT ![c] =
                        IF Forgiven(c) THEN "forgive" ELSE "end"]
    /\ UNCHANGED <<rows, begun, thread, registry, signals, poll, reverted, overrun, crashes>>

\* ... as it was counted before the transaction. The running siblings of the
\* call that ends the run keep their status.
SubmitFailure(c) ==
    /\ submitting[c] # "no"
    /\ submitting' = [submitting EXCEPT ![c] = "no"]
    /\ \/ Accepted(c) /\ submitting[c] = "forgive" /\ Proceed(c, "failed")
       \/ /\ Accepted(c) /\ submitting[c] = "end"
          /\ tool' = [tool EXCEPT ![c] = Over(c, "failed")]
          /\ status' = "failed" /\ old' = FALSE
          /\ UNCHANGED <<completion, thread>>
       \/ ~Accepted(c) /\ UNCHANGED <<rows, thread>>
    /\ UNCHANGED <<begun, registry, signals, poll, reverted, overrun, crashes>>

Undecided(c) == status = "confirm" /\ tool[c].status = "running" /\ tool[c].confirmed = ""

Approve(c) ==
    /\ c \notin Ask /\ Undecided(c)
    /\ tool' = [tool EXCEPT ![c].confirmed = "approved"]
    /\ status' = "tool" /\ old' = FALSE
    /\ UNCHANGED <<completion, begun, thread, registry, handlers, reverted, overrun, crashes>>

\* A rejected call and an answered question are results.
Decline(c) ==
    /\ Undecided(c)
    /\ \E d \in IF c \in Ask THEN {"approved", "rejected"} ELSE {"rejected"} :
          tool' = [tool EXCEPT ![c] = [Over(c, "completed") EXCEPT !.confirmed = d]]
    /\ Resume /\ Start
    /\ UNCHANGED <<begun, registry, handlers, reverted, overrun, crashes>>

\* The user tries a failed call again, as a new call d.
Retry(c, d) ==
    /\ status = "failed"
    /\ c \in Retryable /\ tool[c].status = "failed"
    /\ d \in Retryable /\ tool[d].status = "none"
    /\ Room
    /\ tool' = [tool EXCEPT ![d] = NewCall]
    /\ status' = "tool" /\ old' = FALSE
    /\ UNCHANGED <<completion, begun, thread, registry, handlers, reverted, overrun, crashes>>

(***************************************************************************)
(* Cancelling and reverting                                                *)
(***************************************************************************)

Cancel ==
    /\ status \in {"running", "tool", "confirm"}
    /\ End("cancelled", "cancelled")
    /\ signals' = signals \cup {"cancel"}
    /\ UNCHANGED <<begun, thread, registry, poll, submitting, reverted, overrun, crashes>>

\* Undoing calls cancels a run that is not over; what was undone is kept where
\* it is asked for again, in a failed run, which a retry continues. A handler that
\* reverts signals whatever it found, also when it had nothing to do.
Revert(calls, again) ==
    /\ "revert" \notin signals
    /\ reverted' = IF status = "failed" THEN reverted \cup calls ELSE reverted
    /\ \/ ~(status \in Terminal \/ again) /\ End("cancelled", "cancelled")
       \/ (status \in Terminal \/ again) /\ UNCHANGED rows
    /\ signals' = signals \cup {"revert"}
    /\ UNCHANGED <<begun, thread, registry, poll, submitting, overrun, crashes>>

RevertTool(c) ==
    /\ c \in Revertible
    /\ tool[c].status \in {"running", "completed"} /\ tool[c].confirmed # "rejected"
    /\ Revert({c}, c \in reverted)

Succeeded == {c \in With("completed") : tool[c].confirmed # "rejected"}

\* The page names calls it applied to the canvas although they did not succeed.
RevertRun ==
    \E applied \in SUBSET (Calls \ With("none")) :
        LET calls == {c \in Revertible \cap (Succeeded \cup applied) : tool[c].confirmed # "rejected"}
        IN  calls # {} /\ Revert(calls, FALSE)

\* The handler looks up the execution and cancels its context.
Signal(k) ==
    /\ k \in signals
    /\ signals' = signals \ {k}
    /\ thread' = IF registry = NoEntry THEN thread
                 ELSE [thread EXCEPT ![registry.thread].cancelled = TRUE]
    /\ UNCHANGED <<rows, begun, registry, poll, submitting, reverted, overrun, crashes>>

(***************************************************************************)
(* Time, expiry and crashes                                                *)
(***************************************************************************)

\* Every request about the run first expires one that waits for silent pages, ...
ExpireWaiting ==
    /\ status = "tool" /\ old
    /\ \A c \in With("running") : tool[c].lease \in {"none", "silent"}
    /\ End("failed", "failed")
    /\ UNCHANGED <<begun, thread, registry, handlers, reverted, overrun, crashes>>

\* ... then looks for an execution in the process and without one expires ...
LookForExecution ==
    /\ poll = "idle" /\ status = "running" /\ old /\ registry = NoEntry
    /\ poll' = "expire"
    /\ UNCHANGED <<rows, begun, thread, registry, signals, submitting, reverted, overrun, crashes>>

\* ... a run that has not moved.
ExpireRunning ==
    /\ poll = "expire" /\ poll' = "idle"
    /\ \/ status = "running" /\ old /\ End("failed", "failed") /\ Overrun({})
       \/ ~(status = "running" /\ old) /\ UNCHANGED <<rows, overrun>>
    /\ UNCHANGED <<begun, thread, registry, signals, submitting, reverted, crashes>>

AgeRun ==
    /\ ~old
    /\ \/ status = "tool"
       \/ status = "running" /\ Current = {}
    /\ old' = TRUE
    /\ UNCHANGED <<status, tool, completion, begun, thread, registry, handlers, reverted, overrun, crashes>>

AgeClaim ==
    /\ completion = "held" /\ Current = {}
    /\ completion' = "lapsed"
    /\ UNCHANGED <<status, old, tool, begun, thread, registry, handlers, reverted, overrun, crashes>>

\* 90 seconds without a heartbeat, then 15 minutes.
AgeLease(c) ==
    /\ tool[c].status = "running"
    /\ \/ tool[c].lease = "live" /\ tool' = [tool EXCEPT ![c].lease = "lapsed"]
       \/ tool[c].lease = "lapsed" /\ tool' = [tool EXCEPT ![c].lease = "silent"]
    /\ UNCHANGED <<status, old, completion, begun, thread, registry, handlers, reverted, overrun, crashes>>

Crash ==
    /\ crashes < MaxCrashes
    /\ crashes' = crashes + 1
    /\ thread' = [t \in Threads |-> Idle]
    /\ registry' = NoEntry
    /\ signals' = {} /\ poll' = "idle"
    /\ submitting' = [c \in Calls |-> "no"]
    /\ UNCHANGED <<rows, begun, reverted, overrun>>

CallStep(c) ==
    \/ ClaimTool(c) \/ SubmitSuccess(c) \/ ReadFailures(c) \/ SubmitFailure(c)
    \/ Approve(c) \/ Decline(c) \/ RevertTool(c) \/ \E d \in Calls : Retry(c, d)

Time == AgeRun \/ AgeClaim \/ \E c \in Calls : AgeLease(c)

Next ==
    \/ SubmitMessage \/ SubmitAgain
    \/ \E t \in Threads : ThreadStep(t)
    \/ \E c \in Calls : CallStep(c)
    \/ Cancel \/ RevertRun \/ \E k \in signals : Signal(k)
    \/ ExpireWaiting \/ LookForExecution \/ ExpireRunning
    \/ Time \/ Crash

Spec == Init /\ [][Next]_vars

(***************************************************************************)
(* Properties                                                              *)
(***************************************************************************)

CallRow == [status : {"none", "running", "completed", "failed", "cancelled"},
            confirmed : {"", "approved", "rejected"},
            lease : {"none", "live", "lapsed", "silent"}, late : BOOLEAN]

ThreadRow == [pc : Executing \cup {"idle", "start", "counted", "leaving"},
              req : 0 .. Cardinality(Calls) + 1, cancelled : BOOLEAN]

\* The rows, goroutines and handlers keep their shape.
TypeOK ==
    /\ status \in {"none", "running", "tool", "confirm"} \cup Terminal
    /\ old \in BOOLEAN
    /\ tool \in [Calls -> CallRow]
    /\ completion \in {"none", "free", "held", "lapsed"}
    /\ begun \subseteq 1 .. Cardinality(Calls) + 1
    /\ thread \in [Threads -> ThreadRow]
    /\ registry \in [req : 1 .. Cardinality(Calls) + 1, thread : Threads] \cup {NoEntry}
    /\ signals \subseteq {"cancel", "revert"}
    /\ poll \in {"idle", "expire"}
    /\ submitting \in [Calls -> {"no", "forgive", "end"}]
    /\ reverted \subseteq Revertible
    /\ overrun \in BOOLEAN
    /\ crashes \in 0 .. MaxCrashes

\* The status of a run is the work it has: a running run has a completion step
\* and no call out, a waiting one has calls out and no completion step, one that
\* waits for the user has the call to decide, and one that ended has nothing;
\* only a run failed by a result may leave calls of that round behind.
Drives ==
    /\ status = "running" <=> completion # "none"
    /\ status \in {"none", "running", "completed", "cancelled"} => With("running") = {}
    /\ status = "tool" => With("running") # {}
    /\ status = "confirm" => \E c \in Danger : With("running") = {c} /\ Undecided(c)

\* One execution at a time works for the run, whatever repeated submissions,
\* crashes and retries do, until a late expiry or a stale execution runs over one.
OneExecution == ~overrun => Cardinality(Current) <= 1

\* After a cancellation or a revert has answered, no call to the model goes on
\* with a context that nobody cancelled. Left out: runs in which an execution was
\* run over, and an execution under the request number of an earlier round, which
\* it counted before that round ended, and whose execution may remove its entry.
CancelReaches ==
    status = "cancelled" /\ signals = {} /\ ~overrun
    => \A t \in Threads : /\ thread[t].pc = "called"
                          /\ thread[t].req = Request
                          => thread[t].cancelled

\* An entry of the registry belongs to an execution that will remove it: no poll
\* is kept for ever from expiring a run by an execution that is gone.
NoGhostExecution ==
    registry # NoEntry
    => \E t \in Threads : /\ thread[t].pc \in (Executing \ {"claimed"}) \cup {"leaving"}
                          /\ thread[t].req = registry.req

\* The failure of a call that was sent out after another one failed ends the
\* run: a run is replanned after one failure, or after several of one round.
LateFailureStep ==
    \A c \in Calls : tool[c].late /\ tool[c].status = "running" /\ tool'[c].status = "failed"
                     => status' = "failed"
LateFailureEnds == [][LateFailureStep]_vars

=============================================================================
