--------------------------- MODULE AgentRunProofs ---------------------------
(***************************************************************************)
(* Theorems about AgentRun for every set of calls and goroutines, every    *)
(* budget and any number of crashes.                                       *)
(***************************************************************************)
EXTENDS AgentRun, FiniteSetTheorems, TLAPS

-----------------------------------------------------------------------------
(***************************************************************************)
(* Types.                                                                  *)
(***************************************************************************)

\* The numbers of requests stay in range, for a call is over once.
LEMMA RequestType ==
    ASSUME TypeOK
    PROVE  IsFiniteSet(Finished) /\ Request \in 1 .. Cardinality(Calls) + 1
<1>1. Finished \in SUBSET Calls
  BY DEF Finished, With
<1>2. IsFiniteSet(Finished) /\ Cardinality(Finished) <= Cardinality(Calls)
  BY <1>1, FS_Subset, AgentAssumption DEF AgentAssumption
<1>3. Cardinality(Finished) \in Nat /\ Cardinality(Calls) \in Nat
  BY <1>2, FS_CardinalityType, AgentAssumption DEF AgentAssumption
<1> QED
  BY <1>2, <1>3 DEF Request

\* A goroutine that has counted has a number.
Counted == {t \in Threads : thread[t].pc \notin {"idle", "start"}}
Numbers == \A t \in Counted : thread[t].req \in 1 .. Request

\* A call that is new, and one that is over.
LEMMA CallTypes ==
    ASSUME TypeOK
    PROVE  /\ NoCall \in CallRow /\ NewCall \in CallRow
           /\ \A c \in Calls : \A s \in {"completed", "failed", "cancelled"} :
                 /\ Over(c, s) \in CallRow /\ Over(c, s).status = s
                 /\ ~Over(c, s).late
           /\ NewCall.status = "running" /\ NewCall.confirmed = ""
           /\ NewCall.late = (With("failed") # {})
  BY DEF TypeOK, CallRow, NoCall, NewCall, Over

\* Ending the run leaves rows of their types.
LEMMA EndTypes ==
    ASSUME TypeOK, NEW s \in Terminal, NEW step \in {"completed", "failed", "cancelled"},
           End(s, step)
    PROVE  /\ status' \in Terminal /\ old' \in BOOLEAN /\ completion' = "none"
           /\ tool' \in [Calls -> CallRow]
<1>1. \A c \in Calls : (IF tool[c].status = "running" THEN Over(c, step) ELSE tool[c]) \in CallRow
  BY CallTypes DEF TypeOK
<1> QED
  BY <1>1 DEF End

\* Moving a goroutine, starting one and cancelling one leave goroutines.
LEMMA ThreadTypes ==
    ASSUME TypeOK
    PROVE  /\ [t \in Threads |-> Idle] \in [Threads -> ThreadRow]
           /\ \A t \in Threads :
                 /\ [thread EXCEPT ![t] = Idle] \in [Threads -> ThreadRow]
                 /\ [thread EXCEPT ![t].cancelled = TRUE] \in [Threads -> ThreadRow]
                 /\ [thread EXCEPT ![t].pc = "counted", ![t].req = Request]
                       \in [Threads -> ThreadRow]
                 /\ \A pc \in Executing \cup {"start", "counted", "leaving"} :
                       [thread EXCEPT ![t].pc = pc] \in [Threads -> ThreadRow]
           /\ Start => thread' \in [Threads -> ThreadRow]
<1>1. 0 \in 0 .. Cardinality(Calls) + 1 /\ Request \in 0 .. Cardinality(Calls) + 1
  BY RequestType, FS_CardinalityType, AgentAssumption DEF AgentAssumption
<1>2. Idle \in ThreadRow
  BY <1>1 DEF Idle, ThreadRow
<1>3. \A t \in Threads : thread[t] \in ThreadRow
  BY DEF TypeOK
<1>4. \A t \in Threads : [thread[t] EXCEPT !.cancelled = TRUE] \in ThreadRow
  BY <1>3 DEF ThreadRow
<1>5. \A t \in Threads : [thread[t] EXCEPT !.pc = "counted", !.req = Request] \in ThreadRow
  BY <1>1, <1>3 DEF ThreadRow
<1>6. \A t \in Threads : \A pc \in Executing \cup {"start", "counted", "leaving"} :
         [thread[t] EXCEPT !.pc = pc] \in ThreadRow
  BY <1>3 DEF ThreadRow
<1>7. /\ [t \in Threads |-> Idle] \in [Threads -> ThreadRow]
      /\ \A t \in Threads :
            /\ [thread EXCEPT ![t] = Idle] \in [Threads -> ThreadRow]
            /\ [thread EXCEPT ![t].cancelled = TRUE] \in [Threads -> ThreadRow]
            /\ [thread EXCEPT ![t].pc = "counted", ![t].req = Request]
                  \in [Threads -> ThreadRow]
  BY <1>2, <1>4, <1>5 DEF TypeOK
<1>8. \A t \in Threads : \A pc \in Executing \cup {"start", "counted", "leaving"} :
         [thread EXCEPT ![t].pc = pc] \in [Threads -> ThreadRow]
  BY <1>6 DEF TypeOK
<1>9. Start => thread' \in [Threads -> ThreadRow]
  BY <1>8 DEF Start
<1> QED
  BY <1>7, <1>8, <1>9

LEMMA MoveType ==
    ASSUME TypeOK, NEW t \in Threads, NEW pc \in Executing \cup {"start", "counted", "leaving"},
           To(t, pc)
    PROVE  thread' \in [Threads -> ThreadRow]
BY ThreadTypes DEF To

\* The steps of a goroutine keep the types.
LEMMA ThreadStepType ==
    ASSUME TypeOK, Numbers, NEW t \in Threads, ThreadStep(t)
    PROVE  TypeOK'
<1> USE DEF Executing
<1>1. CASE Count(t)
  BY <1>1, ThreadTypes DEF Count, TypeOK, rows, handlers
<1>2. CASE ClaimRun(t)
  <2>1. CASE completion' = "held" /\ To(t, "claimed")
    BY <1>2, <2>1, ThreadTypes DEF ClaimRun, To, TypeOK, handlers
  <2>2. CASE thread' = [thread EXCEPT ![t] = Idle] /\ UNCHANGED completion
    BY <1>2, <2>2, ThreadTypes DEF ClaimRun, TypeOK, handlers
  <2> QED
    BY <1>2, <2>1, <2>2 DEF ClaimRun
<1>3. CASE Register(t)
  <2>1. thread[t].req \in 1 .. Cardinality(Calls) + 1
    BY <1>3, RequestType, FS_CardinalityType, AgentAssumption
    DEF Register, Numbers, Counted, AgentAssumption
  <2> QED
    BY <1>3, <2>1, ThreadTypes DEF Register, To, TypeOK, rows, handlers
<1>4. CASE Recheck(t)
  BY <1>4, ThreadTypes DEF Recheck, To, TypeOK, rows, handlers
<1>5. CASE Begin(t)
  <2>1. thread[t].req \in 1 .. Cardinality(Calls) + 1
    BY <1>5, RequestType, FS_CardinalityType, AgentAssumption
    DEF Begin, Numbers, Counted, AgentAssumption
  <2>2. \A pc \in {"called", "answered", "failing"} : To(t, pc) => thread' \in [Threads -> ThreadRow]
    BY MoveType
  <2>3. thread' \in [Threads -> ThreadRow] /\ old' \in BOOLEAN
        /\ begun' \subseteq 1 .. Cardinality(Calls) + 1
    BY <1>5, <2>1, <2>2 DEF Begin, TypeOK
  <2> QED
    BY <1>5, <2>3 DEF Begin, TypeOK, handlers
<1>6. CASE Upstream(t)
  <2>1. \A pc \in {"answered", "failing"} : To(t, pc) => thread' \in [Threads -> ThreadRow]
    BY MoveType
  <2> QED
    BY <1>6, <2>1 DEF Upstream, TypeOK, rows, handlers
<1>7. CASE WriteText(t)
  <2>1. End("completed", "completed") /\ "completed" \in Terminal
    BY <1>7 DEF WriteText, Terminal
  <2> QED
    BY <1>7, <2>1, EndTypes, ThreadTypes DEF WriteText, To, Overrun, TypeOK, handlers, Terminal
<1>8. ASSUME NEW sent \in SUBSET Calls, NEW s \in {"tool", "confirm"}, Suspend(t, sent, s)
      PROVE  TypeOK'
  <2>1. tool' \in [Calls -> CallRow]
    BY <1>8, CallTypes DEF Suspend, TypeOK
  <2> QED
    BY <1>8, <2>1, ThreadTypes DEF Suspend, To, Overrun, TypeOK, handlers, Terminal
<1>9. CASE WriteTools(t)
  BY <1>8, <1>9 DEF WriteTools, With
<1>10. CASE WriteConfirm(t)
  BY <1>8, <1>10 DEF WriteConfirm, With
<1>11. CASE WriteRefused(t)
  BY <1>11, ThreadTypes DEF WriteRefused, To, TypeOK, rows, handlers
<1>12. CASE FailRun(t)
  <2>1. CASE End("failed", "failed") /\ To(t, "leaving") /\ Overrun({t})
    BY <1>12, <2>1, EndTypes, ThreadTypes DEF FailRun, To, Overrun, TypeOK, handlers, Terminal
  <2>2. CASE To(t, "leaving") /\ UNCHANGED <<rows, overrun>>
    BY <1>12, <2>2, ThreadTypes DEF FailRun, To, TypeOK, rows, handlers
  <2> QED
    BY <1>12, <2>1, <2>2 DEF FailRun
<1>13. CASE Leave(t)
  BY <1>13, ThreadTypes DEF Leave, WithoutEntry, TypeOK, rows, handlers
<1> QED
  BY <1>1, <1>2, <1>3, <1>4, <1>5, <1>6, <1>7, <1>9, <1>10, <1>11, <1>12, <1>13 DEF ThreadStep

\* A revert cancels the run or leaves its rows alone.
LEMMA RevertType ==
    ASSUME TypeOK, NEW calls \in SUBSET Revertible, NEW again, Revert(calls, again)
    PROVE  TypeOK'
<1>1. CASE End("cancelled", "cancelled")
  <2>1. "cancelled" \in Terminal
    BY DEF Terminal
  <2> QED
    BY <1>1, <2>1, EndTypes DEF Revert, TypeOK
<1>2. CASE UNCHANGED rows
  BY <1>2 DEF Revert, TypeOK, rows
<1> QED
  BY <1>1, <1>2 DEF Revert

\* Leases and confirmations are columns of a call.
LEMMA ColumnTypes ==
    ASSUME TypeOK, NEW c \in Calls
    PROVE  /\ \A l \in {"live", "silent", "lapsed"} : [tool EXCEPT ![c].lease = l] \in [Calls -> CallRow]
           /\ [tool EXCEPT ![c].confirmed = "approved"] \in [Calls -> CallRow]
<1>1. tool \in [Calls -> CallRow] /\ tool[c] \in CallRow
  BY DEF TypeOK
<1>2. \A l \in {"live", "silent", "lapsed"} : [tool[c] EXCEPT !.lease = l] \in CallRow
  BY <1>1 DEF CallRow
<1>3. [tool[c] EXCEPT !.confirmed = "approved"] \in CallRow
  BY <1>1 DEF CallRow
<1> QED
  BY <1>1, <1>2, <1>3

\* The steps of a call keep the types.
LEMMA CallStepType ==
    ASSUME TypeOK, NEW c \in Calls, CallStep(c)
    PROVE  TypeOK'
<1>1. CASE ClaimTool(c)
  <2>1. [tool EXCEPT ![c].lease = "live"] \in [Calls -> CallRow]
    BY ColumnTypes
  <2> QED
    BY <1>1, <2>1 DEF ClaimTool, TypeOK
<1>2. ASSUME NEW s \in {"completed", "failed"}, Proceed(c, s), status = "tool"
      PROVE  /\ status' \in {"tool", "running"} /\ old' \in BOOLEAN
             /\ tool' \in [Calls -> CallRow] /\ completion' \in {"free", completion}
             /\ thread' \in [Threads -> ThreadRow]
  <2>1. tool' \in [Calls -> CallRow]
    BY <1>2, CallTypes DEF Proceed, TypeOK
  <2> QED
    BY <1>2, <2>1, ThreadTypes DEF Proceed, Resume, TypeOK
<1>3. CASE SubmitSuccess(c)
  BY <1>2, <1>3 DEF SubmitSuccess, Accepted, TypeOK, handlers
<1>4. CASE ReadFailures(c)
  BY <1>4 DEF ReadFailures, TypeOK, rows
<1>5. CASE SubmitFailure(c)
  <2>1. submitting' \in [Calls -> {"no", "forgive", "end"}]
    BY <1>5 DEF SubmitFailure, TypeOK
  <2>2. CASE Accepted(c) /\ Proceed(c, "failed")
    BY <1>2, <1>5, <2>1, <2>2 DEF SubmitFailure, Accepted, TypeOK
  <2>3. CASE /\ tool' = [tool EXCEPT ![c] = Over(c, "failed")] /\ status' = "failed"
             /\ old' = FALSE /\ UNCHANGED <<completion, thread>>
    <3>1. tool' \in [Calls -> CallRow]
      BY <2>3, CallTypes DEF TypeOK
    <3> QED
      BY <1>5, <2>1, <2>3, <3>1 DEF SubmitFailure, TypeOK, Terminal
  <2>4. CASE UNCHANGED <<rows, thread>>
    BY <1>5, <2>1, <2>4 DEF SubmitFailure, TypeOK, rows
  <2> QED
    BY <1>5, <2>2, <2>3, <2>4 DEF SubmitFailure
<1>6. CASE Approve(c)
  <2>1. [tool EXCEPT ![c].confirmed = "approved"] \in [Calls -> CallRow]
    BY ColumnTypes
  <2> QED
    BY <1>6, <2>1 DEF Approve, TypeOK, handlers
<1>7. CASE Decline(c)
  <2>1. tool' \in [Calls -> CallRow]
    <3>1. PICK d \in {"approved", "rejected"} :
             tool' = [tool EXCEPT ![c] = [Over(c, "completed") EXCEPT !.confirmed = d]]
      BY <1>7 DEF Decline
    <3>2. [Over(c, "completed") EXCEPT !.confirmed = d] \in CallRow
      BY CallTypes DEF CallRow
    <3> QED
      BY <3>1, <3>2 DEF TypeOK
  <2> QED
    BY <1>7, <2>1, ThreadTypes DEF Decline, Resume, TypeOK, handlers
<1>8. CASE RevertTool(c)
  BY <1>8, RevertType DEF RevertTool
<1>9. ASSUME NEW d \in Calls, Retry(c, d)
      PROVE  TypeOK'
  <2>1. tool' \in [Calls -> CallRow]
    BY <1>9, CallTypes DEF Retry, TypeOK
  <2> QED
    BY <1>9, <2>1 DEF Retry, TypeOK, handlers
<1> QED
  BY <1>1, <1>3, <1>4, <1>5, <1>6, <1>7, <1>8, <1>9 DEF CallStep

\* The remaining steps keep the types.
LEMMA RunStepType ==
    ASSUME TypeOK,
           \/ SubmitMessage \/ SubmitAgain \/ Cancel \/ RevertRun \/ \E k \in signals : Signal(k)
           \/ ExpireWaiting \/ LookForExecution \/ ExpireRunning \/ Time \/ Crash
           \/ UNCHANGED vars
    PROVE  TypeOK'
<1>1. CASE SubmitMessage
  BY <1>1, ThreadTypes DEF SubmitMessage, Resume, TypeOK, handlers
<1>2. CASE SubmitAgain
  BY <1>2, ThreadTypes DEF SubmitAgain, TypeOK, rows, handlers
<1>3. CASE Cancel
  <2>1. "cancelled" \in Terminal
    BY DEF Terminal
  <2> QED
    BY <1>3, <2>1, EndTypes DEF Cancel, TypeOK
<1>4. CASE RevertRun
  <2>1. PICK calls \in SUBSET Revertible : Revert(calls, FALSE)
    BY <1>4 DEF RevertRun
  <2> QED
    BY <2>1, RevertType
<1>5. ASSUME NEW k \in signals, Signal(k)
      PROVE  TypeOK'
  <2>1. CASE registry = NoEntry
    BY <1>5, <2>1 DEF Signal, TypeOK, rows
  <2>2. CASE registry # NoEntry
    <3>1. registry.thread \in Threads
      BY <2>2 DEF TypeOK
    <3> QED
      BY <1>5, <2>2, <3>1, ThreadTypes DEF Signal, TypeOK, rows
  <2> QED
    BY <2>1, <2>2
<1>6. CASE ExpireWaiting
  <2>1. "failed" \in Terminal
    BY DEF Terminal
  <2> QED
    BY <1>6, <2>1, EndTypes DEF ExpireWaiting, TypeOK, handlers
<1>7. CASE LookForExecution
  BY <1>7 DEF LookForExecution, TypeOK, rows
<1>8. CASE ExpireRunning
  <2>1. CASE End("failed", "failed") /\ Overrun({})
    <3>1. "failed" \in Terminal
      BY DEF Terminal
    <3> QED
      BY <1>8, <2>1, <3>1, EndTypes DEF ExpireRunning, Overrun, TypeOK
  <2>2. CASE UNCHANGED <<rows, overrun>>
    BY <1>8, <2>2 DEF ExpireRunning, TypeOK, rows
  <2> QED
    BY <1>8, <2>1, <2>2 DEF ExpireRunning
<1>9. CASE AgeRun
  BY <1>9 DEF AgeRun, TypeOK, handlers
<1>10. CASE AgeClaim
  BY <1>10 DEF AgeClaim, TypeOK, handlers
<1>11. ASSUME NEW c \in Calls, AgeLease(c)
       PROVE  TypeOK'
  <2>1. \A l \in {"lapsed", "silent"} : [tool EXCEPT ![c].lease = l] \in [Calls -> CallRow]
    BY ColumnTypes
  <2> QED
    BY <1>11, <2>1 DEF AgeLease, TypeOK, handlers
<1>12. CASE Crash
  <2>1. thread' \in [Threads -> ThreadRow]
    BY <1>12, ThreadTypes DEF Crash
  <2>2. crashes' \in 0 .. MaxCrashes
    BY <1>12, AgentAssumption DEF Crash, TypeOK, AgentAssumption
  <2> QED
    BY <1>12, <2>1, <2>2 DEF Crash, TypeOK, rows
<1>13. CASE UNCHANGED vars
  BY <1>13 DEF vars, TypeOK
<1> QED
  BY <1>1, <1>2, <1>3, <1>4, <1>5, <1>6, <1>7, <1>8, <1>9, <1>10, <1>11, <1>12, <1>13 DEF Time

-----------------------------------------------------------------------------
(***************************************************************************)
(* The calls: once over a call stays over, and the last result of a round  *)
(* raises the number of the next request.                                  *)
(***************************************************************************)

\* What a step may do to the calls.
LEMMA CallsMove ==
    ASSUME TypeOK, [Next]_vars, NEW c \in Calls
    PROVE  /\ tool[c].status \notin {"none", "running"} => tool'[c].status = tool[c].status
           /\ tool[c].status = "running" => tool'[c].status # "none"
<1> DEFINE Moved == /\ tool[c].status \notin {"none", "running"} => tool'[c].status = tool[c].status
                    /\ tool[c].status = "running" => tool'[c].status # "none"
<1> SUFFICES Moved
  OBVIOUS
<1>0. tool \in [Calls -> CallRow]
  BY DEF TypeOK
<1>1. CASE UNCHANGED tool
  BY <1>1
<1>2. ASSUME NEW s, NEW step \in {"completed", "failed", "cancelled"}, End(s, step)
      PROVE  Moved
  BY <1>2, CallTypes DEF End
<1>3. ASSUME NEW d \in Calls, NEW row, tool' = [tool EXCEPT ![d] = row],
             tool[d].status \in {"none", "running"}, row.status # "none"
      PROVE  Moved
  BY <1>0, <1>3
<1>4. ASSUME NEW d \in Calls, NEW l, tool' = [tool EXCEPT ![d].lease = l]
      PROVE  Moved
  BY <1>0, <1>4 DEF CallRow
<1>5. ASSUME NEW t \in Threads, NEW sent \in SUBSET With("none"), NEW s, Suspend(t, sent, s)
      PROVE  Moved
  BY <1>0, <1>5, CallTypes DEF Suspend, With
<1>6. ASSUME NEW t \in Threads, ThreadStep(t)
      PROVE  Moved
  <2>1. CASE WriteTools(t)
    BY <1>5, <2>1 DEF WriteTools
  <2>2. CASE WriteConfirm(t)
    BY <1>5, <2>2 DEF WriteConfirm
  <2>3. CASE WriteText(t)
    BY <1>2, <2>3 DEF WriteText
  <2>4. CASE FailRun(t)
    BY <1>1, <1>2, <2>4 DEF FailRun, rows
  <2>5. CASE Count(t) \/ ClaimRun(t) \/ Register(t) \/ Recheck(t) \/ Begin(t)
             \/ Upstream(t) \/ WriteRefused(t) \/ Leave(t)
    BY <1>1, <2>5
    DEF Count, ClaimRun, Register, Recheck, Begin, Upstream, WriteRefused, Leave, rows
  <2> QED
    BY <1>6, <2>1, <2>2, <2>3, <2>4, <2>5 DEF ThreadStep
<1>7. ASSUME NEW d \in Calls, CallStep(d)
      PROVE  Moved
  <2>1. CASE ClaimTool(d)
    BY <1>4, <2>1 DEF ClaimTool
  <2>2. ASSUME NEW s \in {"completed", "failed"}, Accepted(d), tool' = [tool EXCEPT ![d] = Over(d, s)]
        PROVE  Moved
    BY <1>3, <2>2, CallTypes DEF Accepted
  <2>3. CASE SubmitSuccess(d)
    BY <2>2, <2>3 DEF SubmitSuccess, Proceed
  <2>4. CASE SubmitFailure(d)
    BY <1>1, <2>2, <2>4 DEF SubmitFailure, Proceed, rows
  <2>5. CASE Approve(d)
    BY <1>0, <2>5 DEF Approve, CallRow
  <2>6. CASE Decline(d)
    <3>1. PICK q : tool' = [tool EXCEPT ![d] = [Over(d, "completed") EXCEPT !.confirmed = q]]
      BY <2>6 DEF Decline
    <3>2. [Over(d, "completed") EXCEPT !.confirmed = q].status = "completed"
      BY CallTypes DEF Over, NoCall
    <3> QED
      BY <1>3, <2>6, <3>1, <3>2 DEF Decline, Undecided
  <2>7. CASE \E e \in Calls : Retry(d, e)
    BY <1>3, <2>7, CallTypes DEF Retry
  <2>8. CASE RevertTool(d)
    BY <1>1, <1>2, <2>8 DEF RevertTool, Revert, rows
  <2>9. CASE ReadFailures(d)
    BY <1>1, <2>9 DEF ReadFailures, rows
  <2> QED
    BY <1>7, <2>1, <2>3, <2>4, <2>5, <2>6, <2>7, <2>8, <2>9 DEF CallStep
<1>8. CASE Cancel \/ RevertRun \/ ExpireWaiting \/ ExpireRunning
  BY <1>1, <1>2, <1>8 DEF Cancel, RevertRun, Revert, ExpireWaiting, ExpireRunning, rows
<1>9. ASSUME NEW d \in Calls, AgeLease(d)
      PROVE  Moved
  BY <1>4, <1>9 DEF AgeLease
<1>10. CASE \/ SubmitMessage \/ SubmitAgain \/ \E k \in signals : Signal(k)
            \/ LookForExecution \/ AgeRun \/ AgeClaim \/ Crash \/ UNCHANGED vars
  BY <1>1, <1>10
  DEF SubmitMessage, SubmitAgain, Signal, LookForExecution, AgeRun, AgeClaim, Crash, rows, vars
<1> HIDE DEF Moved
<1> QED
  BY <1>6, <1>7, <1>8, <1>9, <1>10 DEF Next, Time

\* Finished calls stay finished, so the number of the next request never falls.
LEMMA Monotone ==
    ASSUME TypeOK, TypeOK', [Next]_vars
    PROVE  /\ With("failed") \subseteq With("failed")'
           /\ Finished \subseteq Finished'
           /\ Request \in Nat /\ Request' \in Nat /\ Request <= Request'
           /\ Finished # Finished' => Request < Request'
<1>1. With("failed") \subseteq With("failed")' /\ Finished \subseteq Finished'
  BY CallsMove DEF Finished, With
<1>2. IsFiniteSet(Finished')
  <2>1. Finished' \in SUBSET Calls
    BY DEF Finished, With
  <2> QED
    BY <2>1, FS_Subset, AgentAssumption DEF AgentAssumption
<1>3. /\ Cardinality(Finished) \in Nat /\ Cardinality(Finished') \in Nat
      /\ Cardinality(Finished) <= Cardinality(Finished')
      /\ Finished # Finished' => Cardinality(Finished) < Cardinality(Finished')
  BY <1>1, <1>2, FS_Subset, FS_CardinalityType, RequestType
<1> QED
  BY <1>1, <1>3 DEF Request

\* A status with calls out is one without a completion step.
LEMMA DrivesStep ==
    ASSUME TypeOK, Drives, [Next]_vars
    PROVE  Drives'
<1> DEFINE Out == With("running")
<1>0. tool \in [Calls -> CallRow]
  BY DEF TypeOK
<1>1. ASSUME Out' = Out, \A c \in Out : tool'[c].confirmed = tool[c].confirmed,
             status' = status, completion # "none" <=> completion' # "none"
      PROVE  Drives'
  BY <1>1 DEF Drives, Undecided, With
<1>2. CASE UNCHANGED <<status, tool, completion>>
  BY <1>1, <1>2 DEF With
<1>3. ASSUME NEW s \in Terminal, NEW step \in {"completed", "failed", "cancelled"}, End(s, step)
      PROVE  Drives'
  <2>1. Out' = {}
    BY <1>3, CallTypes DEF End, With
  <2> QED
    BY <1>3, <2>1 DEF End, Drives, Terminal
<1>4. ASSUME NEW d \in Calls, NEW l, tool' = [tool EXCEPT ![d].lease = l], UNCHANGED <<status, completion>>
      PROVE  Drives'
  <2>1. \A c \in Calls : tool'[c].status = tool[c].status /\ tool'[c].confirmed = tool[c].confirmed
    BY <1>0, <1>4 DEF CallRow
  <2> QED
    BY <1>1, <1>4, <2>1 DEF With
<1>5. ASSUME NEW t \in Threads, ThreadStep(t)
      PROVE  Drives'
  <2>1. ASSUME NEW sent \in SUBSET With("none"), NEW s, Suspend(t, sent, s)
        PROVE  Out' = sent /\ \A c \in sent : tool'[c].confirmed = ""
    BY <1>0, <2>1, CallTypes DEF Suspend, With, Drives
  <2>2. CASE WriteTools(t)
    BY <2>1, <2>2 DEF WriteTools, Suspend, Drives
  <2>3. CASE WriteConfirm(t)
    <3>1. PICK c \in With("none") \cap Danger : Suspend(t, {c}, "confirm")
      BY <2>3 DEF WriteConfirm
    <3>2. Out' = {c} /\ tool'[c].confirmed = "" /\ c \in Calls
      BY <2>1, <3>1 DEF With
    <3>3. tool'[c].status = "running"
      BY <3>2 DEF With
    <3> QED
      BY <3>1, <3>2, <3>3 DEF Suspend, Drives, Undecided
  <2>4. CASE WriteText(t)
    BY <1>3, <2>4 DEF WriteText, Terminal
  <2>5. CASE FailRun(t)
    BY <1>2, <1>3, <2>5 DEF FailRun, Terminal, rows
  <2>6. CASE ClaimRun(t)
    BY <1>1, <2>6 DEF ClaimRun, Claimable, With
  <2>7. CASE Count(t) \/ Register(t) \/ Recheck(t) \/ Begin(t)
             \/ Upstream(t) \/ WriteRefused(t) \/ Leave(t)
    BY <1>2, <2>7 DEF Count, Register, Recheck, Begin, Upstream, WriteRefused, Leave, rows
  <2> QED
    BY <1>5, <2>2, <2>3, <2>4, <2>5, <2>6, <2>7 DEF ThreadStep
<1>6. ASSUME NEW d \in Calls, CallStep(d)
      PROVE  Drives'
  <2>1. CASE ClaimTool(d)
    BY <1>4, <2>1 DEF ClaimTool
  <2>2. ASSUME NEW s \in {"completed", "failed"}, tool' = [tool EXCEPT ![d] = Over(d, s)]
        PROVE  Out' = Out \ {d}
    BY <1>0, <2>2, CallTypes DEF With
  <2>3. ASSUME NEW s \in {"completed", "failed"}, Accepted(d), Proceed(d, s)
        PROVE  Drives'
    BY <2>2, <2>3 DEF Proceed, Accepted, Last, Resume, Drives, With
  <2>4. CASE SubmitSuccess(d)
    BY <2>3, <2>4 DEF SubmitSuccess
  <2>5. CASE SubmitFailure(d)
    <3>1. CASE Accepted(d) /\ Proceed(d, "failed")
      BY <2>3, <3>1
    <3>2. CASE /\ Accepted(d) /\ tool' = [tool EXCEPT ![d] = Over(d, "failed")]
               /\ status' = "failed" /\ UNCHANGED completion
      BY <3>2 DEF Accepted, Drives
    <3>3. CASE UNCHANGED rows
      BY <1>2, <3>3 DEF rows
    <3> QED
      BY <2>5, <3>1, <3>2, <3>3 DEF SubmitFailure
  <2>6. CASE Approve(d)
    <3>1. Out' = Out
      BY <1>0, <2>6 DEF Approve, With, CallRow
    <3> QED
      BY <2>6, <3>1 DEF Approve, Undecided, Drives
  <2>7. CASE Decline(d)
    <3>1. PICK q : tool' = [tool EXCEPT ![d] = [Over(d, "completed") EXCEPT !.confirmed = q]]
      BY <2>7 DEF Decline
    <3>2. [Over(d, "completed") EXCEPT !.confirmed = q].status = "completed"
      BY CallTypes DEF Over, NoCall
    <3>3. Out' = Out \ {d}
      BY <1>0, <3>1, <3>2 DEF With
    <3>4. Out = {d}
      BY <2>7 DEF Decline, Undecided, Drives, With
    <3> QED
      BY <2>7, <3>3, <3>4 DEF Decline, Resume, Drives
  <2>8. CASE \E e \in Calls : Retry(d, e)
    <3>1. PICK e \in Calls : Retry(d, e)
      BY <2>8
    <3>2. e \in Out'
      BY <1>0, <3>1, CallTypes DEF Retry, With
    <3> QED
      BY <3>1, <3>2 DEF Retry, Drives
  <2>9. CASE RevertTool(d)
    BY <1>2, <1>3, <2>9 DEF RevertTool, Revert, Terminal, rows
  <2>10. CASE ReadFailures(d)
    BY <1>2, <2>10 DEF ReadFailures, rows
  <2> QED
    BY <1>6, <2>1, <2>4, <2>5, <2>6, <2>7, <2>8, <2>9, <2>10 DEF CallStep
<1>7. CASE Cancel \/ RevertRun \/ ExpireWaiting \/ ExpireRunning
  BY <1>2, <1>3, <1>7 DEF Cancel, RevertRun, Revert, ExpireWaiting, ExpireRunning, rows, Terminal
<1>8. CASE SubmitMessage
  BY <1>8 DEF SubmitMessage, Resume, Drives, With
<1>9. CASE AgeClaim
  BY <1>1, <1>9 DEF AgeClaim, With
<1>10. ASSUME NEW d \in Calls, AgeLease(d)
       PROVE  Drives'
  BY <1>4, <1>10 DEF AgeLease
<1>11. CASE \/ SubmitAgain \/ \E k \in signals : Signal(k)
            \/ LookForExecution \/ AgeRun \/ Crash \/ UNCHANGED vars
  BY <1>2, <1>11 DEF SubmitAgain, Signal, LookForExecution, AgeRun, Crash, rows, vars
<1> QED
  BY <1>5, <1>6, <1>7, <1>8, <1>9, <1>10, <1>11 DEF Next, Time

-----------------------------------------------------------------------------
(***************************************************************************)
(* What the steps are to the executions, whatever they do to the calls.    *)
(***************************************************************************)

\* What the invariants of the executions speak of, beside the calls.
scene == <<status, completion, thread, registry, signals, overrun>>

\* A round ends, or a run begins: a completion step waits for an execution.
Resuming ==
    /\ status \in {"none", "tool", "confirm"} /\ status' = "running"
    /\ completion' = "free"
    /\ thread' = thread \/ Start
    /\ status # "none" => Request < Request'
    /\ UNCHANGED <<registry, signals, overrun>>

\* The run changes its status without an execution at work on it.
Turning ==
    /\ status \in {"tool", "confirm", "failed"} /\ status' \in {"tool", "failed"}
    /\ UNCHANGED <<completion, thread, registry, signals, overrun>>

\* A request ends the run.
Cancelling ==
    /\ status' = "cancelled" /\ signals' # {}
    /\ UNCHANGED <<thread, registry, overrun>>
Revisiting == signals' # {} /\ UNCHANGED <<status, completion, thread, registry, overrun>>
Expiring ==
    /\ status' = "failed" /\ completion' = "none" /\ Overrun({})
    /\ UNCHANGED <<thread, registry, signals>>
Lapsing ==
    /\ Current = {}
    /\ UNCHANGED <<status, thread, registry, signals, overrun>>

\* An execution goes on with its work, or leaves it.
Working(t) ==
    /\ thread[t].pc \in Executing \ {"claimed"}
    /\ \E pc \in Executing \ {"claimed"} :
          To(t, pc) /\ (pc = "called" => status \in {"running", "tool"})
    /\ UNCHANGED <<status, completion, registry, signals, overrun>>
Parting(t) ==
    /\ thread[t].pc \in Executing \ {"claimed"} /\ To(t, "leaving")
    /\ \/ status # "running" /\ UNCHANGED <<status, completion, overrun>>
       \/ /\ status = "running" /\ status' \in {"tool", "confirm", "completed", "failed"}
          /\ Overrun({t})
    /\ UNCHANGED <<registry, signals>>

Shape ==
    \/ UNCHANGED scene
    \/ Resuming \/ SubmitAgain \/ Turning \/ Cancelling \/ Revisiting \/ Expiring \/ Lapsing
    \/ \E k \in signals : Signal(k)
    \/ Crash
    \/ \E t \in Threads : \/ Count(t) \/ ClaimRun(t) \/ Register(t) \/ Leave(t)
                           \/ Working(t) \/ Parting(t)

\* The last result of a round makes the next request a new one.
LEMMA ResumeShape ==
    ASSUME TypeOK, TypeOK', Drives, [Next]_vars,
           NEW c \in Calls, tool[c].status = "running", tool'[c].status \in {"completed", "failed"},
           status \in {"tool", "confirm"}, Resume, thread' = thread \/ Start,
           UNCHANGED <<registry, signals, overrun>>
    PROVE  Resuming
<1>1. c \in Finished' /\ c \notin Finished
  BY DEF Finished, With
<1>2. Request < Request'
  BY <1>1, Monotone
<1> QED
  BY <1>2 DEF Resuming, Resume

\* Every step has one of the shapes.
LEMMA Shapes ==
    ASSUME TypeOK, TypeOK', Drives, [Next]_vars
    PROVE  Shape
<1>0. tool \in [Calls -> CallRow]
  BY DEF TypeOK
<1>1. ASSUME NEW t \in Threads, ThreadStep(t)
      PROVE  Shape
  <2>1. CASE Count(t) \/ ClaimRun(t) \/ Register(t) \/ Leave(t)
    BY <2>1 DEF Shape
  <2>2. CASE Begin(t) \/ Upstream(t) \/ WriteRefused(t)
    <3>1. ASSUME Begin(t) PROVE Working(t)
      <4>1. \E pc \in Executing \ {"claimed"} :
               To(t, pc) /\ (pc = "called" => status \in {"running", "tool"})
        <5>1. \/ To(t, "called") /\ status \in {"running", "tool"}
              \/ To(t, "answered") \/ To(t, "failing")
          BY <3>1 DEF Begin
        <5> QED
          BY <5>1 DEF Executing
      <4> QED
        BY <3>1, <4>1 DEF Begin, Working, Executing, handlers
    <3>2. ASSUME Upstream(t) PROVE Working(t)
      BY <3>2 DEF Upstream, Working, Executing, rows, handlers
    <3>3. ASSUME WriteRefused(t) PROVE Working(t)
      BY <3>3 DEF WriteRefused, Working, Executing, rows, handlers
    <3> QED
      BY <2>2, <3>1, <3>2, <3>3 DEF Shape
  <2>3. ASSUME NEW sent, NEW s \in {"tool", "confirm"}, Suspend(t, sent, s)
        PROVE  Parting(t)
    BY <2>3 DEF Suspend, Parting, Executing, handlers
  <2>4. CASE WriteText(t)
    BY <2>4 DEF WriteText, End, Parting, Executing, handlers, Shape
  <2>5. CASE FailRun(t)
    <3>1. Parting(t)
      BY <2>5 DEF FailRun, End, Parting, Executing, rows, handlers
    <3> QED
      BY <3>1 DEF Shape
  <2>6. CASE WriteTools(t) \/ WriteConfirm(t)
    BY <2>3, <2>6 DEF WriteTools, WriteConfirm, Shape
  <2>7. CASE Recheck(t)
    <3>1. Working(t) \/ Parting(t)
      BY <2>7 DEF Recheck, Working, Parting, Executing, rows, handlers
    <3> QED
      BY <3>1 DEF Shape
  <2> QED
    BY <1>1, <2>1, <2>2, <2>4, <2>5, <2>6, <2>7 DEF ThreadStep
<1>2. ASSUME NEW c \in Calls, CallStep(c)
      PROVE  Shape
  <2>1. CASE ClaimTool(c)
    BY <2>1 DEF ClaimTool, Shape, scene
  <2>2. ASSUME NEW s \in {"completed", "failed"}, Accepted(c), Proceed(c, s),
               UNCHANGED <<registry, signals, overrun>>
        PROVE  Shape
    <3>1. CASE UNCHANGED <<status, completion, thread>>
      BY <2>2, <3>1 DEF Shape, scene
    <3>2. CASE Resume /\ (thread' = thread \/ Start)
      <4>1. tool'[c].status = s
        BY <1>0, <2>2, CallTypes DEF Proceed
      <4>2. Resuming
        BY <2>2, <3>2, <4>1, ResumeShape DEF Accepted
      <4> QED
        BY <4>2 DEF Shape
    <3> QED
      BY <2>2, <3>1, <3>2 DEF Proceed
  <2>3. CASE SubmitSuccess(c)
    BY <2>2, <2>3 DEF SubmitSuccess, handlers
  <2>4. CASE SubmitFailure(c)
    <3>1. CASE Accepted(c) /\ Proceed(c, "failed")
      BY <2>2, <2>4, <3>1 DEF SubmitFailure
    <3>2. CASE Accepted(c) /\ status' = "failed" /\ UNCHANGED <<completion, thread>>
      <4>1. Turning
        BY <2>4, <3>2 DEF SubmitFailure, Accepted, Turning
      <4> QED
        BY <4>1 DEF Shape
    <3>3. CASE UNCHANGED <<rows, thread>>
      BY <2>4, <3>3 DEF SubmitFailure, Shape, scene, rows
    <3> QED
      BY <2>4, <3>1, <3>2, <3>3 DEF SubmitFailure
  <2>5. CASE ReadFailures(c)
    BY <2>5 DEF ReadFailures, Shape, scene, rows
  <2>6. CASE Approve(c)
    <3>1. Turning
      BY <2>6 DEF Approve, Undecided, Turning, handlers
    <3> QED
      BY <3>1 DEF Shape
  <2>7. CASE Decline(c)
    <3>1. PICK q : tool' = [tool EXCEPT ![c] = [Over(c, "completed") EXCEPT !.confirmed = q]]
      BY <2>7 DEF Decline
    <3>2. tool'[c].status = "completed"
      BY <1>0, <3>1, CallTypes DEF Over, NoCall
    <3>3. Resuming
      BY <2>7, <3>2, ResumeShape DEF Decline, Undecided, handlers
    <3> QED
      BY <3>3 DEF Shape
  <2>8. CASE \E d \in Calls : Retry(c, d)
    <3>1. Turning
      BY <2>8 DEF Retry, Turning, handlers
    <3> QED
      BY <3>1 DEF Shape
  <2>9. CASE RevertTool(c)
    BY <2>9 DEF RevertTool, Revert, End, Cancelling, Revisiting, Shape, rows
  <2> QED
    BY <1>2, <2>1, <2>3, <2>4, <2>5, <2>6, <2>7, <2>8, <2>9 DEF CallStep
<1>3. CASE SubmitMessage
  <2>1. Resuming
    BY <1>3 DEF SubmitMessage, Resume, Resuming, handlers
  <2> QED
    BY <2>1 DEF Shape
<1>4. CASE Cancel \/ RevertRun
  BY <1>4 DEF Cancel, RevertRun, Revert, End, Cancelling, Revisiting, Shape, rows
<1>5. CASE ExpireWaiting
  <2>1. completion = "none"
    BY <1>5 DEF ExpireWaiting, Drives
  <2>2. Turning
    BY <1>5, <2>1 DEF ExpireWaiting, End, Turning, handlers
  <2> QED
    BY <2>2 DEF Shape
<1>6. CASE ExpireRunning
  BY <1>6 DEF ExpireRunning, End, Expiring, Shape, scene, rows
<1>7. CASE AgeClaim
  <2>1. Lapsing
    BY <1>7 DEF AgeClaim, Lapsing, handlers
  <2> QED
    BY <2>1 DEF Shape
<1>8. CASE SubmitAgain \/ \E k \in signals : Signal(k)
  BY <1>8 DEF Shape
<1>9. CASE Crash
  BY <1>9 DEF Shape
<1>10. CASE LookForExecution \/ AgeRun \/ (\E c \in Calls : AgeLease(c)) \/ UNCHANGED vars
  BY <1>10 DEF LookForExecution, AgeRun, AgeLease, Shape, scene, rows, handlers, vars
<1> QED
  BY <1>1, <1>2, <1>3, <1>4, <1>5, <1>6, <1>7, <1>8, <1>9, <1>10 DEF Next, Time

-----------------------------------------------------------------------------
(***************************************************************************)
(* The invariants of the executions.                                       *)
(***************************************************************************)

\* While no execution was run over, one that is at work holds the claim, unless
\* the run was cancelled under it, and it is alone.
Single ==
    ~overrun => \A t \in Current : /\ completion = "held" \/ status = "cancelled"
                                   /\ \A u \in Current : u = t

\* Nobody works for a run that does not exist, and the executions that are about
\* to leave a running run worked for an earlier request.
Leaving == {t \in Threads : thread[t].pc = "leaving"}
Fresh ==
    /\ status = "none" => \A t \in Threads : thread[t].pc = "idle"
    /\ status = "running" => \A t \in Leaving : thread[t].req < Request

\* The execution of the next request has the entry of the registry, and no
\* other one is about to remove it.
Entry ==
    ~overrun => \A t \in Current :
        thread[t].req = Request =>
            /\ thread[t].pc # "claimed" => registry = [req |-> thread[t].req, thread |-> t]
            /\ \A u \in Leaving : thread[u].req # thread[t].req

\* A goroutine keeps the number it counted.
LEMMA NumbersStep ==
    ASSUME TypeOK, TypeOK', Numbers, [Next]_vars, Shape
    PROVE  Numbers'
<1>0. thread \in [Threads -> ThreadRow] /\ Request \in Nat /\ Request' \in Nat /\ Request <= Request'
  BY Monotone DEF TypeOK
<1> SUFFICES ASSUME NEW u \in Threads, u \in Counted'
               PROVE  thread'[u].req \in 1 .. Request'
  BY DEF Numbers, Counted
<1>2. ASSUME u \in Counted, thread'[u].req = thread[u].req
      PROVE  thread'[u].req \in 1 .. Request'
  BY <1>0, <1>2 DEF Numbers
<1>3. CASE UNCHANGED thread
  BY <1>2, <1>3 DEF Counted
<1>4. CASE Start
  BY <1>0, <1>2, <1>4 DEF Start, Counted
<1>5. ASSUME NEW k \in signals, Signal(k)
      PROVE  thread'[u].req \in 1 .. Request'
  <2>1. thread'[u].pc = thread[u].pc /\ thread'[u].req = thread[u].req
    BY <1>0, <1>5 DEF Signal, ThreadRow
  <2> QED
    BY <1>2, <2>1 DEF Counted
<1>6. CASE Crash
  BY <1>6 DEF Crash, Counted, Idle
<1>7. ASSUME NEW t \in Threads, Count(t)
      PROVE  thread'[u].req \in 1 .. Request'
  <2>1. CASE u = t
    <3>1. thread'[u].req = Request /\ Request \in 1 .. Request'
      BY <1>0, <1>7, <2>1, RequestType DEF Count
    <3> QED
      BY <3>1
  <2>2. CASE u # t
    BY <1>0, <1>2, <1>7, <2>2 DEF Count, Counted
  <2> QED
    BY <2>1, <2>2
<1>8. ASSUME NEW t \in Threads, NEW pc, To(t, pc), thread[t].pc \notin {"idle", "start"}
      PROVE  thread'[u].req \in 1 .. Request'
  <2>1. u \in Counted /\ thread'[u].req = thread[u].req
    BY <1>0, <1>8 DEF To, Counted, ThreadRow
  <2> QED
    BY <1>2, <2>1
<1>9. ASSUME NEW t \in Threads, thread' = [thread EXCEPT ![t] = Idle]
      PROVE  thread'[u].req \in 1 .. Request'
  BY <1>0, <1>2, <1>9 DEF Counted, Idle
<1>10. ASSUME NEW t \in Threads, ClaimRun(t) \/ Register(t) \/ Leave(t) \/ Working(t) \/ Parting(t)
       PROVE  thread'[u].req \in 1 .. Request'
  BY <1>8, <1>9, <1>10 DEF ClaimRun, Register, Leave, Working, Parting, Executing
<1> QED
  BY <1>3, <1>4, <1>5, <1>6, <1>7, <1>10
  DEF Shape, scene, Resuming, SubmitAgain, Turning, Cancelling, Revisiting, Expiring, Lapsing

\* An entry of the registry keeps the execution that will remove it.
LEMMA NoGhostStep ==
    ASSUME TypeOK, NoGhostExecution, Shape
    PROVE  NoGhostExecution'
<1>0. thread \in [Threads -> ThreadRow]
  BY DEF TypeOK
<1> DEFINE Keeps(t) == thread[t].pc \in (Executing \ {"claimed"}) \cup {"leaving"}
<1>1. ASSUME registry' = registry,
             \A u \in Threads : Keeps(u) => Keeps(u)' /\ thread'[u].req = thread[u].req
      PROVE  NoGhostExecution'
  BY <1>1 DEF NoGhostExecution
<1>2. CASE UNCHANGED <<thread, registry>>
  BY <1>1, <1>2
<1>3. CASE Start /\ UNCHANGED registry
  BY <1>0, <1>1, <1>3 DEF Start, Executing
<1>4. ASSUME NEW k \in signals, Signal(k)
      PROVE  NoGhostExecution'
  BY <1>0, <1>1, <1>4 DEF Signal, ThreadRow
<1>5. CASE Crash
  BY <1>5 DEF Crash, NoGhostExecution
<1>6. ASSUME NEW t \in Threads, Count(t) \/ ClaimRun(t) \/ Working(t) \/ Parting(t)
      PROVE  NoGhostExecution'
  BY <1>0, <1>1, <1>6
  DEF Count, ClaimRun, Working, Parting, To, Executing, Idle, ThreadRow, handlers
<1>7. ASSUME NEW t \in Threads, Register(t)
      PROVE  NoGhostExecution'
  <2>1. /\ registry' = [req |-> thread[t].req, thread |-> t]
        /\ thread'[t].pc = "registered" /\ thread'[t].req = thread[t].req
    BY <1>0, <1>7 DEF Register, To, ThreadRow
  <2> QED
    BY <2>1 DEF NoGhostExecution, Executing
<1>8. ASSUME NEW t \in Threads, Leave(t)
      PROVE  NoGhostExecution'
  <2>1. CASE registry' = NoEntry
    BY <2>1 DEF NoGhostExecution
  <2>2. CASE registry' # NoEntry
    <3>1. registry' = registry /\ registry.req # thread[t].req
      BY <1>8, <2>2 DEF Leave, WithoutEntry
    <3>2. PICK u \in Threads : Keeps(u) /\ thread[u].req = registry.req
      BY <2>2, <3>1 DEF NoGhostExecution
    <3>3. thread'[u] = thread[u]
      BY <1>0, <1>8, <3>1, <3>2 DEF Leave
    <3> QED
      BY <3>1, <3>2, <3>3 DEF NoGhostExecution
  <2> QED
    BY <2>1, <2>2
<1> HIDE DEF Keeps
<1> QED
  BY <1>2, <1>3, <1>4, <1>5, <1>6, <1>7, <1>8
  DEF Shape, scene, Resuming, SubmitAgain, Turning, Cancelling, Revisiting, Expiring, Lapsing

\* Nobody works for a run that is not there, nor leaves one under its number.
LEMMA FreshStep ==
    ASSUME TypeOK, TypeOK', Drives, Numbers, Fresh, [Next]_vars, Shape
    PROVE  Fresh'
<1>0. thread \in [Threads -> ThreadRow] /\ Request \in Nat /\ Request' \in Nat /\ Request <= Request'
  BY Monotone DEF TypeOK
<1>1. ASSUME status' # "none", status' # "running"
      PROVE  Fresh'
  BY <1>1 DEF Fresh
<1>2. ASSUME status' = status, \A u \in Threads : thread'[u].pc = thread[u].pc /\ thread'[u].req = thread[u].req
      PROVE  Fresh'
  BY <1>0, <1>2, <1>2 DEF Fresh, Leaving, ThreadRow
<1>3. CASE Resuming
  <2>1. status' = "running"
    BY <1>3 DEF Resuming
  <2>2. ASSUME NEW u \in Leaving'
        PROVE  thread'[u].req < Request'
    <3>1. thread[u].pc = "leaving" /\ thread'[u] = thread[u]
      <4>1. CASE thread' = thread
        BY <2>2, <4>1 DEF Leaving
      <4>2. CASE Start
        BY <1>0, <2>2, <4>2 DEF Start, Leaving
      <4> QED
        BY <1>3, <4>1, <4>2 DEF Resuming
    <3>2. status # "none" /\ u \in Counted
      BY <2>2, <3>1 DEF Fresh, Counted, Leaving
    <3>3. thread[u].req \in 1 .. Request /\ Request < Request'
      BY <1>3, <3>2 DEF Resuming, Numbers
    <3> QED
      BY <1>0, <3>1, <3>3
  <2> QED
    BY <2>1, <2>2 DEF Fresh
<1>4. CASE SubmitAgain
  <2>1. status' = "running" /\ status = "running"
    BY <1>4 DEF SubmitAgain, rows
  <2>2. ASSUME NEW u \in Leaving'
        PROVE  thread'[u].req < Request'
    <3>1. u \in Leaving /\ thread'[u] = thread[u]
      BY <1>0, <1>4, <2>2 DEF SubmitAgain, Start, Leaving
    <3> QED
      BY <1>0, <2>1, <3>1 DEF Fresh, Leaving, ThreadRow
  <2> QED
    BY <2>1, <2>2 DEF Fresh
<1>5. ASSUME NEW k \in signals, Signal(k)
      PROVE  Fresh'
  BY <1>0, <1>2, <1>5 DEF Signal, ThreadRow, rows
<1>6. CASE Crash
  BY <1>6 DEF Crash, Fresh, Leaving, Idle
<1>7. ASSUME NEW t \in Threads, status' = status, Leaving' \subseteq Leaving,
             \A u \in Leaving' : thread'[u] = thread[u], status # "none"
      PROVE  Fresh'
  BY <1>0, <1>7 DEF Fresh, Leaving, ThreadRow
<1>8. ASSUME NEW t \in Threads, Count(t) \/ ClaimRun(t) \/ Register(t) \/ Leave(t) \/ Working(t)
      PROVE  Fresh'
  <2>1. status' = status /\ thread[t].pc # "idle"
    BY <1>8 DEF Count, ClaimRun, Register, Leave, Working, Executing, rows
  <2>2. status # "none"
    BY <2>1 DEF Fresh
  <2>3. \A u \in Leaving' : u \in Leaving /\ thread'[u] = thread[u]
    BY <1>0, <1>8
    DEF Count, ClaimRun, Register, Leave, Working, Executing, To, Idle, Leaving, ThreadRow
  <2> QED
    BY <1>7, <2>1, <2>2, <2>3
<1>9. ASSUME NEW t \in Threads, Parting(t)
      PROVE  Fresh'
  <2>1. status # "none"
    BY <1>9 DEF Parting, Fresh, Executing
  <2> QED
    BY <1>1, <1>9, <2>1 DEF Parting
<1>10. CASE Turning \/ Cancelling \/ Expiring
  BY <1>1, <1>10 DEF Turning, Cancelling, Expiring
<1>11. CASE UNCHANGED scene \/ Revisiting \/ Lapsing
  BY <1>2, <1>11 DEF scene, Revisiting, Lapsing
<1> QED
  BY <1>3, <1>4, <1>5, <1>6, <1>8, <1>9, <1>10, <1>11 DEF Shape

\* The claim of the completion step keeps executions apart.
LEMMA SingleStep ==
    ASSUME TypeOK, Drives, Drives', Fresh, Single, Shape
    PROVE  Single'
<1>0. thread \in [Threads -> ThreadRow]
  BY DEF TypeOK
<1>1. ASSUME Current' = {}
      PROVE  Single'
  BY <1>1 DEF Single
<1>2. ASSUME Current' = Current, UNCHANGED <<status, completion, overrun>>
      PROVE  Single'
  BY <1>2 DEF Single
<1>3. CASE Resuming
  <2>1. Current' = Current
    <3>1. CASE thread' = thread
      BY <3>1 DEF Current
    <3>2. CASE Start
      BY <1>0, <3>2 DEF Start, Current, Executing
    <3> QED
      BY <1>3, <3>1, <3>2 DEF Resuming
  <2>2. completion = "none" /\ status # "cancelled" /\ overrun' = overrun
    BY <1>3 DEF Resuming, Drives
  <2> QED
    BY <2>1, <2>2 DEF Single
<1>4. CASE SubmitAgain
  <2>1. Current' = Current
    BY <1>0, <1>4 DEF SubmitAgain, Start, Current, Executing
  <2> QED
    BY <1>2, <1>4, <2>1 DEF SubmitAgain, rows
<1>5. CASE Turning
  <2>1. completion = "none" /\ status # "cancelled" /\ overrun' = overrun
    BY <1>5 DEF Turning, Drives
  <2> QED
    BY <1>5, <2>1 DEF Turning, Single, Current
<1>6. CASE Cancelling
  BY <1>6 DEF Cancelling, Single, Current
<1>7. CASE Expiring
  BY <1>7 DEF Expiring, Overrun, Single, Current
<1>8. CASE Lapsing
  BY <1>1, <1>8 DEF Lapsing, Current
<1>9. ASSUME NEW k \in signals, Signal(k)
      PROVE  Single'
  <2>1. Current' = Current
    BY <1>0, <1>9 DEF Signal, Current, ThreadRow
  <2> QED
    BY <1>2, <1>9, <2>1 DEF Signal, rows
<1>10. CASE Crash
  BY <1>1, <1>10 DEF Crash, Current, Executing, Idle
<1>11. ASSUME NEW t \in Threads, Count(t) \/ Register(t) \/ Working(t) \/ Leave(t)
       PROVE  Single'
  <2>1. Current' = Current
    BY <1>0, <1>11 DEF Count, Register, Working, Leave, To, Current, Executing, Idle, ThreadRow
  <2> QED
    BY <1>2, <1>11, <2>1 DEF Count, Register, Working, Leave, rows
<1>12. ASSUME NEW t \in Threads, ClaimRun(t)
       PROVE  Single'
  <2>1. CASE Claimable /\ completion' = "held" /\ To(t, "claimed")
    <3>1. status = "running"
      BY <2>1 DEF Claimable, Drives
    <3>2. ~overrun => Current = {}
      BY <2>1, <3>1 DEF Claimable, Single
    <3>3. Current' = Current \cup {t}
      BY <1>0, <2>1 DEF To, Current, Executing, ThreadRow
    <3> QED
      BY <1>12, <2>1, <3>2, <3>3 DEF ClaimRun, Single
  <2>2. CASE thread' = [thread EXCEPT ![t] = Idle] /\ UNCHANGED completion
    <3>1. Current' = Current
      BY <1>0, <1>12, <2>2 DEF ClaimRun, Current, Executing, Idle
    <3> QED
      BY <1>2, <1>12, <2>2, <3>1 DEF ClaimRun
  <2> QED
    BY <1>12, <2>1, <2>2 DEF ClaimRun
<1>13. ASSUME NEW t \in Threads, Parting(t)
       PROVE  Single'
  <2>1. Current' = Current \ {t} /\ t \in Current
    BY <1>0, <1>13 DEF Parting, To, Current, Executing, ThreadRow
  <2>2. CASE UNCHANGED <<status, completion, overrun>>
    BY <2>1, <2>2 DEF Single
  <2>3. CASE Overrun({t})
    BY <2>1, <2>3 DEF Overrun, Single
  <2> QED
    BY <1>13, <2>2, <2>3 DEF Parting
<1>14. CASE UNCHANGED scene \/ Revisiting
  BY <1>2, <1>14 DEF scene, Revisiting, Current
<1> QED
  BY <1>3, <1>4, <1>5, <1>6, <1>7, <1>8, <1>9, <1>10, <1>11, <1>12, <1>13, <1>14 DEF Shape

\* The registry holds the execution of the next request.
LEMMA EntryStep ==
    ASSUME TypeOK, TypeOK', Drives, Numbers, Single, Fresh, Entry, [Next]_vars, Shape
    PROVE  Entry'
<1>0. thread \in [Threads -> ThreadRow] /\ Request \in Nat /\ Request' \in Nat /\ Request <= Request'
  BY Monotone DEF TypeOK
<1>1. ASSUME Current' = {}
      PROVE  Entry'
  BY <1>1 DEF Entry
<1>2. ASSUME NEW t \in Current, thread[t].req = Request'
      PROVE  thread[t].req = Request
  <2>1. thread[t].req \in 1 .. Request
    BY DEF Numbers, Counted, Current, Executing
  <2> QED
    BY <1>0, <1>2, <2>1
<1>3. ASSUME overrun' = overrun, registry' = registry, Leaving' \subseteq Leaving, Current' \subseteq Current,
             \A u \in Leaving' \cup Current' :
                 thread'[u].req = thread[u].req /\ (thread[u].pc = "claimed" => thread'[u].pc = "claimed")
      PROVE  Entry'
  <2> SUFFICES ASSUME ~overrun', NEW t \in Current', thread'[t].req = Request'
               PROVE  /\ thread'[t].pc # "claimed" => registry' = [req |-> thread'[t].req, thread |-> t]
                      /\ \A u \in Leaving' : thread'[u].req # thread'[t].req
    BY DEF Entry
  <2>1. t \in Current /\ thread[t].req = Request
    BY <1>2, <1>3
  <2> QED
    BY <1>3, <2>1 DEF Entry
<1>4. CASE Resuming \/ SubmitAgain
  <2>1. Current' = Current /\ Leaving' = Leaving /\ \A u \in Current \cup Leaving : thread'[u] = thread[u]
    <3>1. CASE thread' = thread
      BY <3>1 DEF Current, Leaving
    <3>2. CASE Start
      BY <1>0, <3>2 DEF Start, Current, Leaving, Executing
    <3> QED
      BY <1>4, <3>1, <3>2 DEF Resuming, SubmitAgain
  <2> QED
    BY <1>3, <1>4, <2>1 DEF Resuming, SubmitAgain
<1>5. CASE UNCHANGED scene \/ Turning \/ Cancelling \/ Revisiting \/ Lapsing
  BY <1>3, <1>5 DEF scene, Turning, Cancelling, Revisiting, Lapsing, Current, Leaving
<1>6. CASE Expiring
  <2>1. CASE Current = {}
    BY <1>1, <1>6, <2>1 DEF Expiring, Current
  <2>2. CASE Current # {}
    BY <1>6, <2>2 DEF Expiring, Overrun, Entry
  <2> QED
    BY <2>1, <2>2
<1>7. ASSUME NEW k \in signals, Signal(k)
      PROVE  Entry'
  <2>1. \A u \in Threads : thread'[u].pc = thread[u].pc /\ thread'[u].req = thread[u].req
    BY <1>0, <1>7 DEF Signal, ThreadRow
  <2> QED
    BY <1>3, <1>7, <2>1 DEF Signal, Current, Leaving
<1>8. CASE Crash
  BY <1>1, <1>8 DEF Crash, Current, Executing, Idle
<1>9. ASSUME NEW t \in Threads, Count(t)
      PROVE  Entry'
  <2>1. Current' = Current /\ Leaving' = Leaving /\ \A u \in Current \cup Leaving : thread'[u] = thread[u]
    BY <1>0, <1>9 DEF Count, Current, Leaving, Executing
  <2> QED
    BY <1>3, <1>9, <2>1 DEF Count, handlers
<1>10. ASSUME NEW t \in Threads, ClaimRun(t)
       PROVE  Entry'
  <2>1. CASE Claimable /\ To(t, "claimed")
    <3>1. status = "running"
      BY <2>1 DEF Claimable, Drives
    <3>2. ~overrun => Current = {}
      BY <2>1, <3>1 DEF Claimable, Single
    <3>3. Current' = Current \cup {t} /\ Leaving' = Leaving /\ t \notin Leaving
      BY <1>0, <1>10, <2>1 DEF ClaimRun, To, Current, Leaving, Executing, ThreadRow
    <3>4. thread'[t].pc = "claimed" /\ thread'[t].req = thread[t].req
          /\ \A u \in Leaving : thread'[u] = thread[u]
      BY <1>0, <2>1, <3>3 DEF To, Leaving, ThreadRow
    <3>5. \A u \in Leaving : thread[u].req < Request /\ thread[u].req \in Int
      BY <1>0, <3>1 DEF Fresh, Leaving, ThreadRow
    <3>6. thread[t].req = Request' => thread[t].req = Request
      BY <1>0, <1>10 DEF ClaimRun, Numbers, Counted
    <3> QED
      BY <1>0, <1>10, <3>2, <3>3, <3>4, <3>5, <3>6 DEF ClaimRun, Entry
  <2>2. CASE thread' = [thread EXCEPT ![t] = Idle]
    <3>1. Current' = Current /\ Leaving' = Leaving /\ \A u \in Current \cup Leaving : thread'[u] = thread[u]
      BY <1>0, <1>10, <2>2 DEF ClaimRun, Current, Leaving, Executing, Idle
    <3> QED
      BY <1>3, <1>10, <3>1 DEF ClaimRun, handlers
  <2> QED
    BY <1>10, <2>1, <2>2 DEF ClaimRun
<1>11. ASSUME NEW t \in Threads, Register(t)
       PROVE  Entry'
  <2>1. Current' = Current /\ Leaving' = Leaving /\ t \in Current
    BY <1>0, <1>11 DEF Register, To, Current, Leaving, Executing, ThreadRow
  <2>2. \A u \in Threads : thread'[u].req = thread[u].req
    BY <1>0, <1>11 DEF Register, To, ThreadRow
  <2>3. ~overrun => \A u \in Current : u = t
    BY <2>1 DEF Single
  <2>4. overrun' = overrun /\ registry' = [req |-> thread[t].req, thread |-> t]
    BY <1>11 DEF Register
  <2> SUFFICES ASSUME ~overrun', thread'[t].req = Request'
               PROVE  \A u \in Leaving' : thread'[u].req # thread'[t].req
    BY <2>1, <2>2, <2>3, <2>4 DEF Entry
  <2>5. thread[t].req = Request
    BY <1>2, <2>1, <2>2
  <2> QED
    BY <2>1, <2>2, <2>4, <2>5 DEF Entry, Leaving
<1>12. ASSUME NEW t \in Threads, Leave(t)
       PROVE  Entry'
  <2>1. Current' = Current /\ Leaving' \subseteq Leaving /\ t \in Leaving /\ t \notin Current
        /\ \A u \in Current \cup Leaving' : thread'[u] = thread[u]
    BY <1>0, <1>12 DEF Leave, Current, Leaving, Executing, Idle
  <2> SUFFICES ASSUME ~overrun', NEW u \in Current, thread[u].req = Request'
               PROVE  /\ thread[u].pc # "claimed" => registry' = [req |-> thread[u].req, thread |-> u]
                      /\ \A v \in Leaving' : thread[v].req # thread[u].req
    BY <2>1 DEF Entry
  <2>2. /\ thread[u].pc # "claimed" => registry = [req |-> thread[u].req, thread |-> u]
        /\ \A v \in Leaving : thread[v].req # thread[u].req
    BY <1>2, <1>12 DEF Leave, Entry
  <2> QED
    BY <1>12, <2>1, <2>2 DEF Leave, WithoutEntry
<1>13. ASSUME NEW t \in Threads, Working(t)
       PROVE  Entry'
  <2>1. Current' = Current /\ Leaving' = Leaving
    BY <1>0, <1>13 DEF Working, To, Current, Leaving, Executing, ThreadRow
  <2>2. \A u \in Threads : /\ thread'[u].req = thread[u].req
                           /\ thread[u].pc = "claimed" => thread'[u].pc = "claimed"
    BY <1>0, <1>13 DEF Working, To, ThreadRow
  <2> QED
    BY <1>3, <1>13, <2>1, <2>2 DEF Working, Current, Leaving
<1>14. ASSUME NEW t \in Threads, Parting(t)
       PROVE  Entry'
  <2>1. Current' = Current \ {t} /\ t \in Current
    BY <1>0, <1>14 DEF Parting, To, Current, Executing, ThreadRow
  <2>2. CASE UNCHANGED overrun
    BY <1>1, <2>1, <2>2 DEF Single, Entry
  <2>3. CASE Overrun({t})
    BY <1>1, <2>1, <2>3 DEF Overrun, Entry
  <2> QED
    BY <1>14, <2>2, <2>3 DEF Parting
<1> QED
  BY <1>4, <1>5, <1>6, <1>7, <1>8, <1>9, <1>10, <1>11, <1>12, <1>13, <1>14 DEF Shape

\* A cancellation reaches the execution of the current request.
LEMMA CancelStep ==
    ASSUME TypeOK, TypeOK', Numbers, Entry, CancelReaches, [Next]_vars, Shape
    PROVE  CancelReaches'
<1>0. thread \in [Threads -> ThreadRow] /\ Request \in Nat /\ Request' \in Nat /\ Request <= Request'
  BY Monotone DEF TypeOK
<1> SUFFICES ASSUME status' = "cancelled", signals' = {}, ~overrun',
                    NEW u \in Threads, thread'[u].pc = "called", thread'[u].req = Request'
             PROVE  thread'[u].cancelled
  BY DEF CancelReaches
<1>1. ASSUME thread[u].pc = "called", thread'[u].req = thread[u].req
      PROVE  thread[u].req = Request /\ u \in Current
  <2>1. thread[u].req \in 1 .. Request
    BY <1>1 DEF Numbers, Counted
  <2> QED
    BY <1>0, <1>1, <2>1 DEF Current, Executing
<1>2. ASSUME status = "cancelled", signals = {}, overrun' = overrun, thread'[u] = thread[u]
      PROVE  thread'[u].cancelled
  BY <1>1, <1>2 DEF CancelReaches
<1>3. ASSUME NEW k \in signals, Signal(k)
      PROVE  thread'[u].cancelled
  <2>1. thread[u].pc = "called" /\ thread'[u].req = thread[u].req
    BY <1>0, <1>3 DEF Signal, ThreadRow
  <2>2. registry = [req |-> thread[u].req, thread |-> u]
    BY <1>1, <1>3, <2>1 DEF Signal, Entry
  <2>3. registry # NoEntry /\ registry.thread = u
    <3>1. u # None
      BY AgentAssumption DEF AgentAssumption
    <3> QED
      BY <2>2, <3>1 DEF NoEntry
  <2> QED
    BY <1>0, <1>3, <2>3 DEF Signal, ThreadRow
<1>4. CASE Crash
  BY <1>4 DEF Crash, Idle
<1>5. ASSUME NEW t \in Threads, Count(t) \/ ClaimRun(t) \/ Register(t) \/ Leave(t) \/ Parting(t)
      PROVE  thread'[u].cancelled
  <2>1. u # t /\ thread'[u] = thread[u]
    BY <1>0, <1>5 DEF Count, ClaimRun, Register, Leave, Parting, To, Idle, ThreadRow
  <2>2. status = "cancelled" /\ signals = {} /\ overrun' = overrun
    BY <1>5 DEF Count, ClaimRun, Register, Leave, Parting, rows, handlers
  <2> QED
    BY <1>2, <2>1, <2>2
<1>6. ASSUME NEW t \in Threads, Working(t)
      PROVE  thread'[u].cancelled
  <2>1. CASE u = t
    BY <1>0, <1>6, <2>1 DEF Working, To, ThreadRow
  <2>2. CASE u # t
    BY <1>0, <1>2, <1>6, <2>2 DEF Working, To
  <2> QED
    BY <2>1, <2>2
<1>7. CASE SubmitAgain
  BY <1>7 DEF SubmitAgain, rows
<1>8. CASE UNCHANGED scene \/ Lapsing
  BY <1>2, <1>8 DEF scene, Lapsing
<1>9. CASE Resuming \/ Turning \/ Cancelling \/ Revisiting \/ Expiring
  BY <1>9 DEF Resuming, Turning, Cancelling, Revisiting, Expiring
<1> QED
  BY <1>3, <1>4, <1>5, <1>6, <1>7, <1>8, <1>9 DEF Shape

-----------------------------------------------------------------------------
(***************************************************************************)
(* Failures after a failure.                                               *)
(***************************************************************************)

\* No handler that is about to forgive a failure holds a call that was sent out
\* after another one had failed.
Late ==
    \A c \in Calls :
        /\ tool[c].status = "running" /\ tool[c].late
           => With("failed") # {} /\ submitting[c] # "forgive"
        /\ submitting[c] # "no" => tool[c].status # "none"

\* A call is new, or was out before.
LEMMA LateStep ==
    ASSUME TypeOK, TypeOK', Late, [Next]_vars
    PROVE  Late'
<1>0. tool \in [Calls -> CallRow] /\ submitting \in [Calls -> {"no", "forgive", "end"}]
  BY DEF TypeOK
<1>1. With("failed") \subseteq With("failed")'
  BY Monotone
<1> SUFFICES ASSUME NEW c \in Calls
             PROVE  /\ tool'[c].status = "running" /\ tool'[c].late
                       => With("failed")' # {} /\ submitting'[c] # "forgive"
                    /\ submitting'[c] # "no" => tool'[c].status # "none"
  BY DEF Late
<1> DEFINE Kept == /\ tool'[c].status = "running" /\ tool'[c].late
                      => With("failed")' # {} /\ submitting'[c] # "forgive"
                   /\ submitting'[c] # "no" => tool'[c].status # "none"
<1> SUFFICES Kept
  OBVIOUS
<1>2. ASSUME tool[c].status # "none" => tool'[c].status # "none",
             tool'[c].status = "running" => tool[c].status = "running" /\ tool'[c].late = tool[c].late,
             submitting'[c] \in {"no", submitting[c]}
      PROVE  Kept
  BY <1>1, <1>2 DEF Late
<1>3. CASE UNCHANGED <<tool, submitting>>
  BY <1>2, <1>3
<1>4. ASSUME NEW s, NEW step \in {"completed", "failed", "cancelled"}, End(s, step), UNCHANGED submitting
      PROVE  Kept
  BY <1>2, <1>4, CallTypes DEF End
<1>5. ASSUME NEW d \in Calls, NEW row, tool' = [tool EXCEPT ![d] = row],
             row.status \notin {"none", "running"}, submitting'[c] \in {"no", submitting[c]}
      PROVE  Kept
  BY <1>0, <1>2, <1>5
<1>6. ASSUME NEW d \in Calls, NEW l, tool' = [tool EXCEPT ![d].lease = l],
             submitting'[c] \in {"no", submitting[c]}
      PROVE  Kept
  BY <1>0, <1>2, <1>6 DEF CallRow
<1>7. ASSUME tool[c].status = "none", tool'[c] = NewCall, UNCHANGED submitting
      PROVE  Kept
  <2>1. submitting'[c] = "no"
    BY <1>7 DEF Late
  <2>2. NewCall.late => With("failed")' # {}
    BY <1>1, CallTypes
  <2> QED
    BY <1>7, <2>1, <2>2
<1>8. ASSUME UNCHANGED submitting, tool'[c] = tool[c]
      PROVE  Kept
  BY <1>2, <1>8
<1>9. ASSUME NEW t \in Threads, ThreadStep(t)
      PROVE  Kept
  <2>1. ASSUME NEW sent \in SUBSET With("none"), NEW s, Suspend(t, sent, s)
        PROVE  Kept
    <3>1. CASE c \in sent
      BY <1>0, <1>7, <2>1, <3>1 DEF Suspend, With, handlers
    <3>2. CASE c \notin sent
      BY <1>0, <1>8, <2>1, <3>2 DEF Suspend, handlers
    <3> QED
      BY <3>1, <3>2
  <2>2. CASE WriteTools(t)
    BY <2>1, <2>2 DEF WriteTools
  <2>3. CASE WriteConfirm(t)
    BY <2>1, <2>3 DEF WriteConfirm
  <2>4. CASE WriteText(t)
    BY <1>4, <2>4 DEF WriteText, handlers
  <2>5. CASE FailRun(t)
    BY <1>3, <1>4, <2>5 DEF FailRun, rows, handlers
  <2>6. CASE Count(t) \/ ClaimRun(t) \/ Register(t) \/ Recheck(t) \/ Begin(t)
             \/ Upstream(t) \/ WriteRefused(t) \/ Leave(t)
    BY <1>3, <2>6
    DEF Count, ClaimRun, Register, Recheck, Begin, Upstream, WriteRefused, Leave, rows, handlers
  <2> HIDE DEF Kept
  <2> QED
    BY <1>9, <2>2, <2>3, <2>4, <2>5, <2>6 DEF ThreadStep
<1>10. ASSUME NEW d \in Calls, CallStep(d)
       PROVE  Kept
  <2>1. CASE ClaimTool(d)
    BY <1>0, <1>6, <2>1 DEF ClaimTool
  <2>2. ASSUME NEW s \in {"completed", "failed"}, tool' = [tool EXCEPT ![d] = Over(d, s)],
               submitting'[c] \in {"no", submitting[c]}
        PROVE  Kept
    BY <1>5, <2>2, CallTypes
  <2>3. CASE SubmitSuccess(d)
    BY <2>2, <2>3 DEF SubmitSuccess, Proceed, handlers
  <2>4. CASE SubmitFailure(d)
    <3>1. submitting'[c] \in {"no", submitting[c]}
      BY <1>0, <2>4 DEF SubmitFailure
    <3>2. CASE tool' = [tool EXCEPT ![d] = Over(d, "failed")]
      BY <2>2, <3>1, <3>2
    <3>3. CASE UNCHANGED rows
      BY <1>2, <3>1, <3>3 DEF rows
    <3> QED
      BY <2>4, <3>2, <3>3 DEF SubmitFailure, Proceed
  <2>5. CASE ReadFailures(d)
    <3>1. CASE c = d
      BY <1>0, <2>5, <3>1 DEF ReadFailures, Forgiven, Late, rows, With
    <3>2. CASE c # d
      BY <1>0, <1>2, <2>5, <3>2 DEF ReadFailures, rows
    <3> QED
      BY <3>1, <3>2
  <2>6. CASE Approve(d)
    BY <1>0, <1>2, <2>6 DEF Approve, CallRow, handlers
  <2>7. CASE Decline(d)
    <3>1. PICK q : tool' = [tool EXCEPT ![d] = [Over(d, "completed") EXCEPT !.confirmed = q]]
      BY <2>7 DEF Decline
    <3>2. [Over(d, "completed") EXCEPT !.confirmed = q].status = "completed"
      BY CallTypes DEF Over, NoCall
    <3> QED
      BY <1>5, <2>7, <3>1, <3>2 DEF Decline, handlers
  <2>8. CASE \E e \in Calls : Retry(d, e)
    <3>1. PICK e \in Calls : Retry(d, e)
      BY <2>8
    <3>2. CASE c = e
      BY <1>0, <1>7, <3>1, <3>2 DEF Retry, handlers
    <3>3. CASE c # e
      BY <1>0, <1>8, <3>1, <3>3 DEF Retry, handlers
    <3> QED
      BY <3>2, <3>3
  <2>9. CASE RevertTool(d)
    BY <1>3, <1>4, <2>9 DEF RevertTool, Revert, rows
  <2> HIDE DEF Kept
  <2> QED
    BY <1>10, <2>1, <2>3, <2>4, <2>5, <2>6, <2>7, <2>8, <2>9 DEF CallStep
<1>11. CASE Cancel \/ RevertRun \/ ExpireWaiting \/ ExpireRunning
  BY <1>3, <1>4, <1>11 DEF Cancel, RevertRun, Revert, ExpireWaiting, ExpireRunning, rows, handlers
<1>12. ASSUME NEW d \in Calls, AgeLease(d)
       PROVE  Kept
  BY <1>6, <1>12 DEF AgeLease, handlers
<1>13. CASE Crash
  BY <1>2, <1>13 DEF Crash, rows
<1>14. CASE \/ SubmitMessage \/ SubmitAgain \/ \E k \in signals : Signal(k)
            \/ LookForExecution \/ AgeRun \/ AgeClaim \/ UNCHANGED vars
  BY <1>3, <1>14
  DEF SubmitMessage, SubmitAgain, Signal, LookForExecution, AgeRun, AgeClaim, rows, handlers, vars
<1> HIDE DEF Kept
<1> QED
  BY <1>9, <1>10, <1>11, <1>12, <1>13, <1>14 DEF Next, Time

\* Whoever writes that a call failed ends the run, or forgives the failure.
LEMMA LateFailureOf ==
    ASSUME TypeOK, Late, [Next]_vars
    PROVE  LateFailureStep
<1>0. tool \in [Calls -> CallRow]
  BY DEF TypeOK
<1> SUFFICES ASSUME NEW c \in Calls, tool[c].late, tool[c].status = "running",
                    tool'[c].status = "failed"
             PROVE  status' = "failed"
  BY DEF LateFailureStep
<1>1. ASSUME NEW s, NEW step \in {"completed", "failed", "cancelled"}, End(s, step)
      PROVE  step = "failed"
  BY <1>1, CallTypes DEF End
<1>2. tool' # tool
  OBVIOUS
<1>3. ASSUME NEW d \in Calls, NEW l, tool' = [tool EXCEPT ![d].lease = l]
      PROVE  FALSE
  BY <1>0, <1>3 DEF CallRow
<1>4. ASSUME NEW t \in Threads, ThreadStep(t)
      PROVE  status' = "failed"
  <2>1. ASSUME NEW sent \in SUBSET With("none"), NEW s, Suspend(t, sent, s)
        PROVE  FALSE
    BY <1>0, <2>1 DEF Suspend, With
  <2>2. ~WriteTools(t) /\ ~WriteConfirm(t)
    BY <2>1 DEF WriteTools, WriteConfirm
  <2>3. ~WriteText(t)
    BY <1>1 DEF WriteText
  <2>4. CASE FailRun(t)
    BY <1>2, <2>4 DEF FailRun, End, rows
  <2>5. CASE Count(t) \/ ClaimRun(t) \/ Register(t) \/ Recheck(t) \/ Begin(t)
             \/ Upstream(t) \/ WriteRefused(t) \/ Leave(t)
    BY <1>2, <2>5
    DEF Count, ClaimRun, Register, Recheck, Begin, Upstream, WriteRefused, Leave, rows
  <2> QED
    BY <1>4, <2>2, <2>3, <2>4, <2>5 DEF ThreadStep
<1>5. ASSUME NEW d \in Calls, CallStep(d)
      PROVE  status' = "failed"
  <2>1. ASSUME NEW s \in {"completed", "failed"}, tool' = [tool EXCEPT ![d] = Over(d, s)]
        PROVE  d = c /\ s = "failed"
    BY <1>0, <2>1, CallTypes
  <2>2. CASE SubmitSuccess(d)
    BY <2>1, <2>2 DEF SubmitSuccess, Proceed
  <2>3. CASE SubmitFailure(d)
    <3>1. submitting[c] # "forgive"
      BY DEF Late
    <3>2. CASE submitting[d] = "forgive" /\ Proceed(d, "failed")
      BY <2>1, <3>1, <3>2 DEF Proceed
    <3> QED
      BY <1>2, <2>3, <3>2 DEF SubmitFailure, rows
  <2>4. CASE RevertTool(d)
    BY <1>1, <1>2, <2>4 DEF RevertTool, Revert, rows
  <2>5. CASE Decline(d)
    <3>1. PICK q : tool' = [tool EXCEPT ![d] = [Over(d, "completed") EXCEPT !.confirmed = q]]
      BY <2>5 DEF Decline
    <3>2. [Over(d, "completed") EXCEPT !.confirmed = q].status = "completed"
      BY CallTypes DEF Over, NoCall
    <3> QED
      BY <1>0, <3>1, <3>2
  <2>6. CASE \E e \in Calls : Retry(d, e)
    BY <1>0, <2>6, CallTypes DEF Retry
  <2>7. CASE ClaimTool(d)
    BY <1>3, <2>7 DEF ClaimTool
  <2>8. CASE Approve(d)
    BY <1>0, <2>8 DEF Approve, CallRow
  <2>9. CASE ReadFailures(d)
    BY <1>2, <2>9 DEF ReadFailures, rows
  <2> QED
    BY <1>5, <2>2, <2>3, <2>4, <2>5, <2>6, <2>7, <2>8, <2>9 DEF CallStep
<1>6. CASE Cancel \/ RevertRun
  BY <1>1, <1>2, <1>6 DEF Cancel, RevertRun, Revert, rows
<1>7. CASE ExpireWaiting \/ ExpireRunning
  BY <1>2, <1>7 DEF ExpireWaiting, ExpireRunning, End, rows
<1>8. ASSUME NEW d \in Calls, AgeLease(d)
      PROVE  FALSE
  BY <1>3, <1>8 DEF AgeLease
<1>9. CASE \/ SubmitMessage \/ SubmitAgain \/ \E k \in signals : Signal(k)
           \/ LookForExecution \/ AgeRun \/ AgeClaim \/ Crash \/ UNCHANGED vars
  BY <1>2, <1>9
  DEF SubmitMessage, SubmitAgain, Signal, LookForExecution, AgeRun, AgeClaim, Crash, rows, vars
<1> QED
  BY <1>4, <1>5, <1>6, <1>7, <1>8, <1>9 DEF Next, Time

-----------------------------------------------------------------------------
(***************************************************************************)
(* Theorems.                                                               *)
(***************************************************************************)

\* The parts of the inductive invariant keep each other.
IInv ==
    /\ TypeOK /\ Drives /\ Numbers
    /\ Single /\ Fresh /\ Entry
    /\ NoGhostExecution /\ CancelReaches /\ Late

LEMMA InitInv ==
    ASSUME Init
    PROVE  IInv
<1>1. Finished = {} /\ Current = {} /\ With("running") = {}
  BY DEF Init, Finished, With, NoCall, Current, Idle, Executing
<1>2. TypeOK
  <2>1. NoCall \in CallRow
    BY DEF NoCall, CallRow
  <2>2. Idle \in ThreadRow
    BY FS_CardinalityType, AgentAssumption DEF AgentAssumption, Idle, ThreadRow
  <2>3. crashes \in 0 .. MaxCrashes
    BY AgentAssumption DEF AgentAssumption, Init
  <2> QED
    BY <2>1, <2>2, <2>3 DEF Init, TypeOK
<1> QED
  BY <1>1, <1>2
  DEF Init, IInv, Drives, Numbers, Counted, Single, Fresh, Leaving, Entry, NoGhostExecution,
      CancelReaches, Late, Idle, NoCall

LEMMA NextInv ==
    ASSUME IInv, [Next]_vars
    PROVE  IInv'
<1>1. TypeOK'
  BY ThreadStepType, CallStepType, RunStepType DEF IInv, Next
<1>2. Shape
  BY <1>1, Shapes DEF IInv
<1>3. Drives' /\ Numbers' /\ NoGhostExecution' /\ Late'
  BY <1>1, <1>2, DrivesStep, NumbersStep, NoGhostStep, LateStep DEF IInv
<1>4. Fresh' /\ Single' /\ Entry' /\ CancelReaches'
  BY <1>1, <1>2, <1>3, FreshStep, SingleStep, EntryStep, CancelStep DEF IInv
<1> QED
  BY <1>1, <1>3, <1>4 DEF IInv

LEMMA InvHolds == Spec => []IInv
BY InitInv, NextInv, PTL DEF Spec

\* The rows, goroutines and handlers keep their shape.
THEOREM TypeCorrect == Spec => []TypeOK
<1>1. IInv => TypeOK
  BY DEF IInv
<1> QED
  BY <1>1, InvHolds, PTL

\* The status of a run is always the work it has (Drives).
THEOREM StatusDrives == Spec => []Drives
<1>1. IInv => Drives
  BY DEF IInv
<1> QED
  BY <1>1, InvHolds, PTL

\* One execution at a time works for a run, whatever repeated submissions, crashes
\* and retries do, unless one was run over (OneExecution).
THEOREM OneExecutionHolds == Spec => []OneExecution
<1>1. ASSUME IInv
      PROVE  OneExecution
  <2> SUFFICES ASSUME ~overrun
               PROVE  Cardinality(Current) <= 1
    BY DEF OneExecution
  <2>1. CASE Current = {}
    BY <2>1, FS_EmptySet
  <2>2. CASE Current # {}
    <3>1. PICK t : t \in Current
      BY <2>2
    <3>2. Current = {t}
      BY <1>1, <3>1 DEF IInv, Single
    <3> QED
      BY <3>2, FS_Singleton
  <2> QED
    BY <2>1, <2>2
<1> QED
  BY <1>1, InvHolds, PTL

\* No request is kept from expiring a run by an execution that is gone
\* (NoGhostExecution).
THEOREM NoGhostHolds == Spec => []NoGhostExecution
<1>1. IInv => NoGhostExecution
  BY DEF IInv
<1> QED
  BY <1>1, InvHolds, PTL

\* A cancellation that has answered reaches the call to the model that is under
\* way (CancelReaches).
THEOREM CancelReachesHolds == Spec => []CancelReaches
<1>1. IInv => CancelReaches
  BY DEF IInv
<1> QED
  BY <1>1, InvHolds, PTL

\* The failure of a call sent out after another one had failed ends the run
\* (LateFailureEnds).
THEOREM LateFailureHolds == Spec => LateFailureEnds
<1>1. IInv /\ [Next]_vars => [LateFailureStep]_vars
  BY LateFailureOf DEF IInv
<1> QED
  BY <1>1, InvHolds, PTL DEF Spec, LateFailureEnds

=============================================================================
