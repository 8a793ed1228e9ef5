-------------------------- MODULE VideoRenderProofs --------------------------
(***************************************************************************)
(* Theorems about VideoRender for every set of renders and processes,      *)
(* every price and limit and every environment: types, the phases that old *)
(* runs cannot move, and the holds, up to the refinement of CreditHold.    *)
(***************************************************************************)
EXTENDS VideoRender, FiniteSetTheorems, TLAPS

-----------------------------------------------------------------------------
(***************************************************************************)
(* Types and attempts.                                                     *)
(***************************************************************************)

\* The rows a transaction writes on a render keep its type.
LEMMA RowTypes ==
    ASSUME TypeOK, NEW j \in Jobs
    PROVE  /\ job[j] \in JobRow
           /\ \A s \in JobStatus : /\ [job[j] EXCEPT !.status = s] \in JobRow
                                   /\ Returned(j, s) \in JobRow
           /\ \A b \in BOOLEAN : [job[j] EXCEPT !.live = b] \in JobRow
           /\ Outstanding(j) \in Int
<1>1. job[j] \in JobRow
  BY DEF TypeOK
<1>2. Outstanding(j) \in Int
  BY <1>1 DEF Outstanding, JobRow
<1>3. job[j].released + Outstanding(j) \in Int
  BY <1>1, <1>2 DEF JobRow
<1>4. \A s \in JobStatus : Returned(j, s) \in JobRow
  <2> SUFFICES ASSUME NEW s \in JobStatus PROVE Returned(j, s) \in JobRow
    OBVIOUS
  <2> DEFINE freed == job[j].released + Outstanding(j)
  <2>1. freed \in Int
    BY <1>3
  <2>2. Returned(j, s) = [job[j] EXCEPT !.status = s, !.leased = FALSE, !.live = FALSE,
                                        !.released = freed]
    BY <1>1 DEF Returned, JobRow
  <2> HIDE DEF freed
  <2> QED
    BY <1>1, <2>1, <2>2 DEF JobRow
<1> QED
  BY <1>1, <1>2, <1>4 DEF JobRow

\* The account keeps its type when a hold is taken or returned.
LEMMA AccountTypes ==
    ASSUME TypeOK, NEW j \in Jobs
    PROVE  /\ ReturnHold(j) \in AccountRow
           /\ [account EXCEPT !.reserved = @ + Price] \in AccountRow
           /\ [credits |-> account.credits - Price, reserved |-> account.reserved - Price] \in AccountRow
           /\ [account EXCEPT !.credits = @ - 1] \in AccountRow
<1>1. account \in AccountRow /\ Price \in Int
  BY RenderAssumption DEF TypeOK
<1> DEFINE out == Outstanding(j)
<1>2. out \in Int
  BY RowTypes
<1> HIDE DEF out
<1>3. [account EXCEPT !.reserved = @ - out] \in AccountRow
  BY <1>1, <1>2 DEF AccountRow
<1>4. ReturnHold(j) = [account EXCEPT !.reserved = @ - out]
  BY DEF ReturnHold, out
<1> QED
  BY <1>1, <1>3, <1>4 DEF AccountRow

\* A run moves within its steps, or stops.
LEMMA RunTypes ==
    ASSUME TypeOK, NEW j \in Jobs, NEW a \in Attempts
    PROVE  /\ \A s \in RunStep : GoTo(j, a, s) => run' \in [Jobs -> [Attempts -> RunRow]]
           /\ Stop(j, a) => run' \in [Jobs -> [Attempts -> RunRow]]
<1>1. run \in [Jobs -> [Attempts -> RunRow]]
  BY DEF TypeOK
<1>2. Off \in RunRow
  BY DEF Off, RunRow, RunStep
<1>3. \A s \in RunStep : [run[j][a] EXCEPT !.step = s] \in RunRow
  BY <1>1 DEF RunRow
<1> QED
  BY <1>1, <1>2, <1>3 DEF GoTo, Stop

\* A step that writes one row of a known type keeps the types of the renders.
LEMMA WriteType ==
    ASSUME TypeOK, NEW j \in Jobs, NEW row \in JobRow,
           row.status \in {"absent", "queued"} => row.attempt < MaxAttempts,
           job' = [job EXCEPT ![j] = row]
    PROVE  /\ job' \in [Jobs -> JobRow]
           /\ \A k \in Jobs : job'[k].status \in {"absent", "queued"} => job'[k].attempt < MaxAttempts
  BY DEF TypeOK

LEMMA InitType == Init => TypeOK
<1> SUFFICES ASSUME Init PROVE TypeOK
  OBVIOUS
<1>1. account \in AccountRow
  BY RenderAssumption DEF Init, AccountRow
<1>2. job \in [Jobs -> JobRow]
  BY RenderAssumption DEF Init, JobRow, JobStatus
<1>3. run \in [Jobs -> [Attempts -> RunRow]]
  BY DEF Init, Off, RunRow, RunStep
<1>4. \A j \in Jobs : job[j].attempt < MaxAttempts
  BY RenderAssumption DEF Init
<1> QED
  BY <1>1, <1>2, <1>3, <1>4 DEF Init, TypeOK

\* Members create, cancel and review.
LEMMA MemberType ==
    ASSUME TypeOK, NEW j \in Jobs,
           Create(j) \/ Cancel(j) \/ \E approved \in BOOLEAN : Review(j, approved)
    PROVE  TypeOK'
<1>1. job[j] \in JobRow /\ job \in [Jobs -> JobRow]
  BY RowTypes DEF TypeOK
<1>2. CASE Create(j)
  <2> DEFINE row == [job[j] EXCEPT !.status = "queued", !.reserved = Price]
  <2>1. job' = [job EXCEPT ![j] = row]
    BY <1>1, <1>2 DEF Create
  <2>2. row \in JobRow
    <3>1. Price \in Int /\ "queued" \in JobStatus
      BY RenderAssumption DEF JobStatus, Unfinished
    <3> QED
      BY <1>1, <3>1 DEF JobRow
  <2>3. row.attempt < MaxAttempts
    BY <1>1, <1>2 DEF Create, TypeOK, JobRow
  <2>4. account' \in AccountRow
    BY <1>2, AccountTypes DEF Create
  <2> HIDE DEF row
  <2>5. job' \in [Jobs -> JobRow] /\ \A k \in Jobs :
          job'[k].status \in {"absent", "queued"} => job'[k].attempt < MaxAttempts
    BY <2>1, <2>2, <2>3, WriteType
  <2> QED
    BY <1>2, <2>4, <2>5 DEF Create, TypeOK
<1>3. CASE Cancel(j)
  <2>1. Returned(j, "cancelled") \in JobRow
    BY RowTypes DEF JobStatus
  <2>2. Returned(j, "cancelled").status = "cancelled"
    BY <1>1 DEF Returned, JobRow
  <2>3. job' \in [Jobs -> JobRow] /\ \A k \in Jobs :
          job'[k].status \in {"absent", "queued"} => job'[k].attempt < MaxAttempts
    BY <1>3, <2>1, <2>2, WriteType DEF Cancel
  <2> QED
    BY <1>3, <2>3, AccountTypes DEF Cancel, TypeOK
<1>4. CASE \E approved \in BOOLEAN : Review(j, approved)
  <2> PICK approved \in BOOLEAN : Review(j, approved)
    BY <1>4
  <2> DEFINE s == IF approved THEN "completed" ELSE "failed"
             row == [job[j] EXCEPT !.status = s]
  <2>1. job' = [job EXCEPT ![j] = row]
    BY <1>1 DEF Review
  <2>2. row \in JobRow /\ row.status \notin {"absent", "queued"}
    BY <1>1 DEF JobRow, JobStatus
  <2> HIDE DEF row
  <2>3. job' \in [Jobs -> JobRow] /\ \A k \in Jobs :
          job'[k].status \in {"absent", "queued"} => job'[k].attempt < MaxAttempts
    BY <2>1, <2>2, WriteType
  <2> QED
    BY <2>3 DEF Review, TypeOK
<1> QED
  BY <1>2, <1>3, <1>4

\* The loop of a process.
LEMMA LoopType ==
    ASSUME TypeOK, NEW p \in Processes,
           ClaimWrite(p) \/ Take(p) \/ \E j \in Jobs : ClaimRead(p, j)
    PROVE  TypeOK'
<1>1. CASE ClaimWrite(p)
  <2> DEFINE j == seen[p]
             n == job[j].attempt + 1
  <2>1. j \in Jobs /\ seen' \in [Processes -> Jobs \cup {NoJob}]
    BY <1>1 DEF ClaimWrite, TypeOK
  <2>2. CASE Claimable(j)
    <3>1. job[j] \in JobRow /\ job \in [Jobs -> JobRow]
      BY <2>1, RowTypes DEF TypeOK
    <3>2. n \in Attempts /\ n \in 0..MaxAttempts
      BY <2>1, <2>2, <3>1, RenderAssumption DEF Claimable, TypeOK, JobRow, Attempts
    <3> DEFINE row == [job[j] EXCEPT !.status = "materializing", !.attempt = n,
                                     !.leased = TRUE, !.live = TRUE]
    <3>3. job' = [job EXCEPT ![j] = row]
      BY <1>1, <2>1, <2>2, <3>1 DEF ClaimWrite
    <3>4. run' = [run EXCEPT ![j][n] = [step |-> "waiting", by |-> p]]
      BY <1>1, <2>1, <2>2 DEF ClaimWrite
    <3> HIDE DEF n
    <3>5. row \in JobRow /\ row.status = "materializing"
      BY <3>1, <3>2 DEF JobRow, JobStatus, Unfinished, Running
    <3> HIDE DEF row, j
    <3>6. job' \in [Jobs -> JobRow] /\ \A k \in Jobs :
            job'[k].status \in {"absent", "queued"} => job'[k].attempt < MaxAttempts
      BY <2>1, <3>3, <3>5, WriteType
    <3>7. [step |-> "waiting", by |-> p] \in RunRow
      BY DEF RunRow, RunStep
    <3>8. run' \in [Jobs -> [Attempts -> RunRow]]
      BY <2>1, <3>2, <3>4, <3>7 DEF TypeOK
    <3> QED
      BY <1>1, <2>1, <3>6, <3>8 DEF ClaimWrite, TypeOK
  <2>3. CASE ~Claimable(j)
    BY <1>1, <2>1, <2>3 DEF ClaimWrite, TypeOK
  <2> QED
    BY <2>2, <2>3
<1>2. CASE Take(p)
  <2>1. PICK r \in RunsOf(p, {"waiting"}) : run' = [run EXCEPT ![r[1]][r[2]].step = "prepare"]
    BY <1>2 DEF Take
  <2>2. r[1] \in Jobs /\ r[2] \in Attempts
    BY DEF RunsOf
  <2>3. GoTo(r[1], r[2], "prepare")
    BY <2>1 DEF GoTo
  <2>4. run' \in [Jobs -> [Attempts -> RunRow]]
    BY <2>2, <2>3, RunTypes DEF RunStep, Executing
  <2> QED
    BY <1>2, <2>4 DEF Take, TypeOK
<1>3. CASE \E j \in Jobs : ClaimRead(p, j)
  BY <1>3 DEF ClaimRead, TypeOK
<1> QED
  BY <1>1, <1>2, <1>3

\* The steps of a run.
LEMMA WorkType ==
    ASSUME TypeOK, NEW j \in Jobs, NEW a \in Attempts, Work(j, a) \/ Heartbeat(j, a)
    PROVE  TypeOK'
<1> DEFINE Rows == /\ job' \in [Jobs -> JobRow]
                   /\ \A k \in Jobs : job'[k].status \in {"absent", "queued"}
                                      => job'[k].attempt < MaxAttempts
           Runs == run' \in [Jobs -> [Attempts -> RunRow]]
<1>1. job[j] \in JobRow /\ job \in [Jobs -> JobRow]
  BY RowTypes DEF TypeOK
<1>2. UNCHANGED job => Rows
  BY DEF TypeOK
<1>3. \A s \in Running : job' = [job EXCEPT ![j].status = s] => Rows
  <2> SUFFICES ASSUME NEW s \in Running, job' = [job EXCEPT ![j].status = s] PROVE Rows
    OBVIOUS
  <2> DEFINE row == [job[j] EXCEPT !.status = s]
  <2>1. row \in JobRow /\ row.status \notin {"absent", "queued"}
    BY <1>1 DEF JobRow, JobStatus, Unfinished, Running
  <2>2. job' = [job EXCEPT ![j] = row]
    BY <1>1
  <2> HIDE DEF row
  <2> QED
    BY <2>1, <2>2, WriteType
<1>4. \A s \in Executing : GoTo(j, a, s) => Runs
  BY RunTypes DEF RunStep
<1>5. \A s \in Running, next \in Executing :
        AdvanceVideoRenderPhase(j, a, s, next) => Rows /\ Runs
  <2> SUFFICES ASSUME NEW s \in Running, NEW next \in Executing,
                      AdvanceVideoRenderPhase(j, a, s, next)
               PROVE  Rows /\ Runs
    OBVIOUS
  <2>1. CASE TokenOf(j, a)
    BY <1>3, <1>4, <2>1 DEF AdvanceVideoRenderPhase
  <2>2. CASE ~TokenOf(j, a)
    BY <1>2, <1>4, <2>2 DEF AdvanceVideoRenderPhase, Executing
  <2> QED
    BY <2>1, <2>2
<1> HIDE DEF Rows, Runs
<1>6. Rows /\ Runs /\ account' \in AccountRow /\ UNCHANGED seen => TypeOK'
  BY DEF Rows, Runs, TypeOK
<1>7. account \in AccountRow
  BY DEF TypeOK
<1>8. CASE Prepare(j, a)
  BY <1>2, <1>4, <1>5, <1>6, <1>7, <1>8 DEF Prepare, Executing, Running
<1>9. CASE Download(j, a)
  BY <1>2, <1>4, <1>5, <1>6, <1>7, <1>9 DEF Download, Executing, Running
<1>10. CASE Encode(j, a)
  BY <1>2, <1>4, <1>5, <1>6, <1>7, <1>10 DEF Encode, Executing, Running
<1>11. CASE Upload(j, a)
  <2>1. CASE GoTo(j, a, "retry") /\ UNCHANGED <<account, job>>
    BY <1>2, <1>4, <1>6, <1>7, <1>11, <2>1 DEF Upload, Executing
  <2>2. CASE /\ account' = [credits |-> account.credits - Price,
                            reserved |-> account.reserved - Price]
             /\ job' = [job EXCEPT ![j].status = "pending_review", ![j].leased = FALSE,
                                   ![j].live = FALSE, ![j].settled = Price]
             /\ Stop(j, a)
    <3> DEFINE row == [job[j] EXCEPT !.status = "pending_review", !.leased = FALSE,
                                     !.live = FALSE, !.settled = Price]
    <3>1. Price \in Int /\ "pending_review" \in JobStatus
      BY RenderAssumption DEF JobStatus
    <3>2. row \in JobRow /\ row.status = "pending_review"
      BY <1>1, <3>1 DEF JobRow
    <3>3. job' = [job EXCEPT ![j] = row]
      BY <1>1, <2>2
    <3> HIDE DEF row
    <3>4. Rows
      BY <3>2, <3>3, WriteType DEF Rows
    <3> QED
      BY <1>6, <1>11, <2>2, <3>4, AccountTypes, RunTypes DEF Upload, Runs
  <2> QED
    BY <1>11, <2>1, <2>2 DEF Upload
<1>12. CASE Fail(j, a)
  <2>1. Runs
    BY <1>12, RunTypes DEF Fail, Runs
  <2>2. CASE /\ account' = ReturnHold(j)
             /\ job' = [job EXCEPT ![j] = Returned(j, "failed")]
    <3>1. Returned(j, "failed") \in JobRow
      BY RowTypes DEF JobStatus
    <3>2. Returned(j, "failed").status = "failed"
      BY <1>1 DEF Returned, JobRow
    <3>3. Rows
      BY <2>2, <3>1, <3>2, WriteType DEF Rows
    <3> QED
      BY <1>6, <1>12, <2>1, <2>2, <3>3, AccountTypes DEF Fail
  <2>3. CASE /\ ~Over(j, a)
             /\ job' = [job EXCEPT ![j].status = "queued", ![j].leased = FALSE, ![j].live = FALSE]
             /\ UNCHANGED account
    <3> DEFINE row == [job[j] EXCEPT !.status = "queued", !.leased = FALSE, !.live = FALSE]
    <3>1. row \in JobRow
      BY <1>1 DEF JobRow, JobStatus, Unfinished
    <3>2. row.attempt < MaxAttempts
      BY <1>1, <2>3, RenderAssumption DEF Over, JobRow
    <3>3. job' = [job EXCEPT ![j] = row]
      BY <1>1, <2>3
    <3> HIDE DEF row
    <3>4. Rows
      BY <3>1, <3>2, <3>3, WriteType DEF Rows
    <3> QED
      BY <1>6, <1>7, <1>12, <2>1, <2>3, <3>4 DEF Fail
  <2>4. CASE UNCHANGED <<account, job>>
    BY <1>2, <1>6, <1>7, <1>12, <2>1, <2>4 DEF Fail
  <2> QED
    BY <1>12, <2>2, <2>3, <2>4 DEF Fail
<1>13. CASE Heartbeat(j, a)
  <2> DEFINE row == [job[j] EXCEPT !.live = TRUE]
  <2>1. row \in JobRow /\ row.status = job[j].status /\ row.attempt = job[j].attempt
    BY <1>1 DEF JobRow
  <2>2. job' = [job EXCEPT ![j] = row]
    BY <1>1, <1>13 DEF Heartbeat
  <2> HIDE DEF row
  <2>3. Rows
    BY <2>1, <2>2, WriteType DEF Rows, TypeOK
  <2> QED
    BY <1>13, <2>3 DEF Heartbeat, TypeOK, Rows
<1> QED
  BY <1>8, <1>9, <1>10, <1>11, <1>12, <1>13 DEF Work

\* Time, crashes and late charges.
LEMMA EnvType ==
    ASSUME TypeOK, (\E j \in Jobs : LeaseExpires(j)) \/ (\E p \in Processes : Crash(p)) \/ LateCharge
    PROVE  TypeOK'
<1>1. CASE \E j \in Jobs : LeaseExpires(j)
  <2> PICK j \in Jobs : LeaseExpires(j)
    BY <1>1
  <2> DEFINE row == [job[j] EXCEPT !.live = FALSE]
  <2>1. job[j] \in JobRow
    BY RowTypes
  <2>2. row \in JobRow /\ row.status = job[j].status /\ row.attempt = job[j].attempt
    BY <2>1 DEF JobRow
  <2>3. job' = [job EXCEPT ![j] = row]
    BY <2>1 DEF LeaseExpires, TypeOK
  <2> HIDE DEF row
  <2>4. /\ job' \in [Jobs -> JobRow]
        /\ \A k \in Jobs : job'[k].status \in {"absent", "queued"} => job'[k].attempt < MaxAttempts
    BY <2>2, <2>3, WriteType DEF TypeOK
  <2> QED
    BY <2>4 DEF LeaseExpires, TypeOK
<1>2. CASE \E p \in Processes : Crash(p)
  <2> PICK p \in Processes : Crash(p)
    BY <1>2
  <2>1. Off \in RunRow
    BY DEF Off, RunRow, RunStep
  <2>2. run' \in [Jobs -> [Attempts -> RunRow]]
    BY <2>1 DEF Crash, TypeOK
  <2> QED
    BY <2>2 DEF Crash, TypeOK
<1>3. CASE LateCharge
  <2>1. account' \in AccountRow
    BY <1>3 DEF LateCharge, TypeOK, AccountRow
  <2> QED
    BY <1>3, <2>1 DEF LateCharge, TypeOK
<1> QED
  BY <1>1, <1>2, <1>3

LEMMA NextType == TypeOK /\ [Next]_vars => TypeOK'
<1> SUFFICES ASSUME TypeOK, [Next]_vars PROVE TypeOK'
  OBVIOUS
<1>1. CASE UNCHANGED vars
  BY <1>1 DEF vars, TypeOK
<1>2. CASE Next
  BY <1>2, MemberType, LoopType, WorkType, EnvType DEF Next
<1> QED
  BY <1>1, <1>2

\* Every row has its type and no render exceeds its attempts.
THEOREM TypeCorrect == Spec => []TypeOK
  BY InitType, NextType, PTL DEF Spec

-----------------------------------------------------------------------------
(***************************************************************************)
(* The phase and the run that holds the lease.                             *)
(***************************************************************************)

\* A run writes its own render, and only under its token.
LEMMA WorkShape ==
    ASSUME TypeOK, NEW j \in Jobs, NEW a \in Attempts, Work(j, a)
    PROVE  /\ \A k \in Jobs, b \in Attempts : <<k, b>> # <<j, a>> => run'[k][b] = run[k][b]
           /\ \A k \in Jobs : k # j => job'[k] = job[k]
           /\ job'[j].attempt = job[j].attempt
           /\ ~TokenOf(j, a) => UNCHANGED job
<1> DEFINE Moves == \A k \in Jobs, b \in Attempts : <<k, b>> # <<j, a>> => run'[k][b] = run[k][b]
           Writes == /\ \A k \in Jobs : k # j => job'[k] = job[k]
                     /\ job'[j].attempt = job[j].attempt
<1>1. job \in [Jobs -> JobRow] /\ run \in [Jobs -> [Attempts -> RunRow]] /\ job[j] \in JobRow
  BY DEF TypeOK
<1>2. \A s : GoTo(j, a, s) => Moves
  BY <1>1 DEF GoTo
<1>3. Stop(j, a) => Moves
  BY <1>1 DEF Stop
<1>4. \A s : job' = [job EXCEPT ![j].status = s] => Writes
  BY <1>1 DEF JobRow
<1>5. \A s : job' = [job EXCEPT ![j] = Returned(j, s)] => Writes
  BY <1>1 DEF Returned, JobRow
<1>6. UNCHANGED job => Writes
  OBVIOUS
<1>7. job' = [job EXCEPT ![j].status = "queued", ![j].leased = FALSE, ![j].live = FALSE] => Writes
  BY <1>1 DEF JobRow
<1>8. job' = [job EXCEPT ![j].status = "pending_review", ![j].leased = FALSE,
                         ![j].live = FALSE, ![j].settled = Price] => Writes
  BY <1>1 DEF JobRow
<1> HIDE DEF Moves, Writes
<1>9. CASE Prepare(j, a)
  BY <1>2, <1>4, <1>6, <1>9 DEF Prepare, AdvanceVideoRenderPhase, Moves, Writes
<1>10. CASE Download(j, a)
  BY <1>2, <1>4, <1>6, <1>10 DEF Download, AdvanceVideoRenderPhase, Moves, Writes
<1>11. CASE Encode(j, a)
  BY <1>2, <1>4, <1>6, <1>11 DEF Encode, AdvanceVideoRenderPhase, Moves, Writes
<1>12. CASE Upload(j, a)
  BY <1>2, <1>3, <1>6, <1>8, <1>12 DEF Upload, CanFinish, Moves, Writes
<1>13. CASE Fail(j, a)
  BY <1>3, <1>5, <1>6, <1>7, <1>13 DEF Fail, Moves, Writes
<1> QED
  BY <1>9, <1>10, <1>11, <1>12, <1>13 DEF Work

\* The step of the run that acts fits the phase it wrote.
LEMMA WorkPhase ==
    ASSUME TypeOK, PhaseOfHolder, NEW j \in Jobs, NEW a \in Attempts, Work(j, a)
    PROVE  PhaseAt(j, a)'
<1>1. job \in [Jobs -> JobRow] /\ run \in [Jobs -> [Attempts -> RunRow]] /\ job[j] \in JobRow
  BY DEF TypeOK
<1>2. PhaseAt(j, a)
  BY DEF PhaseOfHolder
<1>3. \A s : GoTo(j, a, s) => run'[j][a].step = s
  BY <1>1 DEF GoTo, RunRow
<1>4. Stop(j, a) => run'[j][a].step = "off"
  BY <1>1 DEF Stop, Off
<1>5. \A s \in {"retry", "terminal"} : GoTo(j, a, s) /\ UNCHANGED job => PhaseAt(j, a)'
  BY <1>2, <1>3 DEF PhaseAt, TokenOf
<1>6. \A s : job' = [job EXCEPT ![j].status = s] => job'[j].status = s
  BY <1>1 DEF JobRow
<1>7. ASSUME NEW s, NEW next, AdvanceVideoRenderPhase(j, a, s, next),
             <<s, next>> \in {<<"materializing", "download">>, <<"rendering", "encode">>,
                              <<"archiving", "upload">>}
      PROVE  PhaseAt(j, a)'
  <2>1. CASE TokenOf(j, a)
    <3>1. job'[j].status = s /\ run'[j][a].step = next
      BY <1>3, <1>6, <1>7, <2>1 DEF AdvanceVideoRenderPhase
    <3> QED
      BY <1>7, <3>1 DEF PhaseAt, Running
  <2>2. CASE ~TokenOf(j, a)
    BY <1>5, <1>7, <2>2 DEF AdvanceVideoRenderPhase
  <2> QED
    BY <2>1, <2>2
<1>8. CASE Prepare(j, a)
  BY <1>5, <1>7, <1>8 DEF Prepare
<1>9. CASE Download(j, a)
  BY <1>5, <1>7, <1>9 DEF Download
<1>10. CASE Encode(j, a)
  BY <1>5, <1>7, <1>10 DEF Encode
<1>11. CASE Upload(j, a)
  <2>1. CASE GoTo(j, a, "retry") /\ UNCHANGED <<account, job>>
    BY <1>5, <2>1
  <2>2. CASE job' = [job EXCEPT ![j].status = "pending_review", ![j].leased = FALSE,
                                ![j].live = FALSE, ![j].settled = Price]
    <3>1. ~job'[j].leased
      BY <1>1, <2>2 DEF JobRow
    <3> QED
      BY <3>1 DEF PhaseAt, TokenOf
  <2> QED
    BY <1>11, <2>1, <2>2 DEF Upload
<1>12. CASE Fail(j, a)
  <2>1. CASE UNCHANGED job
    <3>1. run'[j][a].step = "off"
      BY <1>4, <1>12 DEF Fail
    <3> QED
      BY <1>2, <2>1, <3>1 DEF PhaseAt, TokenOf
  <2>2. CASE job' = [job EXCEPT ![j] = Returned(j, "failed")]
    <3>1. ~job'[j].leased
      BY <1>1, <2>2 DEF Returned, JobRow
    <3> QED
      BY <3>1 DEF PhaseAt, TokenOf
  <2>3. CASE job' = [job EXCEPT ![j].status = "queued", ![j].leased = FALSE, ![j].live = FALSE]
    <3>1. ~job'[j].leased
      BY <1>1, <2>3 DEF JobRow
    <3> QED
      BY <3>1 DEF PhaseAt, TokenOf
  <2> QED
    BY <1>12, <2>1, <2>2, <2>3 DEF Fail
<1> QED
  BY <1>8, <1>9, <1>10, <1>11, <1>12 DEF Work

LEMMA InitPhase == Init => PhaseOfHolder
  BY DEF Init, PhaseOfHolder, PhaseAt, TokenOf

\* A step that leaves the lease and the attempt of every render, its phase while
\* it is leased, and the runs, keeps the phases.
LEMMA SameLease ==
    ASSUME PhaseOfHolder, UNCHANGED run,
           \A k \in Jobs : \/ ~job'[k].leased
                           \/ /\ job'[k].attempt = job[k].attempt
                              /\ job'[k].leased = job[k].leased
                              /\ job'[k].status = job[k].status \/ job[k].status \notin Running
    PROVE  PhaseOfHolder'
<1> SUFFICES ASSUME NEW k \in Jobs, NEW b \in Attempts PROVE PhaseAt(k, b)'
  BY DEF PhaseOfHolder
<1>1. PhaseAt(k, b)
  BY DEF PhaseOfHolder
<1> QED
  BY <1>1 DEF PhaseAt, TokenOf

LEMMA NextPhase == TypeOK /\ PhaseOfHolder /\ [Next]_vars => PhaseOfHolder'
<1> SUFFICES ASSUME TypeOK, PhaseOfHolder, [Next]_vars PROVE PhaseOfHolder'
  OBVIOUS
<1>1. job \in [Jobs -> JobRow] /\ run \in [Jobs -> [Attempts -> RunRow]]
      /\ \A k \in Jobs : job[k] \in JobRow
  BY DEF TypeOK
<1>2. ASSUME NEW j \in Jobs, Create(j)
      PROVE  PhaseOfHolder'
  BY <1>1, <1>2, SameLease DEF Create, JobRow, Running
<1>3. ASSUME NEW j \in Jobs, Cancel(j)
      PROVE  PhaseOfHolder'
  BY <1>1, <1>3, SameLease DEF Cancel, Returned, JobRow
<1>4. ASSUME NEW j \in Jobs, NEW approved \in BOOLEAN, Review(j, approved)
      PROVE  PhaseOfHolder'
  <2> DEFINE s == IF approved THEN "completed" ELSE "failed"
  <2>1. job' = [job EXCEPT ![j].status = s]
    BY <1>4 DEF Review
  <2> HIDE DEF s
  <2>2. job[j].status \notin Running /\ UNCHANGED run
    BY <1>4 DEF Review, Running
  <2> QED
    BY <1>1, <2>1, <2>2, SameLease DEF JobRow
<1>5. ASSUME NEW j \in Jobs, LeaseExpires(j)
      PROVE  PhaseOfHolder'
  BY <1>1, <1>5, SameLease DEF LeaseExpires, JobRow
<1>6. ASSUME NEW j \in Jobs, NEW a \in Attempts, Heartbeat(j, a)
      PROVE  PhaseOfHolder'
  BY <1>1, <1>6, SameLease DEF Heartbeat, JobRow
<1>7. ASSUME NEW j \in Jobs, NEW a \in Attempts, Work(j, a)
      PROVE  PhaseOfHolder'
  <2> SUFFICES ASSUME NEW k \in Jobs, NEW b \in Attempts PROVE PhaseAt(k, b)'
    BY DEF PhaseOfHolder
  <2>1. PhaseAt(k, b)
    BY DEF PhaseOfHolder
  <2>2. CASE k = j /\ b = a
    BY <1>7, <2>2, WorkPhase
  <2>3. CASE k # j
    BY <1>7, <2>1, <2>3, WorkShape DEF PhaseAt, TokenOf
  <2>4. CASE k = j /\ b # a
    <3>1. run'[j][b] = run[j][b] /\ job'[j].attempt = job[j].attempt
      BY <1>7, <2>4, WorkShape
    <3>2. CASE TokenOf(j, a)
      BY <2>4, <3>1, <3>2 DEF PhaseAt, TokenOf
    <3>3. CASE ~TokenOf(j, a)
      BY <1>7, <2>1, <2>4, <3>1, <3>3, WorkShape DEF PhaseAt, TokenOf
    <3> QED
      BY <3>2, <3>3
  <2> QED
    BY <2>2, <2>3, <2>4
<1>8. ASSUME NEW p \in Processes, ClaimWrite(p)
      PROVE  PhaseOfHolder'
  <2>1. PICK j \in Jobs : j = seen[p]
    BY <1>8 DEF ClaimWrite, TypeOK
  <2>2. CASE ~Claimable(j)
    BY <1>8, <2>1, <2>2 DEF ClaimWrite, PhaseOfHolder, PhaseAt, TokenOf
  <2>3. CASE Claimable(j)
    <3> PICK n \in Int : n = job[j].attempt + 1
      BY <1>1 DEF JobRow
    <3>1. /\ job' = [job EXCEPT ![j].status = "materializing", ![j].attempt = @ + 1,
                                ![j].leased = TRUE, ![j].live = TRUE]
          /\ run' = [run EXCEPT ![j][n] = [step |-> "waiting", by |-> p]]
      BY <1>8, <2>1, <2>3 DEF ClaimWrite
    <3>2. n \in Attempts
      BY <1>1, <2>1, <2>3, RenderAssumption DEF Claimable, TypeOK, JobRow, Attempts
    <3>3. job'[j].status = "materializing" /\ job'[j].attempt = n
      BY <1>1, <2>1, <3>1 DEF JobRow
    <3>4. run'[j][n].step = "waiting"
      BY <1>1, <2>1, <3>1, <3>2
    <3>5. \A k \in Jobs : k # j => job'[k] = job[k] /\ run'[k] = run[k]
      BY <1>1, <3>1
    <3>6. \A b \in Attempts : PhaseAt(j, b)'
      BY <3>3, <3>4 DEF PhaseAt, TokenOf, Running
    <3>7. \A k \in Jobs, b \in Attempts : k # j => PhaseAt(k, b)'
      BY <3>5 DEF PhaseOfHolder, PhaseAt, TokenOf
    <3> QED
      BY <3>6, <3>7 DEF PhaseOfHolder
  <2> QED
    BY <2>2, <2>3
<1>9. ASSUME NEW p \in Processes, Take(p)
      PROVE  PhaseOfHolder'
  <2>1. PICK r \in RunsOf(p, {"waiting"}) : run' = [run EXCEPT ![r[1]][r[2]].step = "prepare"]
    BY <1>9 DEF Take
  <2>2. r[1] \in Jobs /\ r[2] \in Attempts /\ run[r[1]][r[2]].step = "waiting"
    BY DEF RunsOf
  <2>3. \A k \in Jobs, b \in Attempts :
          run'[k][b].step = IF k = r[1] /\ b = r[2] THEN "prepare" ELSE run[k][b].step
    BY <1>1, <2>1, <2>2 DEF RunRow
  <2>4. UNCHANGED job
    BY <1>9 DEF Take
  <2> QED
    BY <2>2, <2>3, <2>4 DEF PhaseOfHolder, PhaseAt, TokenOf
<1>10. ASSUME NEW p \in Processes, NEW j \in Jobs, ClaimRead(p, j)
       PROVE  PhaseOfHolder'
  BY <1>10 DEF ClaimRead, PhaseOfHolder, PhaseAt, TokenOf
<1>11. ASSUME NEW p \in Processes, Crash(p)
       PROVE  PhaseOfHolder'
  <2>1. \A k \in Jobs, b \in Attempts : run'[k][b] \in {Off, run[k][b]}
    BY <1>11 DEF Crash
  <2>2. UNCHANGED job
    BY <1>11 DEF Crash
  <2> QED
    BY <2>1, <2>2 DEF PhaseOfHolder, PhaseAt, TokenOf, Off
<1>12. CASE LateCharge \/ UNCHANGED vars
  BY <1>12 DEF LateCharge, vars, PhaseOfHolder, PhaseAt, TokenOf
<1> QED
  BY <1>2, <1>3, <1>4, <1>5, <1>6, <1>7, <1>8, <1>9, <1>10, <1>11, <1>12 DEF Next

\* The stored phase is that of the run that holds the lease, whatever older runs
\* of the render still do.
THEOREM PhaseOfHolderHolds == Spec => []PhaseOfHolder
<1> DEFINE IInv == TypeOK /\ PhaseOfHolder
<1>1. Init => IInv
  BY InitType, InitPhase
<1>2. IInv /\ [Next]_vars => IInv'
  BY NextType, NextPhase
<1> QED
  BY <1>1, <1>2, PTL DEF Spec

\* What one step may make of a phase.
LEMMA NextStage == TypeOK /\ PhaseOfHolder /\ [Next]_vars => [StageStep]_vars
<1> SUFFICES ASSUME TypeOK, PhaseOfHolder, Next PROVE StageStep
  OBVIOUS
<1>1. job \in [Jobs -> JobRow] /\ \A k \in Jobs : job[k] \in JobRow
  BY DEF TypeOK
\* A step that changes the phase of one render, along a stage.
<1>2. ASSUME NEW j \in Jobs, NEW s, <<job[j].status, s>> \in Stage,
             \A k \in Jobs : k # j => job'[k] = job[k], job'[j].status = s
      PROVE  StageStep
  BY <1>2 DEF StageStep
<1>3. UNCHANGED job => StageStep
  BY DEF StageStep
<1>4. ASSUME NEW j \in Jobs, Create(j)
      PROVE  StageStep
  BY <1>1, <1>2, <1>4 DEF Create, JobRow, Stage
<1>5. ASSUME NEW j \in Jobs, Cancel(j)
      PROVE  StageStep
  <2>1. job'[j].status = "cancelled" /\ \A k \in Jobs : k # j => job'[k] = job[k]
    BY <1>1, <1>5 DEF Cancel, Returned, JobRow
  <2>2. <<job[j].status, "cancelled">> \in Stage
    BY <1>5 DEF Cancel, Cancellable, Stage
  <2> QED
    BY <1>2, <2>1, <2>2
<1>6. ASSUME NEW j \in Jobs, NEW approved \in BOOLEAN, Review(j, approved)
      PROVE  StageStep
  <2>1. PICK s \in {"completed", "failed"} : job' = [job EXCEPT ![j].status = s]
    BY <1>6 DEF Review
  <2>2. <<job[j].status, s>> \in Stage
    BY <1>6 DEF Review, Stage
  <2> QED
    BY <1>1, <1>2, <2>1, <2>2 DEF JobRow
<1>7. ASSUME NEW j \in Jobs, NEW a \in Attempts, Work(j, a)
      PROVE  StageStep
  <2>1. \A k \in Jobs : k # j => job'[k] = job[k]
    BY <1>7, WorkShape
  <2>2. PhaseAt(j, a)
    BY DEF PhaseOfHolder
  <2>3. CASE ~TokenOf(j, a)
    BY <1>3, <1>7, <2>3, WorkShape
  <2>4. CASE TokenOf(j, a) /\ job' # job
    <3>1. job[j].status \in Running
      BY <2>2, <2>4 DEF PhaseAt
    <3>2. ASSUME NEW s, NEW next, AdvanceVideoRenderPhase(j, a, s, next),
                 <<job[j].status, s>> \in Stage \cup (Running \X Running),
                 s = job[j].status \/ <<job[j].status, s>> \in Stage
          PROVE  StageStep
      <4>1. job'[j].status = s
        BY <1>1, <2>4, <3>2 DEF AdvanceVideoRenderPhase, JobRow
      <4> QED
        BY <1>2, <2>1, <3>2, <4>1 DEF StageStep
    <3>3. CASE Prepare(j, a)
      <4>1. job[j].status = "materializing" /\ AdvanceVideoRenderPhase(j, a, "materializing", "download")
        BY <2>2, <2>4, <3>3 DEF Prepare, PhaseAt, At
      <4> QED
        BY <3>2, <4>1 DEF Running
    <3>4. CASE Download(j, a)
      <4>1. job[j].status = "materializing" /\ AdvanceVideoRenderPhase(j, a, "rendering", "encode")
        BY <2>2, <2>4, <3>4 DEF Download, PhaseAt, At
      <4> QED
        BY <3>2, <4>1 DEF Stage
    <3>5. CASE Encode(j, a)
      <4>1. job[j].status = "rendering" /\ AdvanceVideoRenderPhase(j, a, "archiving", "upload")
        BY <2>2, <2>4, <3>5 DEF Encode, PhaseAt, At
      <4> QED
        BY <3>2, <4>1 DEF Stage
    <3>6. CASE Upload(j, a)
      <4>1. job[j].status = "archiving"
        BY <2>2, <2>4, <3>6 DEF Upload, PhaseAt, At
      <4>2. job'[j].status = "pending_review"
        BY <1>1, <2>4, <3>6 DEF Upload, JobRow
      <4>3. <<"archiving", "pending_review">> \in Stage
        BY DEF Stage
      <4> QED
        BY <1>2, <2>1, <4>1, <4>2, <4>3
    <3>7. CASE Fail(j, a)
      <4>1. job'[j].status \in {"failed", "queued"}
        BY <1>1, <2>4, <3>7 DEF Fail, Returned, JobRow
      <4>2. <<job[j].status, job'[j].status>> \in Stage
        BY <3>1, <4>1 DEF Stage
      <4> QED
        BY <1>2, <2>1, <4>2
    <3> QED
      BY <1>7, <3>3, <3>4, <3>5, <3>6, <3>7 DEF Work
  <2> QED
    BY <1>3, <2>3, <2>4
<1>8. ASSUME NEW p \in Processes, ClaimWrite(p)
      PROVE  StageStep
  <2>1. PICK j \in Jobs : j = seen[p]
    BY <1>8 DEF ClaimWrite, TypeOK
  <2>2. CASE Claimable(j)
    <3>1. job'[j].status = "materializing" /\ \A k \in Jobs : k # j => job'[k] = job[k]
      BY <1>1, <1>8, <2>1, <2>2 DEF ClaimWrite, JobRow
    <3>2. <<job[j].status, "materializing">> \in Stage
      BY <2>2 DEF Claimable, Stage
    <3> QED
      BY <1>2, <3>1, <3>2
  <2> QED
    BY <1>3, <1>8, <2>1, <2>2 DEF ClaimWrite
<1>9. ASSUME NEW j \in Jobs, LeaseExpires(j) \/ \E a \in Attempts : Heartbeat(j, a)
      PROVE  StageStep
  <2>1. \A k \in Jobs : job'[k].status = job[k].status
    BY <1>1, <1>9 DEF LeaseExpires, Heartbeat, JobRow
  <2> QED
    BY <2>1 DEF StageStep
<1>10. ASSUME NEW p \in Processes, Take(p) \/ Crash(p) \/ \E j \in Jobs : ClaimRead(p, j)
       PROVE  StageStep
  BY <1>3, <1>10 DEF Take, Crash, ClaimRead
<1>11. LateCharge => StageStep
  BY <1>3 DEF LateCharge
<1> QED
  BY <1>4, <1>5, <1>6, <1>7, <1>8, <1>9, <1>10, <1>11 DEF Next

\* No stage is skipped, and a render that ended stays ended.
THEOREM LinearStagesHolds == Spec => LinearStages
<1> DEFINE IInv == TypeOK /\ PhaseOfHolder
<1>1. Init => IInv
  BY InitType, InitPhase
<1>2. IInv /\ [Next]_vars => IInv'
  BY NextType, NextPhase
<1>3. IInv /\ [Next]_vars => [StageStep]_vars
  BY NextStage
<1> QED
  BY <1>1, <1>2, <1>3, PTL DEF Spec, LinearStages

-----------------------------------------------------------------------------
(***************************************************************************)
(* The hold. A step leaves every hold as it is, or takes, spends or returns *)
(* that of one render.                                                     *)
(***************************************************************************)

SameBooks(j) ==
    /\ job'[j].reserved = job[j].reserved
    /\ job'[j].settled = job[j].settled
    /\ job'[j].released = job[j].released

Stays(j) ==
    /\ SameBooks(j)
    /\ \/ job'[j].status = job[j].status
       \/ job[j].status \in Unfinished /\ job'[j].status \in Unfinished
       \/ job[j].status = "pending_review" /\ job'[j].status \in {"completed", "failed"}

\* Other charges may take a credit meanwhile.
NoneMoves ==
    /\ \A k \in Jobs : Stays(k)
    /\ account'.reserved = account.reserved
    /\ \/ account'.credits = account.credits
       \/ account'.credits = account.credits - 1 /\ account.credits > LeastCredits

Takes(j) ==
    /\ job[j].status = "absent" /\ job'[j].status = "queued"
    /\ job'[j].reserved = Price
    /\ job'[j].settled = job[j].settled /\ job'[j].released = job[j].released
    /\ account.credits - account.reserved >= Price
    /\ account'.credits = account.credits
    /\ account'.reserved = account.reserved + Price

Spends(j) ==
    /\ job[j].status \in Unfinished /\ job'[j].status = "pending_review"
    /\ job'[j].reserved = job[j].reserved /\ job'[j].released = job[j].released
    /\ job'[j].settled = Price
    /\ account.credits >= Price
    /\ account'.credits = account.credits - Price
    /\ account'.reserved = account.reserved - Price

Frees(j) ==
    /\ job[j].status \in Unfinished /\ job'[j].status \in {"failed", "cancelled"}
    /\ job'[j].reserved = job[j].reserved /\ job'[j].settled = job[j].settled
    /\ job'[j].released = job[j].released + Outstanding(j)
    /\ account'.credits = account.credits
    /\ account'.reserved = account.reserved - Outstanding(j)

OneMoves == \E j \in Jobs : /\ \A k \in Jobs : k # j => Stays(k)
                            /\ Takes(j) \/ Spends(j) \/ Frees(j)

\* A render that does not change keeps its hold.
LEMMA SameStays == \A j : job'[j] = job[j] => Stays(j)
  BY DEF Stays, SameBooks

\* What a release writes.
LEMMA ReleaseFrees ==
    ASSUME TypeOK, NEW j \in Jobs, NEW s \in {"failed", "cancelled"},
           job[j].status \in Unfinished,
           account' = ReturnHold(j), job' = [job EXCEPT ![j] = Returned(j, s)]
    PROVE  OneMoves
<1>1. job \in [Jobs -> JobRow] /\ job[j] \in JobRow /\ account \in AccountRow
  BY DEF TypeOK
<1>2. \A k \in Jobs : k # j => Stays(k)
  BY <1>1, SameStays
<1>3. job'[j] = Returned(j, s)
  BY <1>1
<1> DEFINE out == Outstanding(j)
<1>4. Returned(j, s) = [job[j] EXCEPT !.status = s, !.leased = FALSE, !.live = FALSE,
                                      !.released = job[j].released + out]
  BY <1>1 DEF Returned, JobRow
<1>5. ReturnHold(j) = [account EXCEPT !.reserved = account.reserved - out]
  BY <1>1 DEF ReturnHold, AccountRow
<1> HIDE DEF out
<1>6. /\ job'[j].status = s /\ job'[j].reserved = job[j].reserved
      /\ job'[j].settled = job[j].settled /\ job'[j].released = job[j].released + out
  BY <1>1, <1>3, <1>4 DEF JobRow
<1>7. account'.credits = account.credits /\ account'.reserved = account.reserved - out
  BY <1>1, <1>5 DEF AccountRow
<1>8. Frees(j)
  BY <1>6, <1>7 DEF Frees, out
<1> QED
  BY <1>2, <1>8 DEF OneMoves

LEMMA HoldMoves == TypeOK /\ PhaseOfHolder /\ [Next]_vars => NoneMoves \/ OneMoves
<1> SUFFICES ASSUME TypeOK, PhaseOfHolder, [Next]_vars PROVE NoneMoves \/ OneMoves
  OBVIOUS
<1>1. /\ job \in [Jobs -> JobRow] /\ \A k \in Jobs : job[k] \in JobRow
      /\ account \in AccountRow
  BY DEF TypeOK
<1>2. UNCHANGED <<account, job>> => NoneMoves
  BY SameStays DEF NoneMoves
<1>3. ASSUME UNCHANGED account, NEW j \in Jobs, \A k \in Jobs : k # j => job'[k] = job[k], Stays(j)
      PROVE  NoneMoves
  BY <1>3, SameStays DEF NoneMoves
<1>4. ASSUME NEW j \in Jobs, Create(j)
      PROVE  OneMoves
  <2>1. \A k \in Jobs : k # j => Stays(k)
    BY <1>1, <1>4, SameStays DEF Create
  <2>2. Takes(j)
    BY <1>1, <1>4 DEF Create, Takes, JobRow, AccountRow
  <2> QED
    BY <2>1, <2>2 DEF OneMoves
<1>5. ASSUME NEW j \in Jobs, Cancel(j)
      PROVE  OneMoves
  BY <1>5, ReleaseFrees DEF Cancel, Cancellable
<1>6. ASSUME NEW j \in Jobs, NEW approved \in BOOLEAN, Review(j, approved)
      PROVE  NoneMoves
  <2>1. PICK s \in {"completed", "failed"} : job' = [job EXCEPT ![j].status = s]
    BY <1>6 DEF Review
  <2>2. Stays(j)
    BY <1>1, <1>6, <2>1 DEF Review, Stays, SameBooks, JobRow
  <2> QED
    BY <1>1, <1>3, <1>6, <2>1, <2>2 DEF Review
<1>7. ASSUME NEW j \in Jobs, NEW a \in Attempts, Work(j, a)
      PROVE  NoneMoves \/ OneMoves
  <2>1. \A k \in Jobs : k # j => job'[k] = job[k]
    BY <1>7, WorkShape
  <2>2. TokenOf(j, a) => job[j].status \in Unfinished
    BY DEF PhaseOfHolder, PhaseAt, Unfinished
  <2>3. ASSUME NEW s \in Unfinished, NEW next, AdvanceVideoRenderPhase(j, a, s, next),
               UNCHANGED account
        PROVE  NoneMoves
    <3>1. CASE TokenOf(j, a)
      <4>1. Stays(j)
        BY <1>1, <2>2, <2>3, <3>1 DEF AdvanceVideoRenderPhase, Stays, SameBooks, JobRow
      <4> QED
        BY <1>3, <2>1, <2>3, <4>1
    <3>2. CASE ~TokenOf(j, a)
      BY <1>2, <2>3, <3>2 DEF AdvanceVideoRenderPhase
    <3> QED
      BY <3>1, <3>2
  <2>4. CASE Prepare(j, a)
    BY <1>2, <2>3, <2>4 DEF Prepare, Unfinished, Running
  <2>5. CASE Download(j, a)
    BY <1>2, <2>3, <2>5 DEF Download, Unfinished, Running
  <2>6. CASE Encode(j, a)
    BY <1>2, <2>3, <2>6 DEF Encode, Unfinished, Running
  <2>7. CASE Upload(j, a)
    <3>1. CASE UNCHANGED <<account, job>>
      BY <1>2, <3>1
    <3>2. CASE /\ CanFinish(j, a)
               /\ account' = [credits |-> account.credits - Price,
                              reserved |-> account.reserved - Price]
               /\ job' = [job EXCEPT ![j].status = "pending_review", ![j].leased = FALSE,
                                     ![j].live = FALSE, ![j].settled = Price]
      <4>1. Spends(j)
        BY <1>1, <2>2, <3>2 DEF CanFinish, Spends, JobRow
      <4> QED
        BY <2>1, <4>1, SameStays DEF OneMoves
    <3> QED
      BY <2>7, <3>1, <3>2 DEF Upload
  <2>8. CASE Fail(j, a)
    <3>1. CASE TokenOf(j, a) /\ account' = ReturnHold(j) /\ job' = [job EXCEPT ![j] = Returned(j, "failed")]
      BY <2>2, <3>1, ReleaseFrees
    <3>2. CASE /\ TokenOf(j, a) /\ UNCHANGED account
               /\ job' = [job EXCEPT ![j].status = "queued", ![j].leased = FALSE, ![j].live = FALSE]
      <4>1. Stays(j)
        BY <1>1, <2>2, <3>2 DEF Stays, SameBooks, JobRow, Unfinished
      <4> QED
        BY <1>3, <2>1, <3>2, <4>1
    <3> QED
      BY <1>2, <2>8, <3>1, <3>2 DEF Fail
  <2> QED
    BY <1>7, <2>4, <2>5, <2>6, <2>7, <2>8 DEF Work
<1>8. ASSUME NEW p \in Processes, ClaimWrite(p)
      PROVE  NoneMoves
  <2>1. PICK j \in Jobs : j = seen[p]
    BY <1>8 DEF ClaimWrite, TypeOK
  <2>2. CASE Claimable(j)
    <3>1. \A k \in Jobs : k # j => job'[k] = job[k]
      BY <1>1, <1>8, <2>1, <2>2 DEF ClaimWrite
    <3>2. Stays(j)
      BY <1>1, <1>8, <2>1, <2>2
      DEF ClaimWrite, Claimable, Stays, SameBooks, JobRow, Unfinished, Running
    <3> QED
      BY <1>3, <1>8, <3>1, <3>2 DEF ClaimWrite
  <2> QED
    BY <1>2, <1>8, <2>1, <2>2 DEF ClaimWrite
<1>9. ASSUME NEW j \in Jobs, LeaseExpires(j) \/ \E a \in Attempts : Heartbeat(j, a)
      PROVE  NoneMoves
  <2>1. \A k \in Jobs : Stays(k)
    BY <1>1, <1>9 DEF LeaseExpires, Heartbeat, JobRow, Stays, SameBooks
  <2> QED
    BY <1>9, <2>1 DEF LeaseExpires, Heartbeat, NoneMoves
<1>10. ASSUME NEW p \in Processes, Take(p) \/ Crash(p) \/ \E j \in Jobs : ClaimRead(p, j)
       PROVE  NoneMoves
  BY <1>2, <1>10 DEF Take, Crash, ClaimRead
<1>11. CASE LateCharge
  <2>1. account'.credits = account.credits - 1 /\ account'.reserved = account.reserved
    BY <1>1, <1>11 DEF LateCharge, AccountRow
  <2> QED
    BY <1>11, <2>1, SameStays DEF LateCharge, NoneMoves
<1>12. CASE UNCHANGED vars
  BY <1>2, <1>12 DEF vars
<1> QED
  BY <1>4, <1>5, <1>6, <1>7, <1>8, <1>9, <1>10, <1>11, <1>12 DEF Next

\* Prices are numbers, and not zero.
LEMMA PriceType == Price \in Nat /\ Price > 0
  BY RenderAssumption

\* A render whose hold stays keeps its books balanced, and stays to come or not.
LEMMA StaysBalanced ==
    ASSUME NEW j \in Jobs, Balanced(job[j]), Stays(j)
    PROVE  /\ Balanced(job'[j])
           /\ job'[j].status \in Unfinished <=> job[j].status \in Unfinished
           /\ HoldOfRow(job'[j]) = HoldOfRow(job[j])
  BY DEF Balanced, Stays, SameBooks, Open, Spent, Freed, Unfinished, Running, HoldOfRow

\* The hold of a render, from its balanced books.
LEMMA HoldFromBooks ==
    ASSUME NEW row, Balanced(row)
    PROVE  /\ row.status = "absent" => HoldOfRow(row) = "none"
           /\ row.status \in Unfinished => HoldOfRow(row) = "held"
           /\ row.status \in {"pending_review", "completed"} => HoldOfRow(row) = "spent"
           /\ row.status = "cancelled" => HoldOfRow(row) = "returned"
           /\ row.status = "failed" => HoldOfRow(row) \in {"spent", "returned"}
  BY PriceType DEF Balanced, HoldOfRow, Open, Spent, Freed

LEMMA OneMovesBalanced ==
    ASSUME NEW j \in Jobs, Balanced(job[j])
    PROVE  /\ Takes(j) => Balanced(job'[j])
           /\ Spends(j) => Balanced(job'[j])
           /\ Frees(j) => Balanced(job'[j]) /\ Freed(job'[j]) /\ Outstanding(j) = Price
<1>1. ASSUME Takes(j) PROVE Balanced(job'[j])
  BY <1>1 DEF Takes, Balanced, Open, Unfinished
<1>2. ASSUME Spends(j) PROVE Balanced(job'[j])
  BY <1>2 DEF Spends, Balanced, Open, Spent, Unfinished, Running
<1>3. ASSUME Frees(j) PROVE Balanced(job'[j]) /\ Freed(job'[j]) /\ Outstanding(j) = Price
  <2>1. Open(job[j])
    BY <1>3 DEF Frees, Balanced
  <2>2. Outstanding(j) = Price
    BY <2>1, PriceType DEF Open, Outstanding
  <2>3. Freed(job'[j])
    BY <1>3, <2>1, <2>2, PriceType DEF Frees, Open, Freed
  <2>4. Balanced(job'[j])
    BY <1>3, <2>3 DEF Frees, Balanced, Unfinished, Running
  <2> QED
    BY <2>2, <2>3, <2>4
<1> QED
  BY <1>1, <1>2, <1>3

LEMMA InitHold == Init => Envelope /\ Reservations
<1> SUFFICES ASSUME Init PROVE Envelope /\ Reservations
  OBVIOUS
<1>1. Envelope
  BY DEF Init, Envelope, Balanced, Unfinished, Running
<1>2. Pending = {}
  BY DEF Init, Pending, Unfinished, Running
<1>3. Price * Cardinality(Pending) = 0
  BY <1>2, FS_EmptySet, PriceType
<1> QED
  BY <1>1, <1>3 DEF Init, Reservations

\* Renders to come are finitely many, and their number moves by one.
LEMMA PendingMoves ==
    ASSUME TypeOK, NEW j \in Jobs, NEW T
    PROVE  /\ Cardinality(Pending) \in Nat
           /\ j \notin Pending /\ T = Pending \cup {j}
              => Price * Cardinality(T) = Price * Cardinality(Pending) + Price
           /\ j \in Pending /\ T = Pending \ {j}
              => Price * Cardinality(T) = Price * Cardinality(Pending) - Price
<1>1. IsFiniteSet(Pending)
  BY RenderAssumption, FS_Subset DEF Pending
<1>2. Cardinality(Pending) \in Nat
  BY <1>1, FS_CardinalityType
<1>3. \A n \in Int : Price * (n + 1) = Price * n + Price /\ Price * (n - 1) = Price * n - Price
  BY PriceType
<1>4. CASE j \notin Pending /\ T = Pending \cup {j}
  <2>1. Cardinality(T) = Cardinality(Pending) + 1
    BY <1>1, <1>4, FS_AddElement
  <2> QED
    BY <1>2, <1>3, <1>4, <2>1
<1>5. CASE j \in Pending /\ T = Pending \ {j}
  <2>1. Cardinality(T) = Cardinality(Pending) - 1
    BY <1>1, <1>5, FS_RemoveElement
  <2> QED
    BY <1>2, <1>3, <1>5, <2>1
<1> QED
  BY <1>2, <1>4, <1>5

LEMMA NextHold ==
    ASSUME TypeOK, PhaseOfHolder, Envelope, Reservations, [Next]_vars
    PROVE  Envelope' /\ Reservations'
<1>1. account.reserved \in Int /\ Price \in Int
  BY PriceType DEF TypeOK, AccountRow
<1>2. \A k \in Jobs : Balanced(job[k])
  BY DEF Envelope
<1>3. Pending' = {k \in Jobs : job'[k].status \in Unfinished}
  BY DEF Pending, Unfinished, Running
<1>4. CASE NoneMoves
  <2>1. Envelope'
    BY <1>2, <1>4, StaysBalanced DEF NoneMoves, Envelope, Balanced, Open, Spent, Freed
  <2>2. Pending' = Pending
    BY <1>2, <1>3, <1>4, StaysBalanced DEF NoneMoves, Pending
  <2> QED
    BY <1>4, <2>1, <2>2 DEF NoneMoves, Reservations
<1>5. CASE OneMoves
  <2> PICK j \in Jobs : (\A k \in Jobs : k # j => Stays(k)) /\ (Takes(j) \/ Spends(j) \/ Frees(j))
    BY <1>5 DEF OneMoves
  <2>1. \A k \in Jobs : k # j => Balanced(job'[k])
                                 /\ (job'[k].status \in Unfinished <=> job[k].status \in Unfinished)
    BY <1>2, StaysBalanced
  <2>2. Balanced(job'[j])
    BY <1>2, OneMovesBalanced
  <2>3. Envelope'
    BY <2>1, <2>2 DEF Envelope, Balanced, Open, Spent, Freed
  <2>4. CASE Takes(j)
    <3>1. j \notin Pending /\ Pending' = Pending \cup {j}
      BY <1>3, <2>1, <2>4 DEF Takes, Pending, Unfinished, Running
    <3> QED
      BY <1>1, <2>3, <2>4, <3>1, PendingMoves DEF Takes, Reservations
  <2>5. CASE Spends(j) \/ Frees(j)
    <3>1. j \in Pending /\ Pending' = Pending \ {j}
      BY <1>3, <2>1, <2>5 DEF Spends, Frees, Pending, Unfinished, Running
    <3>2. account'.reserved = account.reserved - Price
      BY <1>2, <2>5, OneMovesBalanced DEF Spends, Frees
    <3> QED
      BY <1>1, <2>3, <3>1, <3>2, PendingMoves DEF Reservations
  <2> QED
    BY <2>4, <2>5
<1> QED
  BY <1>4, <1>5, HoldMoves

\* The inductive invariant of the hold.
HoldInv == TypeOK /\ PhaseOfHolder /\ Envelope /\ Reservations

LEMMA HoldInvInductive ==
    /\ Init => HoldInv
    /\ HoldInv /\ [Next]_vars => HoldInv'
<1>1. Init => HoldInv
  BY InitType, InitPhase, InitHold DEF HoldInv
<1>2. HoldInv /\ [Next]_vars => HoldInv'
  BY NextType, NextPhase, NextHold DEF HoldInv
<1> QED
  BY <1>1, <1>2

\* Every render that is to come has its hold open, a result is paid in full, and
\* a render that gives no result is free.
THEOREM EnvelopeHolds == Spec => []Envelope
<1>1. HoldInv => Envelope
  BY DEF HoldInv
<1> QED
  BY <1>1, HoldInvInductive, PTL DEF Spec

\* The account reserves the price of every render that is to come, and no more.
THEOREM ReservationsHold == Spec => []Reservations
<1>1. HoldInv => Reservations
  BY DEF HoldInv
<1> QED
  BY <1>1, HoldInvInductive, PTL DEF Spec

-----------------------------------------------------------------------------
(***************************************************************************)
(* The holds of renders implement CreditHold.                              *)
(***************************************************************************)

LEMMA InitRefines == Init => Envelopes!HoldInit
<1> SUFFICES ASSUME Init PROVE Envelopes!HoldInit
  OBVIOUS
<1>1. \A j \in Jobs : HoldOfRow(job[j]) = "none"
  BY DEF Init, HoldOfRow
<1> QED
  BY <1>1 DEF Init, HoldOf, Envelopes!HoldInit

\* The held renders of the abstract account are those to come.
LEMMA HeldArePending ==
    ASSUME TypeOK, Envelope
    PROVE  Envelopes!HeldOf(HoldOf) = Pending
<1>1. ASSUME NEW j \in Jobs
      PROVE  HoldOf[j] = "held" <=> job[j].status \in Unfinished
  <2>1. Balanced(job[j])
    BY DEF Envelope
  <2>2. job[j].status \in JobStatus
    BY DEF TypeOK, JobRow
  <2> QED
    BY <2>1, <2>2, HoldFromBooks DEF HoldOf, JobStatus
<1> QED
  BY <1>1 DEF Envelopes!HeldOf, Pending

LEMMA NextRefines ==
    ASSUME HoldInv, [Next]_vars
    PROVE  [Envelopes!HoldNext]_(Envelopes!holdVars)
<1>1. \A k \in Jobs : Balanced(job[k])
  BY DEF HoldInv, Envelope
<1>2. account.credits \in Int /\ account.reserved \in Int
  BY DEF HoldInv, TypeOK, AccountRow
<1>3. HoldOf' = [k \in Jobs |-> HoldOfRow(job'[k])]
  BY DEF HoldOf, HoldOfRow
<1>4. CASE NoneMoves
  <2>1. HoldOf' = HoldOf
    BY <1>1, <1>3, <1>4, StaysBalanced DEF NoneMoves, HoldOf
  <2> QED
    BY <1>4, <2>1
    DEF NoneMoves, Envelopes!HoldNext, Envelopes!LateCharge, Envelopes!holdVars
<1>5. CASE OneMoves
  <2> PICK j \in Jobs : (\A k \in Jobs : k # j => Stays(k)) /\ (Takes(j) \/ Spends(j) \/ Frees(j))
    BY <1>5 DEF OneMoves
  <2>1. HoldOf' = [HoldOf EXCEPT ![j] = HoldOfRow(job'[j])]
    BY <1>1, <1>3, StaysBalanced DEF HoldOf
  <2>2. Balanced(job'[j])
    BY <1>1, OneMovesBalanced
  <2>3. HoldOf[j] = HoldOfRow(job[j])
    BY DEF HoldOf
  <2>4. CASE Takes(j)
    <3>1. HoldOfRow(job[j]) = "none" /\ HoldOfRow(job'[j]) = "held"
      BY <1>1, <2>2, <2>4, HoldFromBooks DEF Takes, Unfinished
    <3>2. account.credits >= Price * (Cardinality(Pending) + 1)
      <4>1. account.credits >= Price * Cardinality(Pending) + Price
        BY <1>2, <2>4, PriceType DEF Takes, HoldInv, Reservations
      <4>2. Cardinality(Pending) \in Nat
        BY PendingMoves DEF HoldInv
      <4>3. Price * (Cardinality(Pending) + 1) = Price * Cardinality(Pending) + Price
        BY <4>2, PriceType
      <4> QED
        BY <4>1, <4>3
    <3>3. Envelopes!HoldCredits(j)
      <4>1. Envelopes!HeldOf(HoldOf) = Pending
        BY HeldArePending DEF HoldInv
      <4>2. account'.credits = account.credits
        BY <2>4 DEF Takes
      <4>3. Envelopes!Cardinality(Pending) = Cardinality(Pending)
        BY DEF Envelopes!Cardinality, Cardinality
      <4> QED
        BY <2>1, <2>3, <3>1, <3>2, <4>1, <4>2, <4>3 DEF Envelopes!HoldCredits
    <3> QED
      BY <3>3 DEF Envelopes!HoldNext
  <2>5. CASE Spends(j)
    <3>1. HoldOfRow(job[j]) = "held" /\ HoldOfRow(job'[j]) = "spent"
      BY <1>1, <2>2, <2>5, HoldFromBooks DEF Spends
    <3>2. Envelopes!SettleHeldCredits(j)
      BY <2>1, <2>3, <2>5, <3>1 DEF Spends, Envelopes!SettleHeldCredits
    <3> QED
      BY <3>2 DEF Envelopes!HoldNext
  <2>6. CASE Frees(j)
    <3>1. HoldOfRow(job[j]) = "held"
      BY <1>1, <2>6, HoldFromBooks DEF Frees
    <3>2. HoldOfRow(job'[j]) = "returned"
      BY <1>1, <2>6, OneMovesBalanced, PriceType DEF Freed, HoldOfRow
    <3>3. Envelopes!ReleaseHeldCredits(j)
      BY <2>1, <2>3, <2>6, <3>1, <3>2 DEF Frees, Envelopes!ReleaseHeldCredits
    <3> QED
      BY <3>3 DEF Envelopes!HoldNext
  <2> QED
    BY <2>4, <2>5, <2>6
<1> QED
  BY <1>4, <1>5, HoldMoves DEF HoldInv

\* A render takes its price from free credits once, and spends it or gives it
\* back once: VideoRender implements CreditHold.
THEOREM HeldOnceHolds == Spec => HeldOnce
<1>1. Init => Envelopes!HoldInit
  BY InitRefines
<1>2. HoldInv /\ [Next]_vars => [Envelopes!HoldNext]_(Envelopes!holdVars)
  BY NextRefines
<1> QED
  BY <1>1, <1>2, HoldInvInductive, PTL DEF Spec, HeldOnce, Envelopes!HoldSpec

=============================================================================
