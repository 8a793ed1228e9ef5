------------------------- MODULE BatchProductionProofs -------------------------
(***************************************************************************)
(* Theorems about BatchProduction for every set of jobs, items and         *)
(* workers, every price and limit, both executors and every environment.   *)
(***************************************************************************)
EXTENDS BatchProduction, TotalsProofs

-----------------------------------------------------------------------------
(***************************************************************************)
(* Aggregation.                                                            *)
(***************************************************************************)

\* The aggregated status is a status, and never that of a job not created.
LEMMA RollupType ==
    ASSUME NEW status, NEW rows
    PROVE  Rollup(status, rows) \in JobStatus \ {"absent"}
<1> DEFINE Has(s) == \E x \in rows : x.status = s
           Holds(v) == \E x \in rows : x.status = "completed" /\ x.review = v
           Busy == Has("queued") \/ Has("running")
           Lost == Has("failed") \/ Has("cancelled")
<1>1. CASE status = "cancelled"
  BY <1>1 DEF Rollup, JobStatus
<1>2. CASE status # "cancelled" /\ Busy
  BY <1>2 DEF Rollup, JobStatus
<1>3. CASE status # "cancelled" /\ ~Busy
  BY <1>3 DEF Rollup, JobStatus
<1> QED
  BY <1>1, <1>2, <1>3

\* A cancelled job stays cancelled whatever its items are.
LEMMA RollupCancelled ==
    ASSUME NEW rows
    PROVE  Rollup("cancelled", rows) = "cancelled"
  BY DEF Rollup

\* What an aggregation gives back is a number.
LEMMA ReleasedType ==
    ASSUME NEW js, IsFiniteSet(js), NEW jobs, NEW rows,
           \A j \in js : Release(j, jobs[j], rows) \in Int
    PROVE  Released(js, jobs, rows) \in Nat
<1> DEFINE back == [j \in js |-> Release(j, jobs[j], rows)]
<1>1. \A j \in js : back[j] \in Int
  OBVIOUS
<1> HIDE DEF back
<1>2. Total(js, back) \in Nat
  BY <1>1, TotalType
<1> QED
  BY <1>2 DEF Released, back

\* Aggregating keeps the types of the rows it is given, and touches of a job
\* only the status and the released credits, of the account only the reserve.
LEMMA AggregateType ==
    ASSUME NEW js \in SUBSET Jobs, IsFiniteSet(js),
           NEW jobs \in [Jobs -> JobRow], NEW rows \in [Items -> BudgetedRow],
           NEW funds \in AccountRow, Aggregate(js, jobs, rows, funds)
    PROVE  /\ account' \in AccountRow /\ job' \in [Jobs -> JobRow]
           /\ item' = rows
           /\ account'.credits = funds.credits
           /\ \A j \in Jobs : /\ job'[j].settled = jobs[j].settled
                              /\ job'[j].actual = jobs[j].actual
                              /\ jobs[j].status = "cancelled" => job'[j].status = "cancelled"
<1>1. \A j \in Jobs : RollupOf(j, jobs[j], rows) \in JobStatus
  BY RollupType DEF RollupOf
<1>2. \A j \in Jobs : Release(j, jobs[j], rows) \in Int
  BY DEF Release, Outstanding, JobRow
<1>3. Released(js, jobs, rows) \in Nat
  BY <1>2, ReleasedType
<1>4. \A j \in Jobs : jobs[j].status = "cancelled" => RollupOf(j, jobs[j], rows) = "cancelled"
  BY RollupCancelled DEF RollupOf
<1>5. account' \in AccountRow /\ account'.credits = funds.credits
  <2> DEFINE back == Released(js, jobs, rows)
  <2>1. account' = [funds EXCEPT !.reserved = @ - back]
    BY DEF Aggregate
  <2>2. back \in Int
    BY <1>3
  <2> HIDE DEF back
  <2> QED
    BY <2>1, <2>2 DEF AccountRow
<1>6. job' \in [Jobs -> JobRow]
  <2> SUFFICES ASSUME NEW j \in Jobs
               PROVE  (IF j \in js
                       THEN [jobs[j] EXCEPT !.status = RollupOf(j, jobs[j], rows),
                                            !.released = @ + Release(j, jobs[j], rows)]
                       ELSE jobs[j]) \in JobRow
    BY DEF Aggregate
  <2> DEFINE back == Release(j, jobs[j], rows)
             status == RollupOf(j, jobs[j], rows)
  <2>1. back \in Int /\ status \in JobStatus /\ jobs[j] \in JobRow
    BY <1>1, <1>2
  <2>2. jobs[j].released + back \in Int
    BY <2>1 DEF JobRow
  <2> HIDE DEF back, status
  <2>3. [jobs[j] EXCEPT !.status = status, !.released = @ + back] \in JobRow
    BY <2>1, <2>2 DEF JobRow
  <2> QED
    BY <2>3 DEF back, status
<1>7. \A j \in Jobs : /\ job'[j].settled = jobs[j].settled
                      /\ job'[j].actual = jobs[j].actual
                      /\ jobs[j].status = "cancelled" => job'[j].status = "cancelled"
  BY <1>4 DEF Aggregate, JobRow
<1> QED
  BY <1>5, <1>6, <1>7 DEF Aggregate

-----------------------------------------------------------------------------
(***************************************************************************)
(* What each transaction writes on the row of an item keeps its budget of  *)
(* attempts and runs.                                                      *)
(***************************************************************************)

\* A new item has all its attempts.
LEMMA CreatedBudgeted == Created \in BudgetedRow
<1>1. Created \in ItemRow
  BY BatchAssumption DEF Created, ItemRow, ItemStatus, Review, Runs
<1> QED
  BY <1>1, BatchAssumption DEF Created, BudgetedRow

\* A row keeps its budget if it keeps run and attempts and is closed or left in
\* its status.
LEMMA KeptBudget ==
    ASSUME NEW row \in BudgetedRow, NEW other \in ItemRow,
           other.run = row.run, other.attempts = row.attempts,
           other.status \in {row.status, "completed", "failed", "cancelled"}
    PROVE  other \in BudgetedRow
  BY DEF BudgetedRow

\* Cancelling, failing and completing do not change run or attempts.
LEMMA ClosedBudgeted ==
    ASSUME NEW row \in BudgetedRow
    PROVE  /\ Cancelled(row) \in BudgetedRow
           /\ Returned(row, "failed") \in BudgetedRow
           /\ Delivered(row) \in BudgetedRow
           /\ TimedOut(row) \in BudgetedRow
<1>1. row \in ItemRow
  BY DEF BudgetedRow
<1>2. Cancelled(row) \in BudgetedRow
  <2>1. Cancelled(row) \in ItemRow
    BY <1>1 DEF Cancelled, ItemRow, ItemStatus
  <2> QED
    BY <1>1, <2>1, KeptBudget DEF Cancelled, ItemRow
<1>3. Returned(row, "failed") \in BudgetedRow
  <2>1. Returned(row, "failed") \in ItemRow
    BY <1>1 DEF Returned, ItemRow, ItemStatus
  <2> QED
    BY <1>1, <2>1, KeptBudget DEF Returned, ItemRow
<1>4. Delivered(row) \in BudgetedRow
  <2>1. Delivered(row) \in ItemRow
    BY <1>1 DEF Delivered, Returned, ItemRow, ItemStatus, Review
  <2> QED
    BY <1>1, <2>1, KeptBudget DEF Delivered, Returned, ItemRow
<1>5. TimedOut(row) \in BudgetedRow
  <2>1. TimedOut(row) \in ItemRow
    BY <1>1 DEF TimedOut, ItemRow, ItemStatus
  <2> QED
    BY <1>1, <2>1, KeptBudget DEF TimedOut, ItemRow
<1> QED
  BY <1>2, <1>3, <1>4, <1>5

\* Nor do the renewal of a lease, a review and the mark of the primary image.
LEMMA MarkedBudgeted ==
    ASSUME NEW row \in BudgetedRow, NEW review \in Review, NEW flag \in BOOLEAN
    PROVE  /\ [row EXCEPT !.live = flag] \in BudgetedRow
           /\ [row EXCEPT !.primary = flag] \in BudgetedRow
           /\ Reviewed(row, review) \in BudgetedRow
<1> DEFINE primary == row.primary /\ review # "rejected"
<1>1. row \in ItemRow /\ primary \in BOOLEAN
  BY DEF BudgetedRow
<1> HIDE DEF primary
<1>2. [row EXCEPT !.live = flag] \in BudgetedRow
  <2>1. [row EXCEPT !.live = flag] \in ItemRow
    BY <1>1 DEF ItemRow
  <2> QED
    BY <1>1, <2>1, KeptBudget DEF ItemRow
<1>3. [row EXCEPT !.primary = flag] \in BudgetedRow
  <2>1. [row EXCEPT !.primary = flag] \in ItemRow
    BY <1>1 DEF ItemRow
  <2> QED
    BY <1>1, <2>1, KeptBudget DEF ItemRow
<1>4. [row EXCEPT !.review = review, !.primary = primary] \in BudgetedRow
  <2>1. [row EXCEPT !.review = review, !.primary = primary] \in ItemRow
    BY <1>1 DEF ItemRow
  <2> QED
    BY <1>1, <2>1, KeptBudget DEF ItemRow
<1> QED
  BY <1>2, <1>3, <1>4 DEF primary, Reviewed

\* A new run asked for by a member starts a new series of attempts.
LEMMA RerunBudgeted ==
    ASSUME NEW row \in BudgetedRow, row.run + MaxAttempts <= MaxRuns
    PROVE  Rerun(row) \in BudgetedRow
<1>1. row \in ItemRow /\ row.run \in Nat
  BY BatchAssumption DEF BudgetedRow, ItemRow, Runs
<1>2. row.run + 1 \in Runs /\ row.run + 1 + MaxAttempts <= MaxRuns + 1
  BY <1>1, BatchAssumption DEF Runs, ItemRow
<1>3. Rerun(row) \in ItemRow
  <2> DEFINE run == row.run + 1
             all == 0..MaxAttempts
  <2>1. run \in Runs /\ 0 \in all /\ row \in ItemRow
    BY <1>1, <1>2, BatchAssumption
  <2>2. ItemRow = [status: ItemStatus, run: Runs, attempts: all,
                   holder: Workers \cup {NoWorker}, live: BOOLEAN,
                   review: Review, primary: BOOLEAN]
    BY DEF ItemRow
  <2>3. Rerun(row) = [row EXCEPT !.status = "queued", !.run = run, !.attempts = 0,
                                 !.holder = NoWorker, !.live = FALSE,
                                 !.review = "none", !.primary = FALSE]
    BY DEF Rerun
  <2> HIDE DEF run, all
  <2> QED
    BY <2>1, <2>2, <2>3 DEF ItemStatus, Review
<1>4. /\ Rerun(row).run = row.run + 1 /\ Rerun(row).attempts = 0
      /\ Rerun(row).status = "queued"
  BY <1>1 DEF Rerun, ItemRow
<1> QED
  BY <1>2, <1>3, <1>4, BatchAssumption DEF BudgetedRow

\* An automatic retry takes one run and leaves an attempt for it.
LEMMA RequeuedBudgeted ==
    ASSUME NEW row \in BudgetedRow, row.status = "running", row.attempts < MaxAttempts
    PROVE  Requeued(row) \in BudgetedRow
<1>1. /\ row \in ItemRow /\ row.run \in 1..MaxRuns /\ row.attempts \in Nat
      /\ row.run + MaxAttempts <= MaxRuns + row.attempts
  BY BatchAssumption DEF BudgetedRow, ItemRow, Runs
<1>2. row.run + 1 \in Runs /\ row.run + 1 + MaxAttempts <= MaxRuns + 1 + row.attempts
  BY <1>1, BatchAssumption DEF Runs
<1>3. Requeued(row) \in ItemRow
  BY <1>1, <1>2 DEF Requeued, Returned, ItemRow, ItemStatus
<1>4. /\ Requeued(row).run = row.run + 1 /\ Requeued(row).attempts = row.attempts
      /\ Requeued(row).status = "queued"
  BY <1>1 DEF Requeued, Returned, ItemRow
<1> QED
  BY <1>1, <1>2, <1>3, <1>4, BatchAssumption DEF BudgetedRow

\* A claim takes an attempt, of a queued item as of an expired lease.
LEMMA ClaimedBudgeted ==
    ASSUME NEW row \in BudgetedRow, NEW w \in Workers,
           \/ row.status = "queued"
           \/ row.status = "running" /\ row.attempts < MaxAttempts
    PROVE  Claimed(row, w) \in BudgetedRow
<1>1. /\ row \in ItemRow /\ row.run \in 1..MaxRuns /\ row.attempts \in 0..MaxAttempts
      /\ row.attempts < MaxAttempts
      /\ row.run + MaxAttempts <= MaxRuns + 1 + row.attempts
  BY BatchAssumption DEF BudgetedRow, ItemRow, Runs
<1>2. row.attempts + 1 \in 0..MaxAttempts
  BY <1>1, BatchAssumption
<1>3. Claimed(row, w) \in ItemRow
  BY <1>1, <1>2 DEF Claimed, ItemRow, ItemStatus, Review
<1>4. /\ Claimed(row, w).run = row.run /\ Claimed(row, w).attempts = row.attempts + 1
      /\ Claimed(row, w).status = "running"
  BY <1>1 DEF Claimed, ItemRow
<1> QED
  BY <1>1, <1>3, <1>4, BatchAssumption DEF BudgetedRow

-----------------------------------------------------------------------------
(***************************************************************************)
(* What a worker remembers.                                                *)
(***************************************************************************)

\* A worker between two claims.
LEMMA IdleType == Idle \in BusyState
  BY BatchAssumption DEF Idle, BusyState, WorkerState, Steps, Runs

\* A busy worker that takes a step of its claim stays on its item.
LEMMA BusyType ==
    ASSUME NEW state \in BusyState, state.step # "idle",
           NEW step \in Steps, NEW charged \in BOOLEAN, NEW retry \in BOOLEAN
    PROVE  /\ [state EXCEPT !.step = step] \in BusyState
           /\ [state EXCEPT !.step = step, !.charged = charged] \in BusyState
           /\ [state EXCEPT !.step = step, !.retry = retry] \in BusyState
           /\ [state EXCEPT !.step = step, !.charged = charged, !.retry = retry] \in BusyState
  BY DEF BusyState, WorkerState

\* Replacing what one worker remembers.
LEMMA BecomeType ==
    ASSUME worker \in [Workers -> BusyState], NEW w \in Workers,
           NEW state \in BusyState, Become(w, state)
    PROVE  worker' \in [Workers -> BusyState]
  BY DEF Become

\* The steps that only move the worker, renew its lease or give its claim up.
LEMMA MoveType ==
    ASSUME TypeOK, NEW w \in Workers, worker[w].step # "idle",
           NEW step \in Steps, NEW charged \in BOOLEAN, NEW retry \in BOOLEAN
    PROVE  /\ GoTo(w, step) => worker' \in [Workers -> BusyState]
           /\ GiveUp(w, charged, retry) => worker' \in [Workers -> BusyState]
           /\ Become(w, Idle) => worker' \in [Workers -> BusyState]
           /\ Become(w, [worker[w] EXCEPT !.step = step, !.charged = charged])
              => worker' \in [Workers -> BusyState]
           /\ Become(w, [worker[w] EXCEPT !.step = step, !.retry = retry])
              => worker' \in [Workers -> BusyState]
<1>1. worker[w] \in BusyState /\ worker \in [Workers -> BusyState] /\ "fence" \in Steps
  BY DEF TypeOK, Steps
<1> QED
  BY <1>1, IdleType, BusyType, BecomeType DEF GoTo, GiveUp

\* Renewing a lease keeps the rows of the items.
LEMMA RenewType ==
    ASSUME TypeOK, NEW w \in Workers
    PROVE  Renew(w) => item' \in [Items -> BudgetedRow]
<1> SUFFICES ASSUME Renew(w), NEW i \in Items
             PROVE  item'[i] \in BudgetedRow
  BY DEF Renew, TypeOK
<1>1. item'[i] \in {item[i], [item[i] EXCEPT !.live = TRUE]}
  BY DEF Renew, TypeOK
<1> QED
  BY <1>1, MarkedBudgeted DEF TypeOK, Review

\* Passing a fence, or abandoning the claim there.
LEMMA FencedType ==
    ASSUME TypeOK, NEW w \in Workers, worker[w].step # "idle", NEW step \in Steps,
           Fenced(w, step) \/ Abandon(w)
    PROVE  item' \in [Items -> BudgetedRow] /\ worker' \in [Workers -> BusyState]
  BY RenewType, MoveType DEF Fenced, Abandon, TypeOK

-----------------------------------------------------------------------------
(***************************************************************************)
(* Type correctness. The steps of the members and of the background        *)
(* first, then those of the workers.                                       *)
(***************************************************************************)

\* The job of an item is a job.
LEMMA JobOfType == \A i \in Items : JobOf[i] \in Jobs
  BY BatchAssumption

\* A transaction on the items of one job.
LEMMA AggregateOne ==
    ASSUME NEW j \in Jobs,
           NEW jobs \in [Jobs -> JobRow], NEW rows \in [Items -> BudgetedRow],
           NEW funds \in AccountRow, Aggregate({j}, jobs, rows, funds)
    PROVE  /\ account' \in AccountRow /\ job' \in [Jobs -> JobRow]
           /\ item' = rows
           /\ account'.credits = funds.credits
           /\ \A k \in Jobs : /\ job'[k].settled = jobs[k].settled
                              /\ job'[k].actual = jobs[k].actual
                              /\ jobs[k].status = "cancelled" => job'[k].status = "cancelled"
<1>1. IsFiniteSet({j}) /\ {j} \in SUBSET Jobs
  BY FS_Singleton
<1> QED
  BY <1>1, AggregateType

\* The jobs of the exhausted items are finitely many.
LEMMA ExhaustedJobs ==
    /\ {JobOf[i] : i \in Exhausted} \in SUBSET Jobs
    /\ IsFiniteSet({JobOf[i] : i \in Exhausted})
<1>1. Exhausted \in SUBSET Items
  BY DEF Exhausted
<1>2. IsFiniteSet(Exhausted)
  BY <1>1, BatchAssumption, FS_Subset
<1>3. [i \in Exhausted |-> JobOf[i]] \in Surjection(Exhausted, {JobOf[i] : i \in Exhausted})
  BY DEF Surjection
<1>4. IsFiniteSet({JobOf[i] : i \in Exhausted})
  BY <1>2, <1>3, FS_Surjection
<1> QED
  BY <1>1, <1>4, JobOfType

\* A reservation keeps the types, the credits and what was settled.
LEMMA ReservedType ==
    ASSUME TypeOK, NEW j \in Jobs, NEW amount \in Int
    PROVE  /\ Reserved(j, amount) \in [Jobs -> JobRow]
           /\ Holding(amount) \in AccountRow
           /\ Holding(amount).credits = account.credits
           /\ \A k \in Jobs : /\ Reserved(j, amount)[k].settled = job[k].settled
                              /\ Reserved(j, amount)[k].actual = job[k].actual
                              /\ Reserved(j, amount)[k].status = job[k].status
<1>1. job[j].reserved + amount \in Int /\ account.reserved + amount \in Int
  BY DEF TypeOK, JobRow, AccountRow
<1>2. \A k \in Jobs : job[k] \in JobRow
  BY DEF TypeOK
<1>3. [job[j] EXCEPT !.reserved = job[j].reserved + amount] \in JobRow
  BY <1>1, <1>2 DEF JobRow
<1>4. Reserved(j, amount) = [job EXCEPT ![j] = [job[j] EXCEPT !.reserved = job[j].reserved + amount]]
  BY DEF Reserved, TypeOK
<1>5. Reserved(j, amount) \in [Jobs -> JobRow]
  BY <1>3, <1>4 DEF TypeOK
<1>6. Holding(amount) \in AccountRow /\ Holding(amount).credits = account.credits
  BY <1>1 DEF Holding, TypeOK, AccountRow
<1>7. \A k \in Jobs : /\ Reserved(j, amount)[k].settled = job[k].settled
                     /\ Reserved(j, amount)[k].actual = job[k].actual
                     /\ Reserved(j, amount)[k].status = job[k].status
  BY <1>2, <1>4 DEF TypeOK, JobRow
<1> QED
  BY <1>5, <1>6, <1>7

\* The prices of several items add up to a number.
LEMMA HoldType ==
    ASSUME NEW S \in SUBSET Items
    PROVE  Price * Cardinality(S) \in Nat
<1>1. Cardinality(S) \in Nat
  BY BatchAssumption, FS_Subset, FS_CardinalityType
<1> QED
  BY <1>1, BatchAssumption

\* The requests of the members keep the types.
LEMMA MembersType ==
    ASSUME TypeOK, Members
    PROVE  TypeOK'
<1>1. ASSUME NEW j \in Jobs, Create(j)
      PROVE  TypeOK'
  <2> DEFINE hold == Price * Cardinality(ItemsOf(j))
  <2>1. hold \in Int
    BY HoldType DEF ItemsOf
  <2> HIDE DEF hold
  <2>2. account' \in AccountRow
    BY <1>1, <2>1, ReservedType DEF Create, hold
  <2>3. \A k \in Jobs : job[k] \in JobRow
    BY DEF TypeOK
  <2>4. job' = [job EXCEPT ![j] = [job[j] EXCEPT !.status = "active", !.reserved = hold]]
    BY <1>1 DEF Create, hold, TypeOK
  <2>5. job' \in [Jobs -> JobRow]
    BY <2>1, <2>3, <2>4 DEF TypeOK, JobRow, JobStatus
  <2>6. item' \in [Items -> BudgetedRow]
    BY <1>1, CreatedBudgeted DEF Create, TypeOK
  <2> QED
    BY <1>1, <2>2, <2>5, <2>6 DEF Create, TypeOK
<1>2. ASSUME NEW j \in Jobs, Cancel(j)
      PROVE  TypeOK'
  <2> DEFINE jobs == [job EXCEPT ![j].status = "cancelled"]
             rows == [i \in Items |-> IF i \in ItemsOf(j) THEN Cancelled(item[i]) ELSE item[i]]
  <2>1. jobs \in [Jobs -> JobRow]
    BY DEF TypeOK, JobRow, JobStatus
  <2>2. rows \in [Items -> BudgetedRow]
    BY ClosedBudgeted DEF TypeOK
  <2>3. Aggregate({j}, jobs, rows, account)
    BY <1>2 DEF Cancel
  <2> HIDE DEF jobs, rows
  <2> QED
    BY <1>2, <2>1, <2>2, <2>3, AggregateOne DEF Cancel, TypeOK
<1>3. ASSUME NEW j \in Jobs, RetryJob(j)
      PROVE  TypeOK'
  <2> DEFINE failed == {i \in ItemsOf(j) : item[i].status = "failed"}
             hold == Price * Cardinality(failed)
             rows == [i \in Items |-> IF i \in failed THEN Rerun(item[i]) ELSE item[i]]
  <2>1. hold \in Int
    BY HoldType DEF ItemsOf
  <2>2. rows \in [Items -> BudgetedRow]
    BY <1>3, RerunBudgeted DEF TypeOK, RetryJob
  <2>3. Aggregate({j}, Reserved(j, hold), rows, Holding(hold))
    BY <1>3 DEF RetryJob
  <2> HIDE DEF hold, rows
  <2> QED
    BY <1>3, <2>1, <2>2, <2>3, ReservedType, AggregateOne DEF RetryJob, TypeOK
<1>4. ASSUME NEW i \in Items, RetryItem(i)
      PROVE  TypeOK'
  <2> DEFINE j == JobOf[i]
             rows == [item EXCEPT ![i] = Rerun(item[i])]
  <2>1. j \in Jobs /\ Price \in Int
    BY BatchAssumption
  <2>2. rows \in [Items -> BudgetedRow]
    BY <1>4, RerunBudgeted DEF TypeOK, RetryItem
  <2>3. Aggregate({j}, Reserved(j, Price), rows, Holding(Price))
    BY <1>4 DEF RetryItem
  <2> HIDE DEF j, rows
  <2> QED
    BY <1>4, <2>1, <2>2, <2>3, ReservedType, AggregateOne, ZenonT(40) DEF RetryItem, TypeOK
<1>5. ASSUME NEW i \in Items, NEW v \in {"approved", "rejected"}, ReviewItem(i, v)
      PROVE  TypeOK'
  <2> DEFINE j == JobOf[i]
             rows == [item EXCEPT ![i] = Reviewed(item[i], v)]
  <2>1. j \in Jobs /\ v \in Review
    BY BatchAssumption DEF Review
  <2>2. rows \in [Items -> BudgetedRow]
    BY <2>1, MarkedBudgeted DEF TypeOK
  <2>3. Aggregate({j}, job, rows, account)
    BY <1>5 DEF ReviewItem
  <2> HIDE DEF j, rows
  <2> QED
    BY <1>5, <2>1, <2>2, <2>3, AggregateOne DEF ReviewItem, TypeOK
<1>6. ASSUME NEW i \in Items, SetPrimary(i)
      PROVE  TypeOK'
  <2>1. \A k \in Items : [item[k] EXCEPT !.primary = (k = i)] \in BudgetedRow
    BY MarkedBudgeted DEF TypeOK, Review
  <2>2. item' \in [Items -> BudgetedRow]
    BY <1>6, <2>1 DEF SetPrimary, TypeOK
  <2> QED
    BY <1>6, <2>2 DEF SetPrimary, TypeOK
<1> QED
  BY <1>1, <1>2, <1>3, <1>4, <1>5, <1>6 DEF Members

\* So do the repairs, the clock and the late deliveries.
LEMMA BackgroundType ==
    ASSUME TypeOK, NEW i \in Items
    PROVE  /\ FailExhausted => TypeOK'
           /\ LeaseExpires(i) => TypeOK'
           /\ Reconcile(i) => TypeOK'
           /\ \A r \in Runs : DeliverLate(i, r) => TypeOK'
<1>1. ASSUME FailExhausted PROVE TypeOK'
  <2>1. Expired \in [Items -> BudgetedRow]
    BY ClosedBudgeted DEF Expired, TypeOK
  <2>2. Aggregate({JobOf[k] : k \in Exhausted}, job, Expired, account)
    BY <1>1 DEF FailExhausted
  <2>3. account' \in AccountRow /\ job' \in [Jobs -> JobRow] /\ item' = Expired
    BY <2>1, <2>2, ExhaustedJobs, AggregateType DEF TypeOK
  <2> QED
    BY <1>1, <2>1, <2>3 DEF FailExhausted, TypeOK
<1>2. ASSUME LeaseExpires(i) PROVE TypeOK'
  <2>1. [item[i] EXCEPT !.live = FALSE] \in BudgetedRow
    BY MarkedBudgeted DEF TypeOK, Review
  <2> QED
    BY <1>2, <2>1 DEF LeaseExpires, TypeOK
<1>3. ASSUME Reconcile(i) PROVE TypeOK'
  BY <1>3 DEF Reconcile, TypeOK, TaskStatus
<1>4. ASSUME NEW r \in Runs, DeliverLate(i, r) PROVE TypeOK'
  <2> DEFINE j == JobOf[i]
  <2>1. /\ j \in Jobs /\ account.credits - Price \in Int
        /\ job[j] \in JobRow /\ job[j].actual + Price \in Int
    BY BatchAssumption DEF TypeOK, AccountRow, JobRow
  <2>2. job' = [job EXCEPT ![j] = [job[j] EXCEPT !.actual = job[j].actual + Price]]
    BY <1>4, <2>1 DEF DeliverLate, TypeOK
  <2>3. [job[j] EXCEPT !.actual = job[j].actual + Price] \in JobRow
    BY <2>1 DEF JobRow
  <2> HIDE DEF j
  <2>4. job' \in [Jobs -> JobRow] /\ account' \in AccountRow
    BY <1>4, <2>1, <2>2, <2>3 DEF DeliverLate, TypeOK, AccountRow
  <2>5. task' \in [Items -> [Runs -> TaskStatus]]
    BY <1>4 DEF DeliverLate, TypeOK, TaskStatus
  <2> QED
    BY <1>4, <2>4, <2>5 DEF DeliverLate, TypeOK
<1> QED
  BY <1>1, <1>2, <1>3, <1>4

\* The steps of a worker that change neither the account nor a job nor a task.
LEMMA QuietWorkType ==
    ASSUME TypeOK, NEW w \in Workers
    PROVE  /\ Start(w) => TypeOK'
           /\ Lookup(w) => TypeOK'
           /\ Upstream(w) => TypeOK'
           /\ Verify(w) => TypeOK'
           /\ Deliver(w) => TypeOK'
           /\ FenceFailure(w) => TypeOK'
           /\ Heartbeat(w) => TypeOK'
           /\ Crash(w) => TypeOK'
<1>1. {"lookup", "finish", "begin", "upstream", "verify", "deliver", "complete", "refund"}
      \subseteq Steps
  BY DEF Steps
<1>2. ASSUME Start(w) PROVE TypeOK'
  <2>1. worker[w].step # "idle"
    BY <1>2 DEF Start, At
  <2>2. CASE Fenced(w, "lookup")
    BY <1>1, <1>2, <2>1, <2>2, FencedType DEF Start, TypeOK
  <2>3. CASE Held(w) /\ Renew(w) /\ \E retry \in BOOLEAN :
                /\ retry => "lookup" \in Env
                /\ Become(w, [worker[w] EXCEPT !.step = "finish", !.retry = retry])
    <3>1. PICK retry \in BOOLEAN :
               Become(w, [worker[w] EXCEPT !.step = "finish", !.retry = retry])
      BY <2>3
    <3>2. worker' \in [Workers -> BusyState]
      BY <1>1, <2>1, <3>1, MoveType
    <3>3. item' \in [Items -> BudgetedRow]
      BY <2>3, RenewType
    <3> QED
      BY <1>2, <3>2, <3>3 DEF Start, TypeOK
  <2> QED
    BY <1>2, <2>2, <2>3 DEF Start
<1>3. ASSUME Lookup(w) PROVE TypeOK'
  <2>1. worker[w].step # "idle"
    BY <1>3 DEF Lookup, At
  <2>2. worker' \in [Workers -> BusyState]
    BY <1>1, <1>3, <2>1, MoveType DEF Lookup
  <2> QED
    BY <1>3, <2>2 DEF Lookup, TypeOK
<1>4. ASSUME Upstream(w) PROVE TypeOK'
  <2>1. worker[w].step # "idle"
    BY <1>4 DEF Upstream, At
  <2>2. worker' \in [Workers -> BusyState]
    BY <1>1, <1>4, <2>1, MoveType DEF Upstream
  <2> QED
    BY <1>4, <2>2 DEF Upstream, TypeOK
<1>5. ASSUME Verify(w) PROVE TypeOK'
  <2>1. worker[w].step # "idle"
    BY <1>5 DEF Verify, At
  <2> QED
    BY <1>1, <1>5, <2>1, FencedType DEF Verify, TypeOK
<1>6. ASSUME Deliver(w) PROVE TypeOK'
  <2>1. worker[w].step # "idle"
    BY <1>6 DEF Deliver, At
  <2>2. worker' \in [Workers -> BusyState]
    BY <1>1, <1>6, <2>1, MoveType DEF Deliver
  <2> QED
    BY <1>6, <2>2 DEF Deliver, TypeOK
<1>7. ASSUME FenceFailure(w) PROVE TypeOK'
  <2>1. worker[w].step # "idle"
    BY <1>7 DEF FenceFailure, At
  <2> QED
    BY <1>1, <1>7, <2>1, FencedType DEF FenceFailure, TypeOK
<1>8. ASSUME Heartbeat(w) PROVE TypeOK'
  BY <1>1, <1>8, RenewType, FencedType DEF Heartbeat, TypeOK
<1>9. ASSUME Crash(w) PROVE TypeOK'
  BY <1>1, <1>9, MoveType DEF Crash, TypeOK
<1> QED
  BY <1>2, <1>3, <1>4, <1>5, <1>6, <1>7, <1>8, <1>9

\* The steps that charge, refund or settle the task of a run.
LEMMA MoneyWorkType ==
    ASSUME TypeOK, NEW w \in Workers
    PROVE  /\ Begin(w) => TypeOK'
           /\ Refund(w) => TypeOK'
           /\ Settle(w) => TypeOK'
<1> DEFINE i == worker[w].item
           j == JobOf[i]
<1>1. "upstream" \in Steps /\ "finish" \in Steps
  BY DEF Steps
<1>2. worker[w].step # "idle" => i \in Items /\ j \in Jobs
  BY JobOfType DEF TypeOK, BusyState
<1>3. /\ account.credits + Price \in Int /\ account.credits - Price \in Int
      /\ account.reserved - Price \in Int
  BY BatchAssumption DEF TypeOK, AccountRow
<1>4. ASSUME j \in Jobs
      PROVE  /\ job[j] \in JobRow
             /\ job[j].settled + Price \in Int /\ job[j].actual + Price \in Int
             /\ job[j].actual - Price \in Int
  BY <1>4, BatchAssumption DEF TypeOK, JobRow
<1>5. ASSUME Charge(w), worker[w].step # "idle" PROVE TypeOK'
  <2> DEFINE row == [job[j] EXCEPT !.settled = job[j].settled + Price,
                                   !.actual = job[j].actual + Price]
  <2>1. account' \in AccountRow
    BY <1>3, <1>5 DEF Charge, AccountRow
  <2>2. row \in JobRow
    BY <1>2, <1>4, <1>5 DEF JobRow
  <2>3. job' = [job EXCEPT ![j] = row]
    BY <1>2, <1>4, <1>5 DEF Charge, TypeOK, JobRow
  <2>4. job' \in [Jobs -> JobRow]
    BY <2>2, <2>3 DEF TypeOK
  <2>5. task' \in [Items -> [Runs -> TaskStatus]]
    BY <1>5 DEF Charge, TypeOK, TaskStatus
  <2>6. worker' \in [Workers -> BusyState]
    BY <1>1, <1>5, MoveType DEF Charge
  <2> QED
    BY <1>5, <2>1, <2>4, <2>5, <2>6 DEF Charge, TypeOK
<1>6. ASSUME Begin(w) PROVE TypeOK'
  <2>1. worker[w].step # "idle"
    BY <1>6 DEF Begin, At
  <2>2. CASE ~Charge(w)
    <3>1. worker' \in [Workers -> BusyState]
      BY <1>1, <1>6, <2>1, <2>2, MoveType DEF Begin
    <3> QED
      BY <1>6, <2>2, <3>1 DEF Begin, TypeOK
  <2> QED
    BY <1>5, <2>1, <2>2
<1>7. ASSUME Refund(w) PROVE TypeOK'
  <2>1. worker[w].step # "idle"
    BY <1>7 DEF Refund, At
  <2>2. worker' \in [Workers -> BusyState]
    BY <1>1, <1>7, <2>1, MoveType DEF Refund
  <2>3. CASE ~Refundable(TaskOf(w))
    BY <1>7, <2>2, <2>3 DEF Refund, TypeOK
  <2>4. CASE Refundable(TaskOf(w))
    <3> DEFINE row == [job[j] EXCEPT !.actual = job[j].actual - Price]
    <3>1. account' \in AccountRow
      BY <1>3, <1>7, <2>4 DEF Refund, AccountRow, TypeOK
    <3>2. row \in JobRow
      BY <1>2, <1>4, <2>1 DEF JobRow
    <3>3. job' = [job EXCEPT ![j] = row]
      BY <1>2, <1>7, <2>1, <2>4 DEF Refund, TypeOK
    <3>4. job' \in [Jobs -> JobRow]
      BY <3>2, <3>3 DEF TypeOK
    <3>5. task' \in [Items -> [Runs -> TaskStatus]]
      BY <1>7, <2>4 DEF Refund, TypeOK, TaskStatus
    <3> QED
      BY <1>7, <2>2, <3>1, <3>4, <3>5 DEF Refund, TypeOK
  <2> QED
    BY <2>3, <2>4
<1>8. ASSUME Settle(w) PROVE TypeOK'
  <2>1. worker[w].step # "idle"
    BY <1>8 DEF Settle, At
  <2>2. worker' \in [Workers -> BusyState]
    BY <1>1, <1>8, <2>1, MoveType DEF Settle
  <2>3. task' \in [Items -> [Runs -> TaskStatus]]
    BY <1>8 DEF Settle, TypeOK, TaskStatus
  <2> QED
    BY <1>8, <2>2, <2>3 DEF Settle, TypeOK
<1> QED
  BY <1>6, <1>7, <1>8

\* The steps of a worker that end in an aggregation.
LEMMA OutcomeType ==
    ASSUME TypeOK, NEW w \in Workers
    PROVE  /\ \A i \in Items : Claim(w, i) => TypeOK'
           /\ Finish(w) => TypeOK'
           /\ Complete(w) => TypeOK'
<1>1. ASSUME NEW i \in Items, Claim(w, i) PROVE TypeOK'
  <2> DEFINE rows == [item EXCEPT ![i] = Claimed(item[i], w)]
             state == [Idle EXCEPT !.step = "claimed", !.item = i, !.run = item[i].run]
  <2>1. item[i] \in BudgetedRow /\ item[i].run \in Runs
    BY DEF TypeOK, BudgetedRow, ItemRow
  <2>2. rows \in [Items -> BudgetedRow]
    BY <1>1, <2>1, ClaimedBudgeted DEF Claim, Claimable, TypeOK
  <2>3. Aggregate({JobOf[i]}, job, rows, account)
    BY <1>1 DEF Claim
  <2>4. state \in BusyState
    BY <2>1 DEF Idle, BusyState, WorkerState, Steps
  <2>5. worker' \in [Workers -> BusyState]
    BY <1>1, <2>4 DEF Claim, TypeOK
  <2> HIDE DEF rows
  <2>6. account' \in AccountRow /\ job' \in [Jobs -> JobRow] /\ item' = rows
    BY <2>2, <2>3, JobOfType, AggregateOne DEF TypeOK
  <2> QED
    BY <1>1, <2>2, <2>5, <2>6 DEF Claim, TypeOK
<1>2. ASSUME Finish(w) PROVE TypeOK'
  <2> DEFINE i == worker[w].item
             j == JobOf[i]
             again == /\ worker[w].retry /\ AttemptsLeft(i)
                      /\ worker[w].charged => Spendable >= Price
             hold == IF again THEN RetryHold(w) ELSE 0
             rows == [item EXCEPT ![i] = IF again THEN Requeued(item[i])
                                         ELSE Returned(item[i], "failed")]
  <2>1. worker[w].step # "idle"
    BY <1>2 DEF Finish, At
  <2>2. i \in Items /\ j \in Jobs
    BY <2>1, JobOfType DEF TypeOK, BusyState
  <2>3. worker' \in [Workers -> BusyState]
    BY <1>2, IdleType, BecomeType DEF Finish, TypeOK
  <2>4. CASE UNCHANGED <<account, job, item>>
    BY <1>2, <2>3, <2>4 DEF Finish, TypeOK
  <2>5. CASE Held(w) /\ Aggregate({j}, Reserved(j, hold), rows, Holding(hold))
    <3>1. hold \in Int
      BY BatchAssumption DEF RetryHold
    <3>2. again => item[i].status = "running" /\ item[i].attempts < MaxAttempts
      BY <2>5 DEF Held, AttemptsLeft
    <3>3. Returned(item[i], "failed") \in BudgetedRow
      BY <2>2, ClosedBudgeted DEF TypeOK
    <3>4. again => Requeued(item[i]) \in BudgetedRow
      BY <2>2, <3>2, RequeuedBudgeted DEF TypeOK
    <3>5. rows \in [Items -> BudgetedRow]
      BY <3>3, <3>4 DEF TypeOK
    <3> HIDE DEF hold, rows, j
    <3>6. account' \in AccountRow /\ job' \in [Jobs -> JobRow] /\ item' = rows
      BY <2>2, <2>5, <3>1, <3>5, ReservedType, AggregateOne
    <3> QED
      BY <1>2, <2>3, <3>5, <3>6 DEF Finish, TypeOK
  <2> QED
    BY <1>2, <2>4, <2>5 DEF Finish
<1>3. ASSUME Complete(w) PROVE TypeOK'
  <2> DEFINE i == worker[w].item
             j == JobOf[i]
             rows == [item EXCEPT ![i] = Delivered(item[i])]
  <2>1. worker[w].step # "idle" /\ "settle" \in Steps
    BY <1>3 DEF Complete, At, Steps
  <2>2. i \in Items /\ j \in Jobs
    BY <2>1, JobOfType DEF TypeOK, BusyState
  <2>3. worker' \in [Workers -> BusyState]
    BY <1>3, <2>1, MoveType DEF Complete
  <2>4. CASE UNCHANGED <<account, job, item>>
    BY <1>3, <2>3, <2>4 DEF Complete, TypeOK
  <2>5. CASE Aggregate({j}, job, rows, account)
    <3>1. rows \in [Items -> BudgetedRow]
      BY <2>2, ClosedBudgeted DEF TypeOK
    <3> HIDE DEF rows, j
    <3> QED
      BY <1>3, <2>2, <2>3, <2>5, <3>1, AggregateOne DEF Complete, TypeOK
  <2> QED
    BY <1>3, <2>4, <2>5 DEF Complete
<1> QED
  BY <1>1, <1>2, <1>3

\* The database starts empty and no worker has a claim.
LEMMA InitType == Init => TypeOK
<1> SUFFICES ASSUME Init PROVE TypeOK
  OBVIOUS
<1>1. account \in AccountRow
  BY BatchAssumption DEF Init, AccountRow
<1>2. job \in [Jobs -> JobRow]
  BY DEF Init, JobRow, JobStatus
<1>3. item \in [Items -> BudgetedRow]
  <2> DEFINE row == [Created EXCEPT !.status = "absent"]
  <2>1. Created \in ItemRow /\ "absent" \in ItemStatus
    BY CreatedBudgeted DEF BudgetedRow, ItemStatus
  <2>2. row \in ItemRow /\ row.status = "absent"
    BY <2>1 DEF ItemRow
  <2>3. row \in BudgetedRow
    BY <2>2 DEF BudgetedRow
  <2> QED
    BY <2>3 DEF Init
<1>4. task \in [Items -> [Runs -> TaskStatus]]
  BY DEF Init, TaskStatus
<1>5. worker \in [Workers -> BusyState]
  BY IdleType DEF Init
<1> QED
  BY <1>1, <1>2, <1>3, <1>4, <1>5 DEF TypeOK

\* Every step keeps the types.
LEMMA NextType == TypeOK /\ [Next]_vars => TypeOK'
<1> SUFFICES ASSUME TypeOK, [Next]_vars PROVE TypeOK'
  OBVIOUS
<1>1. CASE Members
  BY <1>1, MembersType
<1>2. CASE FailExhausted
  <2>1. PICK i \in Items : i \in Exhausted
    BY <1>2 DEF FailExhausted, Exhausted
  <2> QED
    BY <1>2, BackgroundType
<1>3. ASSUME NEW w \in Workers,
             Work(w) \/ Heartbeat(w) \/ Crash(w) \/ \E i \in Items : Claim(w, i)
      PROVE  TypeOK'
  BY <1>3, QuietWorkType, MoneyWorkType, OutcomeType DEF Work
<1>4. ASSUME NEW i \in Items,
             LeaseExpires(i) \/ Reconcile(i) \/ \E r \in Runs : DeliverLate(i, r)
      PROVE  TypeOK'
  BY <1>4, BackgroundType
<1>5. CASE UNCHANGED vars
  BY <1>5 DEF vars, TypeOK
<1> QED
  BY <1>1, <1>2, <1>3, <1>4, <1>5 DEF Next

\* In every reachable state the rows are well formed; no item is claimed more
\* often than maxBatchProductionAttempts, although the claim of a queued item
\* does not look at its attempts, and no run passes the bound, although the
\* automatic retry does not look at it.
THEOREM TypeCorrect == Spec => []TypeOK
  BY InitType, NextType, PTL DEF Spec

=============================================================================
