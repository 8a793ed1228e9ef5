------------------------ MODULE BatchProductionSafety ------------------------
(***************************************************************************)
(* The books of BatchProduction: no step loses, repeats or misplaces a     *)
(* charge or a refund, whatever is cancelled, crashes, pauses or arrives   *)
(* late; and the steps that may not touch a cancelled job, a settled task  *)
(* or the only primary image of a product and SKU. Then the holds: the     *)
(* account reserves what its jobs hold, and, as long as no worker outlives *)
(* its lease, one worker is at work on an item, what it completes was paid *)
(* for, and what a job has still to charge is covered.                     *)
(***************************************************************************)
EXTENDS BatchProductionProofs

-----------------------------------------------------------------------------
(***************************************************************************)
(* Every step moves the task of at most one run, and pays for what it      *)
(* moves.                                                                  *)
(***************************************************************************)

\* The task of run r of item i goes from one status to another.
Moved(i, r, from, to) == task[i][r] = from /\ task' = [task EXCEPT ![i][r] = to]

\* The account pays an amount for item i; its job books it, and books it as
\* charged when the task is new.
Booked(i, charged, paid) ==
    /\ account'.credits = account.credits - paid
    /\ \A j \in Jobs :
         /\ job'[j].settled = job[j].settled + (IF j = JobOf[i] THEN charged ELSE 0)
         /\ job'[j].actual = job[j].actual + (IF j = JobOf[i] THEN paid ELSE 0)

\* Nothing is charged, refunded or settled.
NothingBooked ==
    /\ task' = task
    /\ account'.credits = account.credits
    /\ \A j \in Jobs : job'[j].settled = job[j].settled /\ job'[j].actual = job[j].actual

\* The four ways the task of a run moves.
Posting(i, r) ==
    \/ Moved(i, r, "none", "running") /\ Booked(i, Price, Price)
    \/ Moved(i, r, "running", "failed") /\ Booked(i, 0, -Price)
    \/ Moved(i, r, "running", "success") /\ Booked(i, 0, 0)
    \/ Moved(i, r, "failed", "success") /\ Booked(i, 0, Price)

\* Steps that leave the rows of the account and of the jobs alone book nothing.
LEMMA UnchangedBooks ==
    ASSUME TypeOK, account' = account, job' = job
    PROVE  /\ task' = task => NothingBooked
           /\ \A i \in Items : Booked(i, 0, 0)
  BY BatchAssumption DEF TypeOK, AccountRow, JobRow, NothingBooked, Booked

\* An aggregation of one job whose rows book nothing books nothing.
LEMMA AggregateBooks ==
    ASSUME NEW j \in Jobs,
           NEW jobs \in [Jobs -> JobRow], NEW rows \in [Items -> BudgetedRow],
           NEW funds \in AccountRow, Aggregate({j}, jobs, rows, funds),
           task' = task, funds.credits = account.credits,
           \A k \in Jobs : jobs[k].settled = job[k].settled /\ jobs[k].actual = job[k].actual
    PROVE  NothingBooked
<1>1. /\ account'.credits = funds.credits
      /\ \A k \in Jobs : job'[k].settled = jobs[k].settled /\ job'[k].actual = jobs[k].actual
  BY AggregateOne
<1> QED
  BY <1>1 DEF NothingBooked

\* Nor does an aggregation of one job after a reservation.
LEMMA ReservedBooks ==
    ASSUME TypeOK, NEW j \in Jobs, NEW hold \in Int, NEW rows \in [Items -> BudgetedRow],
           Aggregate({j}, Reserved(j, hold), rows, Holding(hold)), task' = task
    PROVE  NothingBooked
<1>1. /\ Reserved(j, hold) \in [Jobs -> JobRow] /\ Holding(hold) \in AccountRow
      /\ Holding(hold).credits = account.credits
      /\ \A k \in Jobs : /\ Reserved(j, hold)[k].settled = job[k].settled
                         /\ Reserved(j, hold)[k].actual = job[k].actual
  BY ReservedType
<1> DEFINE jobs == Reserved(j, hold)
           funds == Holding(hold)
<1>2. Aggregate({j}, jobs, rows, funds)
  OBVIOUS
<1> HIDE DEF jobs, funds
<1>3. /\ jobs \in [Jobs -> JobRow] /\ funds \in AccountRow
      /\ funds.credits = account.credits
      /\ \A k \in Jobs : jobs[k].settled = job[k].settled /\ jobs[k].actual = job[k].actual
  BY <1>1 DEF jobs, funds
<1> QED
  BY <1>2, <1>3, AggregateBooks

\* The requests of the members book nothing.
LEMMA MembersBooks ==
    ASSUME TypeOK, Members
    PROVE  NothingBooked
<1>1. ASSUME NEW j \in Jobs, Create(j)
      PROVE  NothingBooked
  <2> DEFINE hold == Price * Cardinality(ItemsOf(j))
  <2>1. hold \in Int
    BY HoldType DEF ItemsOf
  <2> HIDE DEF hold
  <2>2. account'.credits = account.credits
    BY <1>1, <2>1, ReservedType DEF Create, hold
  <2>3. job' = [job EXCEPT ![j] = [job[j] EXCEPT !.status = "active", !.reserved = hold]]
    BY <1>1 DEF Create, hold, TypeOK
  <2>4. \A k \in Jobs : job[k] \in JobRow
    BY DEF TypeOK
  <2>5. \A k \in Jobs : job'[k].settled = job[k].settled /\ job'[k].actual = job[k].actual
    BY <2>3, <2>4 DEF TypeOK, JobRow
  <2> QED
    BY <1>1, <2>2, <2>5 DEF Create, NothingBooked
<1>2. ASSUME NEW j \in Jobs, Cancel(j)
      PROVE  NothingBooked
  <2> DEFINE jobs == [job EXCEPT ![j].status = "cancelled"]
             rows == [i \in Items |-> IF i \in ItemsOf(j) THEN Cancelled(item[i]) ELSE item[i]]
  <2>1. /\ jobs \in [Jobs -> JobRow]
        /\ \A k \in Jobs : jobs[k].settled = job[k].settled /\ jobs[k].actual = job[k].actual
    BY DEF TypeOK, JobRow, JobStatus
  <2>2. rows \in [Items -> BudgetedRow]
    BY ClosedBudgeted DEF TypeOK
  <2>3. Aggregate({j}, jobs, rows, account) /\ task' = task /\ account \in AccountRow
    BY <1>2 DEF Cancel, TypeOK
  <2> HIDE DEF jobs, rows
  <2> QED
    BY <2>1, <2>2, <2>3, AggregateBooks
<1>3. ASSUME NEW j \in Jobs, RetryJob(j)
      PROVE  NothingBooked
  <2> DEFINE failed == {i \in ItemsOf(j) : item[i].status = "failed"}
             hold == Price * Cardinality(failed)
             rows == [i \in Items |-> IF i \in failed THEN Rerun(item[i]) ELSE item[i]]
  <2>1. hold \in Int
    BY HoldType DEF ItemsOf
  <2>2. rows \in [Items -> BudgetedRow]
    BY <1>3, RerunBudgeted DEF TypeOK, RetryJob
  <2>3. Aggregate({j}, Reserved(j, hold), rows, Holding(hold)) /\ task' = task
    BY <1>3 DEF RetryJob
  <2> HIDE DEF hold, rows
  <2> QED
    BY <2>1, <2>2, <2>3, ReservedBooks
<1>4. ASSUME NEW i \in Items, RetryItem(i)
      PROVE  NothingBooked
  <2> DEFINE j == JobOf[i]
             rows == [item EXCEPT ![i] = Rerun(item[i])]
  <2>1. j \in Jobs /\ Price \in Int
    BY BatchAssumption
  <2>2. rows \in [Items -> BudgetedRow]
    BY <1>4, RerunBudgeted DEF TypeOK, RetryItem
  <2>3. Aggregate({j}, Reserved(j, Price), rows, Holding(Price)) /\ task' = task
    BY <1>4 DEF RetryItem
  <2> HIDE DEF j, rows
  <2> QED
    BY <2>1, <2>2, <2>3, ReservedBooks
<1>5. ASSUME NEW i \in Items, NEW v \in {"approved", "rejected"}, ReviewItem(i, v)
      PROVE  NothingBooked
  <2> DEFINE rows == [item EXCEPT ![i] = Reviewed(item[i], v)]
  <2>1. rows \in [Items -> BudgetedRow]
    BY MarkedBudgeted DEF TypeOK, Review
  <2>2. Aggregate({JobOf[i]}, job, rows, account) /\ task' = task
    BY <1>5 DEF ReviewItem
  <2>3. JobOf[i] \in Jobs /\ job \in [Jobs -> JobRow] /\ account \in AccountRow
    BY JobOfType DEF TypeOK
  <2> HIDE DEF rows
  <2> QED
    BY <2>1, <2>2, <2>3, AggregateBooks
<1>6. ASSUME NEW i \in Items, SetPrimary(i)
      PROVE  NothingBooked
  BY <1>6, UnchangedBooks DEF SetPrimary
<1> QED
  BY <1>1, <1>2, <1>3, <1>4, <1>5, <1>6 DEF Members

\* Nor does failing the items whose attempts are used up.
LEMMA ExhaustedBooks ==
    ASSUME TypeOK, FailExhausted
    PROVE  NothingBooked
<1>1. Expired \in [Items -> BudgetedRow]
  BY ClosedBudgeted DEF Expired, TypeOK
<1>2. Aggregate({JobOf[k] : k \in Exhausted}, job, Expired, account)
  BY DEF FailExhausted
<1> QED
  BY <1>1, <1>2, ExhaustedJobs, AggregateType DEF FailExhausted, TypeOK, NothingBooked

\* Nor do the claims and the outcomes of the workers.
LEMMA OutcomeBooks ==
    ASSUME TypeOK, NEW w \in Workers
    PROVE  /\ \A i \in Items : Claim(w, i) => NothingBooked
           /\ Finish(w) => NothingBooked
           /\ Complete(w) => NothingBooked
<1> DEFINE i == worker[w].item
           j == JobOf[i]
<1>1. worker[w].step # "idle" => i \in Items /\ j \in Jobs
  BY JobOfType DEF TypeOK, BusyState
<1>2. ASSUME NEW k \in Items, Claim(w, k) PROVE NothingBooked
  <2> DEFINE rows == [item EXCEPT ![k] = Claimed(item[k], w)]
  <2>1. rows \in [Items -> BudgetedRow]
    BY <1>2, ClaimedBudgeted DEF Claim, Claimable, TypeOK
  <2>2. Aggregate({JobOf[k]}, job, rows, account) /\ task' = task
    BY <1>2 DEF Claim
  <2>3. JobOf[k] \in Jobs /\ job \in [Jobs -> JobRow] /\ account \in AccountRow
    BY JobOfType DEF TypeOK
  <2> HIDE DEF rows
  <2> QED
    BY <2>1, <2>2, <2>3, AggregateBooks
<1>3. ASSUME Finish(w) PROVE NothingBooked
  <2> DEFINE again == /\ worker[w].retry /\ AttemptsLeft(i)
                      /\ worker[w].charged => Spendable >= Price
             hold == IF again THEN RetryHold(w) ELSE 0
             rows == [item EXCEPT ![i] = IF again THEN Requeued(item[i])
                                         ELSE Returned(item[i], "failed")]
  <2>1. i \in Items /\ j \in Jobs
    BY <1>1, <1>3 DEF Finish, At
  <2>2. CASE UNCHANGED <<account, job, item>>
    BY <1>3, <2>2, UnchangedBooks DEF Finish
  <2>3. CASE Held(w) /\ Aggregate({j}, Reserved(j, hold), rows, Holding(hold))
    <3>1. hold \in Int
      BY BatchAssumption DEF RetryHold
    <3>2. rows \in [Items -> BudgetedRow]
      <4>1. again => item[i].status = "running" /\ item[i].attempts < MaxAttempts
        BY <2>3 DEF Held, AttemptsLeft
      <4> QED
        BY <2>1, <4>1, ClosedBudgeted, RequeuedBudgeted DEF TypeOK
    <3>3. task' = task
      BY <1>3 DEF Finish
    <3> HIDE DEF hold, rows, j
    <3> QED
      BY <2>1, <2>3, <3>1, <3>2, <3>3, ReservedBooks
  <2> QED
    BY <1>3, <2>2, <2>3 DEF Finish
<1>4. ASSUME Complete(w) PROVE NothingBooked
  <2> DEFINE rows == [item EXCEPT ![i] = Delivered(item[i])]
  <2>1. i \in Items /\ j \in Jobs
    BY <1>1, <1>4 DEF Complete, At
  <2>2. CASE UNCHANGED <<account, job, item>>
    BY <1>4, <2>2, UnchangedBooks DEF Complete
  <2>3. CASE Aggregate({j}, job, rows, account)
    <3>1. rows \in [Items -> BudgetedRow]
      BY <2>1, ClosedBudgeted DEF TypeOK
    <3>2. task' = task /\ job \in [Jobs -> JobRow] /\ account \in AccountRow
      BY <1>4 DEF Complete, TypeOK
    <3> HIDE DEF rows, j
    <3> QED
      BY <2>1, <2>3, <3>1, <3>2, AggregateBooks
  <2> QED
    BY <1>4, <2>2, <2>3 DEF Complete
<1> QED
  BY <1>2, <1>3, <1>4

\* Of the steps of a worker, the charge, the refund and the settlement post.
LEMMA WorkBooks ==
    ASSUME TypeOK, NEW w \in Workers,
           Work(w) \/ Heartbeat(w) \/ Crash(w) \/ \E i \in Items : Claim(w, i)
    PROVE  NothingBooked \/ \E i \in Items, r \in Runs : Posting(i, r)
<1> DEFINE i == worker[w].item
           r == worker[w].run
           j == JobOf[i]
<1>1. ASSUME worker[w].step # "idle"
      PROVE  /\ i \in Items /\ r \in Runs /\ j \in Jobs
             /\ TaskOf(w) = task[i][r]
             /\ job[j] \in JobRow
  BY <1>1, JobOfType DEF TypeOK, BusyState, WorkerState, TaskOf
<1>2. CASE Start(w) \/ Lookup(w) \/ Upstream(w) \/ Verify(w) \/ Deliver(w)
           \/ FenceFailure(w) \/ Heartbeat(w) \/ Crash(w)
  <2>1. UNCHANGED <<account, job, task>>
    BY <1>2 DEF Start, Lookup, Upstream, Verify, Deliver, FenceFailure, Heartbeat, Crash
  <2> QED
    BY <2>1, UnchangedBooks
<1>3. CASE Finish(w) \/ Complete(w) \/ \E k \in Items : Claim(w, k)
  BY <1>3, OutcomeBooks
<1>4. CASE Begin(w)
  <2>1. CASE Charge(w)
    <3>1. Moved(i, r, "none", "running")
      BY <1>1, <1>4, <2>1 DEF Begin, At, Charge, Moved
    <3>2. account'.credits = account.credits - Price
      BY <2>1 DEF Charge
    <3>3. \A k \in Jobs :
            /\ job'[k].settled = job[k].settled + (IF k = j THEN Price ELSE 0)
            /\ job'[k].actual = job[k].actual + (IF k = j THEN Price ELSE 0)
      <4> DEFINE row == [job[j] EXCEPT !.settled = job[j].settled + Price,
                                       !.actual = job[j].actual + Price]
      <4>1. job' = [job EXCEPT ![j] = row]
        BY <1>1, <1>4, <2>1 DEF Begin, At, Charge, TypeOK, JobRow
      <4>2. row.settled = job[j].settled + Price /\ row.actual = job[j].actual + Price
        BY <1>1, <1>4 DEF Begin, At, JobRow
      <4>3. \A k \in Jobs : job[k].settled \in Int /\ job[k].actual \in Int
        BY DEF TypeOK, JobRow
      <4> HIDE DEF row
      <4> QED
        BY <1>1, <1>4, <4>1, <4>2, <4>3 DEF TypeOK
    <3> QED
      BY <1>1, <1>4, <3>1, <3>2, <3>3 DEF Begin, At, Posting, Booked
  <2>2. CASE UNCHANGED <<account, job, item, task>>
    BY <2>2, UnchangedBooks
  <2> QED
    BY <1>4, <2>1, <2>2 DEF Begin
<1>5. CASE Refund(w)
  <2>1. CASE ~Refundable(TaskOf(w))
    BY <1>5, <2>1, UnchangedBooks DEF Refund
  <2>2. CASE Refundable(TaskOf(w))
    <3>1. Moved(i, r, "running", "failed")
      BY <1>1, <1>5, <2>2 DEF Refund, At, Refundable, Moved
    <3>2. account'.credits = account.credits - (-Price)
      BY <1>5, <2>2, BatchAssumption DEF Refund, TypeOK, AccountRow
    <3>3. \A k \in Jobs :
            /\ job'[k].settled = job[k].settled + (IF k = j THEN 0 ELSE 0)
            /\ job'[k].actual = job[k].actual + (IF k = j THEN -Price ELSE 0)
      <4> DEFINE row == [job[j] EXCEPT !.actual = job[j].actual - Price]
      <4>1. job' = [job EXCEPT ![j] = row]
        BY <1>1, <1>5, <2>2 DEF Refund, At, TypeOK
      <4>2. row.settled = job[j].settled /\ row.actual = job[j].actual - Price
        BY <1>1, <1>5 DEF Refund, At, JobRow
      <4>3. \A k \in Jobs : job[k].settled \in Int /\ job[k].actual \in Int
        BY DEF TypeOK, JobRow
      <4> HIDE DEF row
      <4> QED
        BY <1>1, <1>5, <4>1, <4>2, <4>3, BatchAssumption DEF TypeOK
    <3> QED
      BY <1>1, <1>5, <3>1, <3>2, <3>3 DEF Refund, At, Posting, Booked
  <2> QED
    BY <2>1, <2>2
<1>6. CASE Settle(w)
  <2>1. UNCHANGED <<account, job>>
    BY <1>6 DEF Settle
  <2>2. CASE task[i][r] # "running"
    <3>1. task' = task
      BY <1>6, <2>2 DEF Settle, TypeOK
    <3> QED
      BY <2>1, <3>1, UnchangedBooks
  <2>3. CASE task[i][r] = "running"
    <3>1. Moved(i, r, "running", "success")
      BY <1>6, <2>3 DEF Settle, Moved
    <3> QED
      BY <1>1, <1>6, <2>1, <3>1, UnchangedBooks DEF Settle, At, Posting
  <2> QED
    BY <2>2, <2>3
<1> QED
  BY <1>2, <1>3, <1>4, <1>5, <1>6 DEF Work

\* Every step books nothing or posts the task of one run.
LEMMA NextBooks ==
    ASSUME TypeOK, [Next]_vars
    PROVE  NothingBooked \/ \E i \in Items, r \in Runs : Posting(i, r)
<1>1. CASE Members
  BY <1>1, MembersBooks
<1>2. CASE FailExhausted
  BY <1>2, ExhaustedBooks
<1>3. CASE \E w \in Workers : Work(w) \/ Heartbeat(w) \/ Crash(w) \/ \E i \in Items : Claim(w, i)
  BY <1>3, WorkBooks
<1>4. ASSUME NEW i \in Items, LeaseExpires(i)
      PROVE  NothingBooked
  BY <1>4, UnchangedBooks DEF LeaseExpires
<1>5. ASSUME NEW i \in Items, Reconcile(i)
      PROVE  \E r \in Runs : Posting(i, r)
  <2>1. item[i].run \in Runs
    BY DEF TypeOK, BudgetedRow, ItemRow
  <2>2. Moved(i, item[i].run, "running", "success")
    BY <1>5 DEF Reconcile, Moved
  <2> QED
    BY <1>5, <2>1, <2>2, UnchangedBooks DEF Reconcile, Posting
<1>6. ASSUME NEW i \in Items, NEW r \in Runs, DeliverLate(i, r)
      PROVE  Posting(i, r)
  <2> DEFINE j == JobOf[i]
             row == [job[j] EXCEPT !.actual = job[j].actual + Price]
  <2>1. Moved(i, r, "failed", "success")
    BY <1>6 DEF DeliverLate, Moved
  <2>2. account'.credits = account.credits - Price
    BY <1>6 DEF DeliverLate, TypeOK, AccountRow
  <2>3. j \in Jobs /\ job[j] \in JobRow
    BY JobOfType DEF TypeOK
  <2>4. job' = [job EXCEPT ![j] = row]
    BY <1>6, <2>3 DEF DeliverLate, TypeOK
  <2>5. row.settled = job[j].settled /\ row.actual = job[j].actual + Price
    BY <2>3 DEF JobRow
  <2>6. \A k \in Jobs : job[k].settled \in Int /\ job[k].actual \in Int
    BY DEF TypeOK, JobRow
  <2> HIDE DEF row
  <2>7. \A k \in Jobs :
          /\ job'[k].settled = job[k].settled + (IF k = j THEN 0 ELSE 0)
          /\ job'[k].actual = job[k].actual + (IF k = j THEN Price ELSE 0)
    BY <2>3, <2>4, <2>5, <2>6 DEF TypeOK
  <2> QED
    BY <2>1, <2>2, <2>7 DEF Posting, Booked
<1>7. CASE UNCHANGED vars
  BY <1>7, UnchangedBooks DEF vars
<1> QED
  BY <1>1, <1>2, <1>3, <1>4, <1>5, <1>6, <1>7 DEF Next

-----------------------------------------------------------------------------

\* How a posting changes the set of runs whose task is in one of some states.
LEMMA PostingPairs ==
    ASSUME TypeOK, NEW i \in Items, NEW r \in Runs, NEW from, NEW to,
           Moved(i, r, from, to)
    PROVE  /\ \A p \in Items \X Runs :
                task'[p[1]][p[2]] = IF p = <<i, r>> THEN to ELSE task[p[1]][p[2]]
           /\ task[i][r] = from
<1>1. \A k \in Items, q \in Runs :
         task'[k][q] = IF k = i /\ q = r THEN to ELSE task[k][q]
  BY DEF Moved, TypeOK
<1> QED
  BY <1>1 DEF Moved

\* The sets the ledger counts are finite.
LEMMA FinitePairs ==
    ASSUME NEW S \in SUBSET (Items \X Runs)
    PROVE  IsFiniteSet(S) /\ Cardinality(S) \in Nat
<1>1. IsFiniteSet(Runs)
  BY BatchAssumption, FS_Interval DEF Runs
<1>2. IsFiniteSet(Items \X Runs)
  BY <1>1, BatchAssumption, FS_Product
<1> QED
  BY <1>2, FS_Subset, FS_CardinalityType

\* One more pair costs one more price.
LEMMA PricePair ==
    ASSUME NEW S \in SUBSET (Items \X Runs), NEW p \in Items \X Runs
    PROVE  /\ p \notin S => Price * Cardinality(S \cup {p}) = Price * Cardinality(S) + Price
           /\ p \in S => Price * Cardinality(S \ {p}) = Price * Cardinality(S) - Price
<1>1. IsFiniteSet(S) /\ Cardinality(S) \in Nat
  BY FinitePairs
<1>2. \A n \in Int : Price * (n + 1) = Price * n + Price /\ Price * (n - 1) = Price * n - Price
  BY BatchAssumption
<1>3. p \notin S => Cardinality(S \cup {p}) = Cardinality(S) + 1
  BY <1>1, FS_AddElement
<1>4. p \in S => Cardinality(S \ {p}) = Cardinality(S) - 1
  BY <1>1, FS_RemoveElement
<1> QED
  BY <1>1, <1>2, <1>3, <1>4

\* The ledger of an empty database.
LEMMA InitLedger == Init => Ledger
<1> SUFFICES ASSUME Init PROVE Ledger
  OBVIOUS
<1>1. Paid = {} /\ Charged = {}
  BY DEF Init, Paid, Charged
<1>2. \A j \in Jobs : PaidOf(j) = {} /\ ChargedOf(j) = {}
  BY <1>1 DEF PaidOf, ChargedOf
<1>3. Cardinality({}) = 0 /\ Price * 0 = 0 /\ InitialCredits - 0 = InitialCredits
  BY FS_EmptySet, BatchAssumption
<1> QED
  BY <1>1, <1>2, <1>3 DEF Init, Ledger

\* A step that books nothing leaves the ledger as it is.
LEMMA QuietLedger ==
    ASSUME Ledger, NothingBooked
    PROVE  Ledger'
<1>1. Paid' = Paid /\ Charged' = Charged
  BY DEF NothingBooked, Paid, Charged
<1>2. \A j \in Jobs : PaidOf(j)' = PaidOf(j) /\ ChargedOf(j)' = ChargedOf(j)
  BY <1>1 DEF PaidOf, ChargedOf
<1> QED
  BY <1>1, <1>2 DEF NothingBooked, Ledger

\* A posting adds its run to the paid ones, takes it from them or neither, and
\* books the price accordingly.
LEMMA PostingLedger ==
    ASSUME TypeOK, Ledger, NEW i \in Items, NEW r \in Runs, Posting(i, r)
    PROVE  Ledger'
<1> DEFINE p == <<i, r>>
<1>1. /\ p \in Items \X Runs
      /\ Paid \in SUBSET (Items \X Runs)
      /\ \A j \in Jobs : /\ PaidOf(j) \in SUBSET (Items \X Runs)
                         /\ ChargedOf(j) \in SUBSET (Items \X Runs)
  BY DEF Paid, Charged, PaidOf, ChargedOf
<1>2. /\ account.credits \in Int
      /\ \A j \in Jobs : job[j].actual \in Int /\ job[j].settled \in Int
      /\ Price \in Int /\ InitialCredits \in Int
  BY BatchAssumption DEF TypeOK, AccountRow, JobRow
<1>3. /\ Price * Cardinality(Paid) \in Int
      /\ \A j \in Jobs : /\ Price * Cardinality(PaidOf(j)) \in Int
                         /\ Price * Cardinality(ChargedOf(j)) \in Int
  BY <1>1, <1>2, FinitePairs
<1>4. ASSUME NEW from, NEW to, Moved(i, r, from, to)
      PROVE  /\ Paid' = IF to \in {"running", "success"} THEN Paid \cup {p} ELSE Paid \ {p}
             /\ Charged' = IF to # "none" THEN Charged \cup {p} ELSE Charged \ {p}
             /\ p \in Paid <=> from \in {"running", "success"}
             /\ p \in Charged <=> from # "none"
  <2>1. /\ \A q \in Items \X Runs :
              task'[q[1]][q[2]] = IF q = p THEN to ELSE task[q[1]][q[2]]
        /\ task[i][r] = from
    BY <1>4, PostingPairs
  <2> QED
    BY <1>1, <2>1 DEF Paid, Charged
<1>5. \A j \in Jobs :
        /\ p \in PaidOf(j) <=> p \in Paid /\ j = JobOf[i]
        /\ p \in ChargedOf(j) <=> p \in Charged /\ j = JobOf[i]
        /\ Paid' = Paid \cup {p}
           => PaidOf(j)' = IF j = JobOf[i] THEN PaidOf(j) \cup {p} ELSE PaidOf(j)
        /\ Paid' = Paid \ {p}
           => PaidOf(j)' = IF j = JobOf[i] THEN PaidOf(j) \ {p} ELSE PaidOf(j)
        /\ Charged' = Charged \cup {p}
           => ChargedOf(j)' = IF j = JobOf[i] THEN ChargedOf(j) \cup {p} ELSE ChargedOf(j)
  BY DEF PaidOf, ChargedOf
<1> HIDE DEF p
<1>6. CASE Moved(i, r, "none", "running") /\ Booked(i, Price, Price)
  <2>1. /\ Paid' = Paid \cup {p} /\ p \notin Paid
        /\ Charged' = Charged \cup {p} /\ p \notin Charged
    BY <1>4, <1>6
  <2>2. account.credits' = InitialCredits - Price * Cardinality(Paid')
    BY <1>1, <1>2, <1>3, <1>6, <2>1, PricePair DEF Booked, Ledger
  <2>3. ASSUME NEW j \in Jobs
        PROVE  /\ job'[j].actual = Price * Cardinality(PaidOf(j)')
               /\ job'[j].settled = Price * Cardinality(ChargedOf(j)')
    BY <1>1, <1>2, <1>3, <1>5, <1>6, <2>1, PricePair DEF Booked, Ledger
  <2> QED
    BY <2>2, <2>3 DEF Ledger
<1>7. CASE Moved(i, r, "running", "failed") /\ Booked(i, 0, -Price)
  <2>1. /\ Paid' = Paid \ {p} /\ p \in Paid
        /\ Charged' = Charged \cup {p} /\ p \in Charged
    BY <1>4, <1>7
  <2>2. Charged' = Charged
    BY <2>1
  <2>3. account.credits' = InitialCredits - Price * Cardinality(Paid')
    BY <1>1, <1>2, <1>3, <1>7, <2>1, PricePair DEF Booked, Ledger
  <2>4. ASSUME NEW j \in Jobs
        PROVE  /\ job'[j].actual = Price * Cardinality(PaidOf(j)')
               /\ job'[j].settled = Price * Cardinality(ChargedOf(j)')
    <3>1. ChargedOf(j)' = ChargedOf(j)
      BY <2>2 DEF ChargedOf
    <3> QED
      BY <1>1, <1>2, <1>3, <1>5, <1>7, <2>1, <3>1, PricePair DEF Booked, Ledger
  <2> QED
    BY <2>3, <2>4 DEF Ledger
<1>8. CASE Moved(i, r, "running", "success") /\ Booked(i, 0, 0)
  <2>1. Paid' = Paid /\ Charged' = Charged
    BY <1>4, <1>8
  <2>2. \A j \in Jobs : PaidOf(j)' = PaidOf(j) /\ ChargedOf(j)' = ChargedOf(j)
    BY <2>1 DEF PaidOf, ChargedOf
  <2> QED
    BY <1>2, <1>8, <2>1, <2>2 DEF Booked, Ledger
<1>9. CASE Moved(i, r, "failed", "success") /\ Booked(i, 0, Price)
  <2>1. /\ Paid' = Paid \cup {p} /\ p \notin Paid /\ Charged' = Charged
    BY <1>4, <1>9
  <2>2. account.credits' = InitialCredits - Price * Cardinality(Paid')
    BY <1>1, <1>2, <1>3, <1>9, <2>1, PricePair DEF Booked, Ledger
  <2>3. ASSUME NEW j \in Jobs
        PROVE  /\ job'[j].actual = Price * Cardinality(PaidOf(j)')
               /\ job'[j].settled = Price * Cardinality(ChargedOf(j)')
    <3>1. ChargedOf(j)' = ChargedOf(j)
      BY <2>1 DEF ChargedOf
    <3> QED
      BY <1>1, <1>2, <1>3, <1>5, <1>9, <2>1, <3>1, PricePair DEF Booked, Ledger
  <2> QED
    BY <2>2, <2>3 DEF Ledger
<1> QED
  BY <1>6, <1>7, <1>8, <1>9 DEF Posting

\* Every credit that left the account is the price of one task that is running
\* or succeeded, and the job of the task books it: in every reachable state, with
\* any number of workers, with crashes, paused workers and late deliveries.
THEOREM LedgerHolds == Spec => []Ledger
<1>1. TypeOK /\ Ledger /\ [Next]_vars => Ledger'
  BY NextBooks, QuietLedger, PostingLedger
<1> QED
  BY <1>1, InitLedger, TypeCorrect, PTL DEF Spec

\* A success is never refunded, and a refunded task only succeeds by a late
\* delivery: two workers that settle one run do not undo each other.
THEOREM SettledForeverHolds == Spec => SettledForever
<1>1. TypeOK /\ [Next]_vars => [SettledStep]_vars
  <2> SUFFICES ASSUME TypeOK, [Next]_vars, NEW k \in Items, NEW q \in Runs
               PROVE  /\ task[k][q] = "success" => task'[k][q] = "success"
                      /\ task[k][q] = "failed" => task'[k][q] \in {"failed", "success"}
    BY DEF SettledStep
  <2>1. CASE NothingBooked
    BY <2>1 DEF NothingBooked
  <2>2. ASSUME NEW i \in Items, NEW r \in Runs, Posting(i, r)
        PROVE  /\ task[k][q] = "success" => task'[k][q] = "success"
               /\ task[k][q] = "failed" => task'[k][q] \in {"failed", "success"}
    BY <2>2 DEF Posting, Moved, TypeOK
  <2> QED
    BY <2>1, <2>2, NextBooks
<1> QED
  BY <1>1, TypeCorrect, PTL DEF Spec, SettledForever

-----------------------------------------------------------------------------
(***************************************************************************)
(* Cancelled jobs.                                                         *)
(***************************************************************************)

\* An aggregation keeps cancelled jobs quiet if the transaction it ends changed
\* the status of none of their items.
LEMMA AggregateQuiet ==
    ASSUME TypeOK, NEW k \in Jobs,
           NEW jobs \in [Jobs -> JobRow], NEW rows \in [Items -> BudgetedRow],
           NEW funds \in AccountRow, Aggregate({k}, jobs, rows, funds),
           \A j \in Jobs : /\ jobs[j].settled = job[j].settled
                           /\ job[j].status = "cancelled" => jobs[j].status = "cancelled",
           \A i \in Items : job[JobOf[i]].status = "cancelled"
                            => rows[i].status = item[i].status
    PROVE  CancelledStep
<1>1. /\ item' = rows
      /\ \A j \in Jobs : /\ job'[j].settled = jobs[j].settled
                         /\ jobs[j].status = "cancelled" => job'[j].status = "cancelled"
  BY AggregateOne
<1> QED
  BY <1>1 DEF CancelledStep, ItemsOf

\* So do steps that change no status and no settled credits.
LEMMA UnchangedQuiet ==
    ASSUME job' = job, \A i \in Items : item'[i].status = item[i].status
    PROVE  CancelledStep
  BY DEF CancelledStep, ItemsOf

\* The renewal of a lease changes no status.
LEMMA RenewStatus ==
    ASSUME TypeOK, NEW w \in Workers, Renew(w)
    PROVE  \A i \in Items : item'[i].status = item[i].status
<1>1. \A i \in Items : item[i] \in ItemRow
  BY DEF TypeOK, BudgetedRow
<1>2. \A i \in Items : item'[i] \in {item[i], [item[i] EXCEPT !.live = TRUE]}
  BY DEF Renew, TypeOK
<1> QED
  BY <1>1, <1>2 DEF ItemRow

\* Members reopen no cancelled job.
LEMMA MembersQuiet ==
    ASSUME TypeOK, Members
    PROVE  CancelledStep
<1>1. ASSUME NEW j \in Jobs, Create(j)
      PROVE  CancelledStep
  <2>1. \A k \in Jobs : job[k].status = "cancelled" => k # j /\ job'[k] = job[k]
    BY <1>1 DEF Create, TypeOK
  <2>2. \A i \in Items : JobOf[i] # j => item'[i] = item[i]
    BY <1>1 DEF Create, ItemsOf
  <2> QED
    BY <2>1, <2>2 DEF CancelledStep, ItemsOf
<1>2. ASSUME NEW j \in Jobs, Cancel(j)
      PROVE  CancelledStep
  <2> DEFINE jobs == [job EXCEPT ![j].status = "cancelled"]
             rows == [i \in Items |-> IF i \in ItemsOf(j) THEN Cancelled(item[i]) ELSE item[i]]
  <2>1. /\ jobs \in [Jobs -> JobRow]
        /\ \A k \in Jobs : /\ jobs[k].settled = job[k].settled
                           /\ job[k].status = "cancelled" => jobs[k].status = "cancelled"
    BY DEF TypeOK, JobRow, JobStatus
  <2>2. rows \in [Items -> BudgetedRow]
    BY ClosedBudgeted DEF TypeOK
  <2>3. job[j].status = "active" /\ Aggregate({j}, jobs, rows, account)
    BY <1>2 DEF Cancel
  <2>4. \A i \in Items : JobOf[i] # j => rows[i] = item[i]
    BY DEF ItemsOf
  <2> HIDE DEF jobs, rows
  <2> QED
    BY <2>1, <2>2, <2>3, <2>4, AggregateQuiet DEF TypeOK
<1>3. ASSUME NEW j \in Jobs, RetryJob(j)
      PROVE  CancelledStep
  <2> DEFINE failed == {i \in ItemsOf(j) : item[i].status = "failed"}
             hold == Price * Cardinality(failed)
             rows == [i \in Items |-> IF i \in failed THEN Rerun(item[i]) ELSE item[i]]
  <2>1. hold \in Int
    BY HoldType DEF ItemsOf
  <2>2. rows \in [Items -> BudgetedRow]
    BY <1>3, RerunBudgeted DEF TypeOK, RetryJob
  <2>3. /\ job[j].status \in {"failed", "partial_success"}
        /\ Aggregate({j}, Reserved(j, hold), rows, Holding(hold))
    BY <1>3 DEF RetryJob
  <2>4. \A i \in Items : JobOf[i] # j => rows[i] = item[i]
    BY DEF ItemsOf
  <2> HIDE DEF hold, rows
  <2> QED
    BY <2>1, <2>2, <2>3, <2>4, ReservedType, AggregateQuiet
<1>4. ASSUME NEW i \in Items, RetryItem(i)
      PROVE  CancelledStep
  <2> DEFINE j == JobOf[i]
             rows == [item EXCEPT ![i] = Rerun(item[i])]
  <2>1. j \in Jobs /\ Price \in Int
    BY BatchAssumption
  <2>2. rows \in [Items -> BudgetedRow]
    BY <1>4, RerunBudgeted DEF TypeOK, RetryItem
  <2>3. /\ job[j].status # "cancelled"
        /\ Aggregate({j}, Reserved(j, Price), rows, Holding(Price))
    BY <1>4 DEF RetryItem
  <2>4. \A k \in Items : JobOf[k] # j => rows[k] = item[k]
    BY DEF TypeOK
  <2> HIDE DEF j, rows
  <2> QED
    BY <2>1, <2>2, <2>3, <2>4, ReservedType, AggregateQuiet, SMTT(20)
<1>5. ASSUME NEW i \in Items, NEW v \in {"approved", "rejected"}, ReviewItem(i, v)
      PROVE  CancelledStep
  <2> DEFINE rows == [item EXCEPT ![i] = Reviewed(item[i], v)]
  <2>1. rows \in [Items -> BudgetedRow]
    BY MarkedBudgeted DEF TypeOK, Review
  <2>2. Aggregate({JobOf[i]}, job, rows, account)
    BY <1>5 DEF ReviewItem
  <2>3. \A k \in Items : rows[k].status = item[k].status
    BY DEF Reviewed, TypeOK, BudgetedRow, ItemRow
  <2> HIDE DEF rows
  <2> QED
    BY <2>1, <2>2, <2>3, JobOfType, AggregateQuiet DEF TypeOK
<1>6. ASSUME NEW i \in Items, SetPrimary(i)
      PROVE  CancelledStep
  <2>1. \A k \in Items : item'[k].status = item[k].status
    BY <1>6 DEF SetPrimary, TypeOK, BudgetedRow, ItemRow
  <2> QED
    BY <1>6, <2>1, UnchangedQuiet DEF SetPrimary
<1> QED
  BY <1>1, <1>2, <1>3, <1>4, <1>5, <1>6 DEF Members

\* Claims, outcomes and charges need a job that is not cancelled.
LEMMA WorkQuiet ==
    ASSUME TypeOK, NEW w \in Workers,
           Work(w) \/ Heartbeat(w) \/ Crash(w) \/ \E i \in Items : Claim(w, i)
    PROVE  CancelledStep
<1> DEFINE i == worker[w].item
           j == JobOf[i]
<1>1. worker[w].step # "idle" => i \in Items /\ j \in Jobs
  BY JobOfType DEF TypeOK, BusyState
<1>2. CASE Start(w) \/ Verify(w) \/ FenceFailure(w) \/ Heartbeat(w)
  <2>1. job' = job /\ (Renew(w) \/ UNCHANGED item)
    BY <1>2 DEF Start, Verify, FenceFailure, Heartbeat, Fenced, Abandon
  <2> QED
    BY <2>1, RenewStatus, UnchangedQuiet
<1>3. CASE Lookup(w) \/ Upstream(w) \/ Deliver(w) \/ Settle(w) \/ Crash(w)
  BY <1>3, UnchangedQuiet DEF Lookup, Upstream, Deliver, Settle, Crash
<1>4. CASE Begin(w)
  <2>1. CASE Charge(w)
    <3>1. item' = item /\ \A k \in Jobs : job[k].status = "cancelled" => job'[k] = job[k]
      BY <2>1 DEF Charge, Chargeable, ClosedToCharges, TypeOK
    <3> QED
      BY <3>1 DEF CancelledStep, ItemsOf
  <2>2. CASE UNCHANGED <<account, job, item, task>>
    BY <2>2, UnchangedQuiet
  <2> QED
    BY <1>4, <2>1, <2>2 DEF Begin
<1>5. CASE Refund(w)
  <2>1. item' = item
    BY <1>5 DEF Refund
  <2>2. \A k \in Jobs : job'[k].status = job[k].status /\ job'[k].settled = job[k].settled
    <3>1. CASE job' = job
      BY <3>1
    <3>2. CASE job' = [job EXCEPT ![j].actual = @ - Price]
      <4>1. \A k \in Jobs : job'[k] \in {job[k], [job[k] EXCEPT !.actual = @ - Price]}
        BY <3>2 DEF TypeOK
      <4>2. \A k \in Jobs : job[k] \in JobRow
        BY DEF TypeOK
      <4> QED
        BY <4>1, <4>2 DEF JobRow
    <3> QED
      BY <1>5, <3>1, <3>2 DEF Refund
  <2> QED
    BY <2>1, <2>2 DEF CancelledStep, ItemsOf
<1>6. ASSUME NEW k \in Items, Claim(w, k) PROVE CancelledStep
  <2> DEFINE rows == [item EXCEPT ![k] = Claimed(item[k], w)]
  <2>1. rows \in [Items -> BudgetedRow]
    BY <1>6, ClaimedBudgeted DEF Claim, Claimable, TypeOK
  <2>2. job[JobOf[k]].status = "active" /\ Aggregate({JobOf[k]}, job, rows, account)
    BY <1>6 DEF Claim, Claimable
  <2>3. \A m \in Items : m # k => rows[m] = item[m]
    BY DEF TypeOK
  <2> HIDE DEF rows
  <2> QED
    BY <2>1, <2>2, <2>3, JobOfType, AggregateQuiet DEF TypeOK
<1>7. CASE Finish(w)
  <2> DEFINE again == /\ worker[w].retry /\ AttemptsLeft(i)
                      /\ worker[w].charged => Spendable >= Price
             hold == IF again THEN RetryHold(w) ELSE 0
             rows == [item EXCEPT ![i] = IF again THEN Requeued(item[i])
                                         ELSE Returned(item[i], "failed")]
  <2>1. i \in Items /\ j \in Jobs
    BY <1>1, <1>7 DEF Finish, At
  <2>2. CASE UNCHANGED <<account, job, item>>
    BY <2>2, UnchangedQuiet
  <2>3. CASE /\ job[j].status = "active" /\ Held(w)
             /\ Aggregate({j}, Reserved(j, hold), rows, Holding(hold))
    <3>1. hold \in Int
      BY BatchAssumption DEF RetryHold
    <3>2. rows \in [Items -> BudgetedRow]
      <4>1. again => item[i].status = "running" /\ item[i].attempts < MaxAttempts
        BY <2>3 DEF Held, AttemptsLeft
      <4> QED
        BY <2>1, <4>1, ClosedBudgeted, RequeuedBudgeted DEF TypeOK
    <3>3. \A m \in Items : JobOf[m] # j => rows[m] = item[m]
      BY DEF TypeOK
    <3> HIDE DEF hold, rows, j
    <3> QED
      BY <2>1, <2>3, <3>1, <3>2, <3>3, ReservedType, AggregateQuiet
  <2> QED
    BY <1>7, <2>2, <2>3 DEF Finish
<1>8. CASE Complete(w)
  <2> DEFINE rows == [item EXCEPT ![i] = Delivered(item[i])]
  <2>1. i \in Items /\ j \in Jobs
    BY <1>1, <1>8 DEF Complete, At
  <2>2. CASE UNCHANGED <<account, job, item>>
    BY <2>2, UnchangedQuiet
  <2>3. CASE job[j].status = "active" /\ Aggregate({j}, job, rows, account)
    <3>1. rows \in [Items -> BudgetedRow]
      BY <2>1, ClosedBudgeted DEF TypeOK
    <3>2. \A m \in Items : JobOf[m] # j => rows[m] = item[m]
      BY DEF TypeOK
    <3> HIDE DEF rows, j
    <3> QED
      BY <2>1, <2>3, <3>1, <3>2, AggregateQuiet DEF TypeOK
  <2> QED
    BY <1>8, <2>2, <2>3 DEF Complete
<1> QED
  BY <1>2, <1>3, <1>4, <1>5, <1>6, <1>7, <1>8 DEF Work

\* No step disturbs a cancelled job.
LEMMA NextQuiet ==
    ASSUME TypeOK, Next
    PROVE  CancelledStep
<1>1. CASE Members
  BY <1>1, MembersQuiet
<1>2. CASE FailExhausted
  <2>1. /\ Expired \in [Items -> BudgetedRow]
        /\ Aggregate({JobOf[k] : k \in Exhausted}, job, Expired, account)
    BY <1>2, ClosedBudgeted DEF Expired, TypeOK, FailExhausted
  <2>2. /\ item' = Expired
        /\ \A j \in Jobs : /\ job'[j].settled = job[j].settled
                           /\ job[j].status = "cancelled" => job'[j].status = "cancelled"
    BY <2>1, ExhaustedJobs, AggregateType DEF TypeOK
  <2>3. \A i \in Items : job[JobOf[i]].status = "cancelled" => Expired[i] = item[i]
    BY DEF Expired, Exhausted
  <2> QED
    BY <2>2, <2>3 DEF CancelledStep, ItemsOf
<1>3. CASE \E w \in Workers : Work(w) \/ Heartbeat(w) \/ Crash(w) \/ \E i \in Items : Claim(w, i)
  BY <1>3, WorkQuiet
<1>4. ASSUME NEW i \in Items, LeaseExpires(i)
      PROVE  CancelledStep
  <2>1. \A k \in Items : item'[k].status = item[k].status
    BY <1>4 DEF LeaseExpires, TypeOK, BudgetedRow, ItemRow
  <2> QED
    BY <1>4, <2>1, UnchangedQuiet DEF LeaseExpires
<1>5. ASSUME NEW i \in Items, Reconcile(i)
      PROVE  CancelledStep
  BY <1>5, UnchangedQuiet DEF Reconcile
<1>6. ASSUME NEW i \in Items, NEW r \in Runs, DeliverLate(i, r)
      PROVE  CancelledStep
  <2>1. item' = item
    BY <1>6 DEF DeliverLate
  <2>2. \A k \in Jobs : job'[k].status = job[k].status /\ job'[k].settled = job[k].settled
    BY <1>6 DEF DeliverLate, TypeOK, JobRow
  <2> QED
    BY <2>1, <2>2 DEF CancelledStep, ItemsOf
<1> QED
  BY <1>1, <1>2, <1>3, <1>4, <1>5, <1>6 DEF Next

\* After a cancellation the status and the settled credits of the job and the
\* status of its items never change again, although its workers may still hold
\* claims, refund and settle.
THEOREM CancelledQuietHolds == Spec => CancelledQuiet
<1>1. TypeOK /\ [Next]_vars => [CancelledStep]_vars
  BY NextQuiet
<1> QED
  BY <1>1, TypeCorrect, PTL DEF Spec, CancelledQuiet

-----------------------------------------------------------------------------
(***************************************************************************)
(* Primary images.                                                         *)
(***************************************************************************)

\* A row gains no mark, and keeps its own as an approved result only.
KeptMark(row, new) ==
    new.primary => row.primary /\ new.status = "completed" /\ new.review = "approved"
KeepsPrimary == \A i \in Items : KeptMark(item[i], item'[i])

\* Only approved results are marked.
MarkedApproved(row) == row.primary => row.status = "completed" /\ row.review = "approved"

\* A step that gives no mark keeps the marks unique.
LEMMA KeptUnique == PrimaryUnique /\ KeepsPrimary => PrimaryUnique'
  BY DEF PrimaryUnique, KeepsPrimary, KeptMark

\* What the requests of the members write on a row gives it no mark.
LEMMA MemberMark ==
    ASSUME NEW row \in ItemRow, MarkedApproved(row)
    PROVE  /\ KeptMark(row, row)
           /\ KeptMark(row, Created)
           /\ KeptMark(row, Cancelled(row))
           /\ KeptMark(row, Rerun(row))
           /\ \A v \in {"approved", "rejected"} : KeptMark(row, Reviewed(row, v))
<1>1. KeptMark(row, row) /\ KeptMark(row, Created)
  BY DEF KeptMark, MarkedApproved, Created
<1>2. KeptMark(row, Cancelled(row))
  BY DEF KeptMark, MarkedApproved, Cancelled
<1>3. ~Rerun(row).primary
  BY DEF Rerun, ItemRow
<1>4. KeptMark(row, Reviewed(row, "approved"))
  BY DEF KeptMark, MarkedApproved, Reviewed, ItemRow
<1>5. ~Reviewed(row, "rejected").primary
  BY DEF Reviewed, ItemRow
<1> QED
  BY <1>1, <1>2, <1>3, <1>4, <1>5 DEF KeptMark

\* Nor what the workers and the clock write.
LEMMA WorkMark ==
    ASSUME NEW row \in ItemRow, MarkedApproved(row)
    PROVE  /\ \A w \in Workers : KeptMark(row, Claimed(row, w))
           /\ \A flag \in BOOLEAN : KeptMark(row, [row EXCEPT !.live = flag])
           /\ row.status = "running" => /\ KeptMark(row, Delivered(row))
                                        /\ KeptMark(row, Requeued(row))
                                        /\ KeptMark(row, Returned(row, "failed"))
                                        /\ KeptMark(row, TimedOut(row))
<1>1. \A w \in Workers : ~Claimed(row, w).primary
  BY DEF Claimed, ItemRow
<1>2. \A flag \in BOOLEAN : KeptMark(row, [row EXCEPT !.live = flag])
  BY DEF KeptMark, MarkedApproved, ItemRow
<1>3. /\ Delivered(row).primary = row.primary
      /\ Requeued(row).primary = row.primary
      /\ Returned(row, "failed").primary = row.primary
      /\ TimedOut(row).primary = row.primary
  BY DEF Delivered, Requeued, Returned, TimedOut, ItemRow
<1>4. row.status = "running" => row.primary = FALSE
  BY DEF MarkedApproved, ItemRow
<1> QED
  BY <1>1, <1>2, <1>3, <1>4 DEF KeptMark

\* The rows of a state with unique marks.
LEMMA UniqueRows ==
    ASSUME TypeOK, PrimaryUnique, NEW i \in Items
    PROVE  item[i] \in ItemRow /\ MarkedApproved(item[i]) /\ KeptMark(item[i], item[i])
<1>1. item[i] \in ItemRow /\ MarkedApproved(item[i])
  BY DEF TypeOK, BudgetedRow, PrimaryUnique, MarkedApproved
<1> QED
  BY <1>1, MemberMark

\* The requests of the members keep the marks unique.
LEMMA MembersPrimary ==
    ASSUME TypeOK, PrimaryUnique, Members
    PROVE  PrimaryUnique'
<1>1. ASSUME NEW i \in Items, SetPrimary(i)
      PROVE  PrimaryUnique'
  <2>1. \A k \in Items :
           item'[k].primary => k = i \/ (item[k].primary /\ ScopeOf[k] # ScopeOf[i])
    BY <1>1, UniqueRows DEF SetPrimary, SameScope, ItemRow
  <2>2. \A k \in Items : item'[k].status = item[k].status /\ item'[k].review = item[k].review
    BY <1>1, UniqueRows DEF SetPrimary, ItemRow
  <2> QED
    BY <1>1, <2>1, <2>2 DEF SetPrimary, PrimaryUnique
<1>2. ASSUME NEW j \in Jobs, Create(j)
      PROVE  KeepsPrimary
  BY <1>2, UniqueRows, MemberMark DEF Create, KeepsPrimary
<1>3. ASSUME NEW j \in Jobs, Cancel(j)
      PROVE  KeepsPrimary
  BY <1>3, UniqueRows, MemberMark DEF Cancel, Aggregate, KeepsPrimary
<1>4. ASSUME NEW j \in Jobs, RetryJob(j)
      PROVE  KeepsPrimary
  BY <1>4, UniqueRows, MemberMark DEF RetryJob, Aggregate, KeepsPrimary
<1>5. ASSUME NEW i \in Items, RetryItem(i)
      PROVE  KeepsPrimary
  <2>1. item' = [item EXCEPT ![i] = Rerun(item[i])]
    BY <1>5 DEF RetryItem, Aggregate
  <2> QED
    BY <2>1, UniqueRows, MemberMark DEF TypeOK, KeepsPrimary
<1>6. ASSUME NEW i \in Items, NEW v \in {"approved", "rejected"}, ReviewItem(i, v)
      PROVE  KeepsPrimary
  <2>1. item' = [item EXCEPT ![i] = Reviewed(item[i], v)]
    BY <1>6 DEF ReviewItem, Aggregate
  <2> QED
    BY <2>1, UniqueRows, MemberMark DEF TypeOK, KeepsPrimary
<1> QED
  BY <1>1, <1>2, <1>3, <1>4, <1>5, <1>6, KeptUnique DEF Members

\* The steps of the workers give no mark.
LEMMA WorkPrimary ==
    ASSUME TypeOK, PrimaryUnique, NEW w \in Workers,
           Work(w) \/ Heartbeat(w) \/ Crash(w) \/ \E i \in Items : Claim(w, i)
    PROVE  KeepsPrimary
<1> DEFINE i == worker[w].item
<1>1. worker[w].step # "idle" => i \in Items
  BY DEF TypeOK, BusyState
<1>2. CASE UNCHANGED item
  BY <1>2, UniqueRows DEF KeepsPrimary
<1>3. CASE Start(w) \/ Verify(w) \/ FenceFailure(w) \/ Heartbeat(w)
  <2>1. Renew(w) \/ UNCHANGED item
    BY <1>3 DEF Start, Verify, FenceFailure, Heartbeat, Fenced, Abandon
  <2>2. CASE Renew(w)
    <3>1. \A k \in Items : item'[k] \in {item[k], [item[k] EXCEPT !.live = TRUE]}
      BY <2>2 DEF Renew, TypeOK
    <3> QED
      BY <3>1, UniqueRows, WorkMark DEF KeepsPrimary
  <2> QED
    BY <1>2, <2>1, <2>2
<1>4. CASE Lookup(w) \/ Begin(w) \/ Upstream(w) \/ Deliver(w) \/ Settle(w) \/ Refund(w) \/ Crash(w)
  <2>1. UNCHANGED item
    BY <1>4 DEF Lookup, Begin, Charge, Upstream, Deliver, Settle, Refund, Crash
  <2> QED
    BY <1>2, <2>1
<1>5. ASSUME NEW k \in Items, Claim(w, k) PROVE KeepsPrimary
  <2>1. item' = [item EXCEPT ![k] = Claimed(item[k], w)]
    BY <1>5 DEF Claim, Aggregate
  <2> QED
    BY <2>1, UniqueRows, WorkMark DEF TypeOK, KeepsPrimary
<1>6. CASE Finish(w)
  <2>1. \/ UNCHANGED item
        \/ /\ item[i].status = "running"
           /\ \E new \in {Requeued(item[i]), Returned(item[i], "failed")} :
                item' = [item EXCEPT ![i] = new]
    BY <1>6 DEF Finish, Aggregate, Held
  <2>2. i \in Items
    BY <1>1, <1>6 DEF Finish, At
  <2> QED
    BY <1>2, <2>1, <2>2, UniqueRows, WorkMark DEF TypeOK, KeepsPrimary
<1>7. CASE Complete(w)
  <2>1. \/ UNCHANGED item
        \/ item[i].status = "running" /\ item' = [item EXCEPT ![i] = Delivered(item[i])]
    BY <1>7 DEF Complete, Aggregate, Held
  <2>2. i \in Items
    BY <1>1, <1>7 DEF Complete, At
  <2> QED
    BY <1>2, <2>1, <2>2, UniqueRows, WorkMark DEF TypeOK, KeepsPrimary
<1> QED
  BY <1>3, <1>4, <1>5, <1>6, <1>7 DEF Work

\* In every reachable state a product and SKU show at most one primary image over
\* all jobs, and it is a completed, approved result: no rejection, retry or
\* repeated claim leaves the mark on a row that shows nothing.
THEOREM PrimaryUniqueHolds == Spec => []PrimaryUnique
<1>1. Init => PrimaryUnique
  <2> SUFFICES ASSUME Init PROVE PrimaryUnique
    OBVIOUS
  <2>1. \A i \in Items : item[i].primary = FALSE
    BY DEF Init, Created
  <2> QED
    BY <2>1 DEF PrimaryUnique
<1>2. TypeOK /\ PrimaryUnique /\ [Next]_vars => PrimaryUnique'
  <2> SUFFICES ASSUME TypeOK, PrimaryUnique, [Next]_vars PROVE PrimaryUnique'
    OBVIOUS
  <2>1. CASE Members
    BY <2>1, MembersPrimary
  <2>2. CASE FailExhausted
    <3>1. item' = Expired
      BY <2>2 DEF FailExhausted, Aggregate
    <3> QED
      BY <3>1, UniqueRows, WorkMark, KeptUnique DEF Expired, Exhausted, KeepsPrimary
  <2>3. CASE \E w \in Workers : Work(w) \/ Heartbeat(w) \/ Crash(w) \/ \E i \in Items : Claim(w, i)
    BY <2>3, WorkPrimary, KeptUnique
  <2>4. ASSUME NEW i \in Items, LeaseExpires(i)
        PROVE  PrimaryUnique'
    <3>1. \A k \in Items : item'[k] \in {item[k], [item[k] EXCEPT !.live = FALSE]}
      BY <2>4 DEF LeaseExpires, TypeOK
    <3> QED
      BY <3>1, UniqueRows, WorkMark, KeptUnique DEF KeepsPrimary
  <2>5. ASSUME NEW i \in Items, NEW r \in Runs, DeliverLate(i, r)
        PROVE  PrimaryUnique'
    BY <2>5 DEF DeliverLate, PrimaryUnique
  <2>6. ASSUME NEW i \in Items, Reconcile(i)
        PROVE  PrimaryUnique'
    BY <2>6 DEF Reconcile, PrimaryUnique
  <2>7. CASE UNCHANGED vars
    BY <2>7 DEF vars, PrimaryUnique
  <2> QED
    BY <2>1, <2>2, <2>3, <2>4, <2>5, <2>6, <2>7 DEF Next
<1> QED
  BY <1>1, <1>2, TypeCorrect, PTL DEF Spec

-----------------------------------------------------------------------------
(***************************************************************************)
(* The account and the holds of its jobs.                                  *)
(***************************************************************************)

\* The holds of some rows of jobs, together.
Kept(jobs) == Net(Jobs, [j \in Jobs |-> Outstanding(jobs[j])])

\* A job that was not created yet holds nothing.
NothingHeld(row) == row.reserved = 0 /\ row.settled = 0 /\ row.released = 0
NotCreated(jobs) == \A j \in Jobs : jobs[j].status = "absent" => NothingHeld(jobs[j])

LEMMA JobsFinite == IsFiniteSet(Jobs)
  BY BatchAssumption

\* Rows of the same jobs with the same holds keep the same.
LEMMA KeptSame ==
    ASSUME NEW one, NEW two, \A j \in Jobs : Outstanding(two[j]) = Outstanding(one[j])
    PROVE  Kept(two) = Kept(one)
<1>1. [j \in Jobs |-> Outstanding(two[j])] = [j \in Jobs |-> Outstanding(one[j])]
  OBVIOUS
<1> QED
  BY <1>1 DEF Kept

\* A change of one hold is a change of their sum.
LEMMA KeptChange ==
    ASSUME NEW one \in [Jobs -> JobRow], NEW two \in [Jobs -> JobRow], NEW j \in Jobs, NEW n \in Int,
           Outstanding(two[j]) = Outstanding(one[j]) + n,
           \A k \in Jobs : k # j => two[k] = one[k]
    PROVE  Kept(two) = Kept(one) + n /\ Kept(one) \in Int
<1> DEFINE f == [k \in Jobs |-> Outstanding(one[k])]
           g == [k \in Jobs |-> Outstanding(two[k])]
<1>1. \A k \in Jobs : f[k] \in Int /\ g[k] \in Int
  BY DEF Outstanding, JobRow
<1>2. (\A k \in Jobs \ {j} : g[k] = f[k]) /\ g[j] = f[j] + n
  OBVIOUS
<1>3. Kept(one) = Net(Jobs, f) /\ Kept(two) = Net(Jobs, g)
  BY DEF Kept
<1> HIDE DEF f, g
<1>4. Net(Jobs, g) = Net(Jobs, f) + g[j] - f[j]
  BY <1>1, <1>2, JobsFinite, NetChange
<1>5. Net(Jobs, f) \in Int
  BY <1>1, JobsFinite, NetType
<1> QED
  BY <1>1, <1>2, <1>3, <1>4, <1>5

\* What an aggregation gives back to the account, its jobs give up.
LEMMA AggregateHolds ==
    ASSUME NEW js \in SUBSET Jobs,
           NEW jobs \in [Jobs -> JobRow], NEW rows \in [Items -> BudgetedRow],
           NEW funds \in AccountRow, Aggregate(js, jobs, rows, funds),
           funds.reserved = Kept(jobs), NotCreated(jobs)
    PROVE  HoldsAddUp' /\ NotCreated(job)'
<1> DEFINE f == [j \in Jobs |-> Outstanding(jobs[j])]
           g == [j \in Jobs |-> Outstanding(job'[j])]
           d == [j \in js |-> Release(j, jobs[j], rows)]
           Z == {j \in js : RollupOf(j, jobs[j], rows) # "active"}
           N == js \ Z
<1>1. IsFiniteSet(js) /\ IsFiniteSet(Z) /\ IsFiniteSet(N) /\ Z \cap N = {} /\ Z \cup N = js
  BY JobsFinite, FS_Subset
<1>2. \A j \in Jobs : jobs[j] \in JobRow /\ f[j] = Outstanding(jobs[j]) /\ f[j] \in Int
  BY DEF Outstanding, JobRow
<1>3. \A j \in js : d[j] = IF j \in Z THEN f[j] ELSE 0
  BY DEF Release
<1>4. \A j \in js : d[j] >= 0
  BY DEF Aggregate, CanAggregate
<1>5. \A j \in Jobs : g[j] = IF j \in Z THEN 0 ELSE f[j]
  <2> SUFFICES ASSUME NEW j \in Jobs
               PROVE  Outstanding(job'[j]) = IF j \in Z THEN 0 ELSE f[j]
    OBVIOUS
  <2>1. CASE j \notin js
    BY <2>1 DEF Aggregate
  <2>2. CASE j \in js
    <3> DEFINE status == RollupOf(j, jobs[j], rows)
               back == Release(j, jobs[j], rows)
    <3>1. job'[j] = [jobs[j] EXCEPT !.status = status, !.released = jobs[j].released + back]
      BY <2>2, <1>2 DEF Aggregate
    <3>2. back = IF j \in Z THEN f[j] ELSE 0
      BY <1>3, <2>2
    <3> HIDE DEF status, back
    <3>3. back \in Int
      BY <1>2, <3>2
    <3>4. Outstanding(job'[j]) = Outstanding(jobs[j]) - back
      BY <1>2, <3>1, <3>3 DEF Outstanding, JobRow
    <3> HIDE DEF Z, f
    <3> QED
      BY <1>2, <3>2, <3>4
  <2> QED
    BY <2>1, <2>2
<1>6. Kept(jobs) = Net(Jobs, f) /\ Kept(job') = Net(Jobs, g) /\ Released(js, jobs, rows) = Total(js, d)
  BY DEF Kept, Released
<1>7. HoldsAddUp' <=> account'.reserved = Kept(job')
  BY DEF HoldsAddUp, Kept
<1>8. account'.reserved = funds.reserved - Released(js, jobs, rows)
  BY DEF Aggregate, AccountRow
<1>9. Z \in SUBSET Jobs /\ N \in SUBSET Jobs
  OBVIOUS
<1>10. NotCreated(job)'
  <2> SUFFICES ASSUME NEW j \in Jobs, job'[j].status = "absent"
               PROVE  NothingHeld(job'[j])
    BY DEF NotCreated
  <2>1. j \notin js
    BY <1>2, RollupType DEF Aggregate, RollupOf, JobRow
  <2> QED
    BY <2>1 DEF Aggregate, NotCreated
<1> HIDE DEF f, g, d, Z, N
<1>11. \A j \in Z : f[j] \in Int /\ f[j] >= 0 /\ d[j] = f[j] /\ g[j] = 0
  BY <1>1, <1>2, <1>3, <1>4, <1>5, <1>9
<1>12. \A j \in N : d[j] \in Int /\ d[j] <= 0
  BY <1>1, <1>3
<1>13. Net(Jobs, g) = Net(Jobs, f) - Total(Z, f)
  BY <1>2, <1>5, <1>9, <1>11, JobsFinite, NetEmptied
<1>14. Total(Z, d) = Total(Z, f)
  BY <1>11, TotalSame
<1>15. Total(N, d) = 0
  BY <1>12, TotalNone
<1>16. Total(Z \cup N, d) = Total(Z, d) + Total(N, d)
  BY <1>1, <1>11, <1>12, TotalSplit
<1>17. Total(Z, f) \in Nat
  BY <1>1, <1>11, TotalType
<1>18. Total(js, d) = Total(Z, f)
  BY <1>1, <1>14, <1>15, <1>16, <1>17
<1> QED
  BY <1>6, <1>7, <1>8, <1>10, <1>13, <1>18

\* A reservation is on the account and on its job.
LEMMA ReservedHolds ==
    ASSUME TypeOK, HoldsAddUp, NotCreated(job), NEW j \in Jobs, job[j].status # "absent",
           NEW hold \in Int, NEW rows \in [Items -> BudgetedRow],
           Aggregate({j}, Reserved(j, hold), rows, Holding(hold))
    PROVE  HoldsAddUp' /\ NotCreated(job)'
<1> DEFINE jobs == Reserved(j, hold)
           funds == Holding(hold)
<1>1. jobs \in [Jobs -> JobRow] /\ funds \in AccountRow
  BY ReservedType
<1>2. funds.reserved = account.reserved + hold
  BY DEF Holding, TypeOK, AccountRow
<1>3. /\ Outstanding(jobs[j]) = Outstanding(job[j]) + hold
      /\ jobs[j].status = job[j].status
      /\ \A k \in Jobs : k # j => jobs[k] = job[k]
  BY DEF Reserved, Outstanding, TypeOK, JobRow
<1>4. Aggregate({j}, jobs, rows, funds) /\ job \in [Jobs -> JobRow] /\ account.reserved = Kept(job)
  BY DEF TypeOK, HoldsAddUp, Kept
<1> HIDE DEF jobs, funds
<1>5. Kept(jobs) = Kept(job) + hold
  BY <1>1, <1>3, <1>4, KeptChange
<1>6. NotCreated(jobs)
  BY <1>3 DEF NotCreated
<1> QED
  BY <1>1, <1>2, <1>4, <1>5, <1>6, AggregateHolds

\* An aggregation without a reservation.
LEMMA PlainHolds ==
    ASSUME TypeOK, HoldsAddUp, NotCreated(job), NEW js \in SUBSET Jobs,
           NEW rows \in [Items -> BudgetedRow], Aggregate(js, job, rows, account)
    PROVE  HoldsAddUp' /\ NotCreated(job)'
<1>1. job \in [Jobs -> JobRow] /\ account \in AccountRow /\ account.reserved = Kept(job)
  BY DEF TypeOK, HoldsAddUp, Kept
<1> QED
  BY <1>1, AggregateHolds

\* A step that leaves every hold and the reserve of the account alone.
LEMMA SameHolds ==
    ASSUME HoldsAddUp, NotCreated(job), account'.reserved = account.reserved,
           \A j \in Jobs : /\ job'[j].status = job[j].status
                           /\ job'[j].reserved = job[j].reserved
                           /\ job'[j].settled = job[j].settled
                           /\ job'[j].released = job[j].released
    PROVE  HoldsAddUp' /\ NotCreated(job)'
<1>1. \A j \in Jobs : Outstanding(job'[j]) = Outstanding(job[j])
  BY DEF Outstanding
<1>2. Kept(job') = Kept(job)
  BY <1>1, KeptSame
<1>3. HoldsAddUp' <=> account'.reserved = Kept(job')
  BY DEF HoldsAddUp, Kept
<1>4. account.reserved = Kept(job)
  BY DEF HoldsAddUp, Kept
<1> QED
  BY <1>2, <1>3, <1>4 DEF NotCreated, NothingHeld

LEMMA MembersHolds ==
    ASSUME TypeOK, HoldsAddUp, NotCreated(job), Members
    PROVE  HoldsAddUp' /\ NotCreated(job)'
<1>1. ASSUME NEW j \in Jobs, Create(j)
      PROVE  HoldsAddUp' /\ NotCreated(job)'
  <2> DEFINE hold == Price * Cardinality(ItemsOf(j))
  <2>1. hold \in Int
    BY HoldType DEF ItemsOf
  <2>2. /\ job' = [job EXCEPT ![j] = [job[j] EXCEPT !.status = "active", !.reserved = hold]]
        /\ account' = Holding(hold) /\ job[j].status = "absent"
    BY <1>1 DEF Create, TypeOK
  <2> HIDE DEF hold
  <2>3. job \in [Jobs -> JobRow] /\ NothingHeld(job[j]) /\ account.reserved = Kept(job)
    BY <2>2 DEF TypeOK, NotCreated, HoldsAddUp, Kept
  <2>4. [job[j] EXCEPT !.status = "active", !.reserved = hold] \in JobRow
    BY <2>1, <2>3 DEF JobRow, JobStatus
  <2>5. job' \in [Jobs -> JobRow] /\ \A k \in Jobs : k # j => job'[k] = job[k]
    BY <2>2, <2>3, <2>4
  <2>6. job'[j] = [job[j] EXCEPT !.status = "active", !.reserved = hold]
    BY <2>2, <2>3
  <2>7. Outstanding(job'[j]) = Outstanding(job[j]) + hold /\ job'[j].status = "active"
    BY <2>1, <2>3, <2>6 DEF Outstanding, NothingHeld, JobRow
  <2>8. Kept(job') = Kept(job) + hold
    BY <2>1, <2>3, <2>5, <2>7, KeptChange
  <2>9. account'.reserved = account.reserved + hold
    BY <2>2 DEF Holding, TypeOK, AccountRow
  <2>10. NotCreated(job)'
    BY <2>5, <2>7 DEF NotCreated
  <2>11. HoldsAddUp' <=> account'.reserved = Kept(job')
    BY DEF HoldsAddUp, Kept
  <2> QED
    BY <2>3, <2>8, <2>9, <2>10, <2>11
<1>2. ASSUME NEW j \in Jobs, Cancel(j)
      PROVE  HoldsAddUp' /\ NotCreated(job)'
  <2> DEFINE jobs == [job EXCEPT ![j].status = "cancelled"]
             rows == [i \in Items |-> IF i \in ItemsOf(j) THEN Cancelled(item[i]) ELSE item[i]]
  <2>1. /\ jobs \in [Jobs -> JobRow]
        /\ \A k \in Jobs : /\ Outstanding(jobs[k]) = Outstanding(job[k])
                           /\ jobs[k].status = "absent" => jobs[k] = job[k]
    BY DEF TypeOK, JobRow, JobStatus, Outstanding
  <2>2. rows \in [Items -> BudgetedRow]
    BY ClosedBudgeted DEF TypeOK
  <2>3. /\ Aggregate({j}, jobs, rows, account) /\ account \in AccountRow
        /\ account.reserved = Kept(job)
    BY <1>2 DEF Cancel, TypeOK, HoldsAddUp, Kept
  <2> HIDE DEF jobs, rows
  <2>4. Kept(jobs) = Kept(job)
    BY <2>1, KeptSame
  <2>5. NotCreated(jobs)
    BY <2>1 DEF NotCreated
  <2>6. {j} \in SUBSET Jobs
    OBVIOUS
  <2> QED
    BY <2>1, <2>2, <2>3, <2>4, <2>5, <2>6, AggregateHolds
<1>3. ASSUME NEW j \in Jobs, RetryJob(j)
      PROVE  HoldsAddUp' /\ NotCreated(job)'
  <2> DEFINE failed == {i \in ItemsOf(j) : item[i].status = "failed"}
             hold == Price * Cardinality(failed)
             rows == [i \in Items |-> IF i \in failed THEN Rerun(item[i]) ELSE item[i]]
  <2>1. hold \in Int
    BY HoldType DEF ItemsOf
  <2>2. rows \in [Items -> BudgetedRow]
    BY <1>3, RerunBudgeted DEF TypeOK, RetryJob
  <2>3. Aggregate({j}, Reserved(j, hold), rows, Holding(hold)) /\ job[j].status # "absent"
    BY <1>3 DEF RetryJob
  <2> HIDE DEF hold, rows
  <2> QED
    BY <2>1, <2>2, <2>3, ReservedHolds
<1>4. ASSUME NEW i \in Items, RetryItem(i)
      PROVE  HoldsAddUp' /\ NotCreated(job)'
  <2> DEFINE j == JobOf[i]
             rows == [item EXCEPT ![i] = Rerun(item[i])]
  <2>1. j \in Jobs /\ Price \in Int
    BY BatchAssumption
  <2>2. rows \in [Items -> BudgetedRow]
    BY <1>4, RerunBudgeted DEF TypeOK, RetryItem
  <2>3. Aggregate({j}, Reserved(j, Price), rows, Holding(Price)) /\ job[j].status # "absent"
    BY <1>4 DEF RetryItem
  <2> HIDE DEF j, rows
  <2> QED
    BY <2>1, <2>2, <2>3, ReservedHolds
<1>5. ASSUME NEW i \in Items, NEW v \in {"approved", "rejected"}, ReviewItem(i, v)
      PROVE  HoldsAddUp' /\ NotCreated(job)'
  <2> DEFINE rows == [item EXCEPT ![i] = Reviewed(item[i], v)]
  <2>1. rows \in [Items -> BudgetedRow]
    BY MarkedBudgeted DEF TypeOK, Review
  <2>2. Aggregate({JobOf[i]}, job, rows, account) /\ {JobOf[i]} \in SUBSET Jobs
    BY <1>5, JobOfType DEF ReviewItem
  <2> HIDE DEF rows
  <2> QED
    BY <2>1, <2>2, PlainHolds
<1>6. ASSUME NEW i \in Items, SetPrimary(i)
      PROVE  HoldsAddUp' /\ NotCreated(job)'
  BY <1>6, SameHolds DEF SetPrimary
<1> QED
  BY <1>1, <1>2, <1>3, <1>4, <1>5, <1>6 DEF Members

\* A charge takes its price from the account and from the hold of its job.
LEMMA ChargeHolds ==
    ASSUME TypeOK, HoldsAddUp, NotCreated(job), NEW w \in Workers, worker[w].step # "idle", Charge(w)
    PROVE  HoldsAddUp' /\ NotCreated(job)'
<1> DEFINE j == JobOf[worker[w].item]
           row == [job[j] EXCEPT !.settled = job[j].settled + Price, !.actual = job[j].actual + Price]
<1>1. j \in Jobs
  BY JobOfType DEF TypeOK, BusyState
<1>2. job \in [Jobs -> JobRow] /\ job[j] \in JobRow /\ Price \in Int /\ Price >= 0
  BY <1>1, BatchAssumption DEF TypeOK
<1>3. job' = [job EXCEPT ![j] = row] /\ account'.reserved = account.reserved - Price
      /\ job[j].reserved - job[j].settled >= Price
  BY <1>1, <1>2 DEF Charge, Chargeable, JobRow
<1>4. /\ row \in JobRow /\ row.status = job[j].status
      /\ row.reserved = job[j].reserved /\ row.released = job[j].released
      /\ row.settled = job[j].settled + Price
  <2> DEFINE old == job[j]
             settled == old.settled + Price
             actual == old.actual + Price
  <2>1. old \in JobRow /\ settled \in Int /\ actual \in Int
    BY <1>2 DEF JobRow
  <2>2. row = [old EXCEPT !.settled = settled, !.actual = actual]
    OBVIOUS
  <2>3. settled = job[j].settled + Price /\ old = job[j]
    OBVIOUS
  <2> HIDE DEF old, settled, actual, row, j
  <2> QED
    BY <2>1, <2>2, <2>3 DEF JobRow
<1> HIDE DEF j, row
<1>5. job' \in [Jobs -> JobRow] /\ job'[j] = row /\ \A k \in Jobs : k # j => job'[k] = job[k]
  BY <1>1, <1>2, <1>3, <1>4
<1>6. Outstanding(job'[j]) = Outstanding(job[j]) + (-Price) /\ -Price \in Int
  BY <1>2, <1>4, <1>5 DEF Outstanding, JobRow
<1>7. Kept(job') = Kept(job) + (-Price) /\ Kept(job) \in Int
  BY <1>1, <1>2, <1>5, <1>6, KeptChange
<1>8. HoldsAddUp' <=> account'.reserved = Kept(job')
  BY DEF HoldsAddUp, Kept
<1>9. account.reserved = Kept(job)
  BY DEF HoldsAddUp, Kept
<1>10. NotCreated(job)'
  <2> SUFFICES ASSUME NEW k \in Jobs, job'[k].status = "absent"
               PROVE  NothingHeld(job'[k])
    BY DEF NotCreated
  <2>1. CASE k # j
    BY <2>1, <1>5 DEF NotCreated
  <2>2. CASE k = j
    <3>1. NothingHeld(job[j])
      BY <1>1, <1>4, <1>5, <2>2 DEF NotCreated
    <3>2. Price = 0
      BY <1>2, <1>3, <3>1 DEF NothingHeld
    <3> QED
      BY <1>2, <1>4, <1>5, <2>2, <3>1, <3>2 DEF NothingHeld
  <2> QED
    BY <2>1, <2>2
<1> QED
  BY <1>2, <1>3, <1>7, <1>8, <1>9, <1>10

LEMMA WorkHolds ==
    ASSUME TypeOK, HoldsAddUp, NotCreated(job), NEW w \in Workers,
           Work(w) \/ Heartbeat(w) \/ Crash(w) \/ \E i \in Items : Claim(w, i)
    PROVE  HoldsAddUp' /\ NotCreated(job)'
<1> DEFINE i == worker[w].item
           j == JobOf[i]
<1>1. worker[w].step # "idle" => i \in Items /\ j \in Jobs
  BY JobOfType DEF TypeOK, BusyState
<1>2. UNCHANGED <<account, job>> => HoldsAddUp' /\ NotCreated(job)'
  BY SameHolds
<1>3. CASE Start(w) \/ Lookup(w) \/ Upstream(w) \/ Verify(w) \/ Deliver(w) \/ Settle(w)
           \/ FenceFailure(w) \/ Heartbeat(w) \/ Crash(w)
  BY <1>2, <1>3 DEF Start, Lookup, Upstream, Verify, Deliver, Settle, FenceFailure, Heartbeat, Crash
<1>4. CASE Begin(w)
  BY <1>2, <1>4, ChargeHolds DEF Begin, At
<1>5. CASE Refund(w)
  <2>1. account'.reserved = account.reserved
    BY <1>5 DEF Refund, TypeOK, AccountRow
  <2>2. \A k \in Jobs : /\ job'[k].status = job[k].status
                        /\ job'[k].reserved = job[k].reserved
                        /\ job'[k].settled = job[k].settled
                        /\ job'[k].released = job[k].released
    <3>1. \A k \in Jobs : job[k] \in JobRow
      BY DEF TypeOK
    <3>2. \A k \in Jobs : job'[k] \in {job[k], [job[k] EXCEPT !.actual = @ - Price]}
      BY <1>5 DEF Refund, TypeOK
    <3> QED
      BY <3>1, <3>2 DEF JobRow
  <2> QED
    BY <2>1, <2>2, SameHolds
<1>6. ASSUME NEW k \in Items, Claim(w, k) PROVE HoldsAddUp' /\ NotCreated(job)'
  <2> DEFINE rows == [item EXCEPT ![k] = Claimed(item[k], w)]
  <2>1. rows \in [Items -> BudgetedRow]
    BY <1>6, ClaimedBudgeted DEF Claim, Claimable, TypeOK
  <2>2. Aggregate({JobOf[k]}, job, rows, account) /\ {JobOf[k]} \in SUBSET Jobs
    BY <1>6, JobOfType DEF Claim
  <2> HIDE DEF rows
  <2> QED
    BY <2>1, <2>2, PlainHolds
<1>7. CASE Finish(w)
  <2> DEFINE again == /\ worker[w].retry /\ AttemptsLeft(i)
                      /\ worker[w].charged => Spendable >= Price
             hold == IF again THEN RetryHold(w) ELSE 0
             rows == [item EXCEPT ![i] = IF again THEN Requeued(item[i])
                                         ELSE Returned(item[i], "failed")]
  <2>1. i \in Items /\ j \in Jobs
    BY <1>1, <1>7 DEF Finish, At
  <2>2. CASE UNCHANGED <<account, job, item>>
    BY <1>2, <2>2
  <2>3. CASE /\ job[j].status = "active" /\ Held(w)
             /\ Aggregate({j}, Reserved(j, hold), rows, Holding(hold))
    <3>1. hold \in Int
      BY BatchAssumption DEF RetryHold
    <3>2. rows \in [Items -> BudgetedRow]
      <4>1. again => item[i].status = "running" /\ item[i].attempts < MaxAttempts
        BY <2>3 DEF Held, AttemptsLeft
      <4> QED
        BY <2>1, <4>1, ClosedBudgeted, RequeuedBudgeted DEF TypeOK
    <3> HIDE DEF hold, rows, j
    <3> QED
      BY <2>1, <2>3, <3>1, <3>2, ReservedHolds
  <2> QED
    BY <1>7, <2>2, <2>3 DEF Finish
<1>8. CASE Complete(w)
  <2> DEFINE rows == [item EXCEPT ![i] = Delivered(item[i])]
  <2>1. i \in Items /\ j \in Jobs
    BY <1>1, <1>8 DEF Complete, At
  <2>2. CASE UNCHANGED <<account, job, item>>
    BY <1>2, <2>2
  <2>3. CASE Aggregate({j}, job, rows, account)
    <3>1. rows \in [Items -> BudgetedRow]
      BY <2>1, ClosedBudgeted DEF TypeOK
    <3>2. {j} \in SUBSET Jobs
      BY <2>1
    <3> HIDE DEF rows, j
    <3> QED
      BY <2>3, <3>1, <3>2, PlainHolds
  <2> QED
    BY <1>8, <2>2, <2>3 DEF Complete
<1> QED
  BY <1>3, <1>4, <1>5, <1>6, <1>7, <1>8 DEF Work

LEMMA InitHolds == Init => HoldsAddUp /\ NotCreated(job)
<1> SUFFICES ASSUME Init PROVE HoldsAddUp /\ NotCreated(job)
  OBVIOUS
<1> DEFINE f == [j \in Jobs |-> Outstanding(job[j])]
           g == [j \in Jobs |-> -f[j]]
<1>1. (\A j \in Jobs : f[j] \in Int /\ f[j] <= 0) /\ (\A j \in Jobs : g[j] \in Int /\ g[j] <= 0)
  BY DEF Init, Outstanding
<1>2. account.reserved = 0 /\ (HoldsAddUp <=> account.reserved = Total(Jobs, f) - Total(Jobs, g))
  BY DEF Init, HoldsAddUp, Net
<1>3. NotCreated(job)
  BY DEF Init, NotCreated, NothingHeld
<1> HIDE DEF f, g
<1>4. Total(Jobs, f) = 0 /\ Total(Jobs, g) = 0
  BY <1>1, TotalNone
<1> QED
  BY <1>2, <1>3, <1>4

LEMMA NextHolds ==
    ASSUME TypeOK, HoldsAddUp, NotCreated(job), [Next]_vars
    PROVE  HoldsAddUp' /\ NotCreated(job)'
<1>1. CASE Members
  BY <1>1, MembersHolds
<1>2. CASE FailExhausted
  <2>1. Expired \in [Items -> BudgetedRow]
    BY ClosedBudgeted DEF Expired, TypeOK
  <2>2. Aggregate({JobOf[k] : k \in Exhausted}, job, Expired, account)
    BY <1>2 DEF FailExhausted
  <2> QED
    BY <2>1, <2>2, ExhaustedJobs, PlainHolds
<1>3. CASE \E w \in Workers : Work(w) \/ Heartbeat(w) \/ Crash(w) \/ \E i \in Items : Claim(w, i)
  BY <1>3, WorkHolds
<1>4. ASSUME NEW i \in Items, NEW r \in Runs, DeliverLate(i, r)
      PROVE  HoldsAddUp' /\ NotCreated(job)'
  <2>1. account'.reserved = account.reserved
    BY <1>4 DEF DeliverLate, TypeOK, AccountRow
  <2>2. \A k \in Jobs : job[k] \in JobRow
    BY DEF TypeOK
  <2>3. \A k \in Jobs : job'[k] \in {job[k], [job[k] EXCEPT !.actual = @ + Price]}
    BY <1>4 DEF DeliverLate, TypeOK
  <2>4. \A k \in Jobs : /\ job'[k].status = job[k].status
                        /\ job'[k].reserved = job[k].reserved
                        /\ job'[k].settled = job[k].settled
                        /\ job'[k].released = job[k].released
    BY <2>2, <2>3 DEF JobRow
  <2> QED
    BY <2>1, <2>4, SameHolds
<1>5. CASE \/ \E i \in Items : LeaseExpires(i) \/ Reconcile(i)
           \/ UNCHANGED vars
  BY <1>5, SameHolds DEF LeaseExpires, Reconcile, vars
<1> QED
  BY <1>1, <1>2, <1>3, <1>4, <1>5 DEF Next

\* The account reserves what its jobs hold, also while a hold is over-drawn and
\* whatever is cancelled, crashes, pauses or arrives late.
THEOREM HoldsAddUpHolds == Spec => []HoldsAddUp
<1>1. TypeOK /\ (HoldsAddUp /\ NotCreated(job)) /\ [Next]_vars => (HoldsAddUp /\ NotCreated(job))'
  BY NextHolds
<1> QED
  BY <1>1, InitHolds, TypeCorrect, PTL DEF Spec

-----------------------------------------------------------------------------
(***************************************************************************)
(* Who works on an item. Without pauses a worker keeps its lease until it  *)
(* gives it back, and nobody else takes the item, unless the job is        *)
(* cancelled.                                                              *)
(***************************************************************************)

\* A worker at work on the run of its claim, and the row of an item it leases.
Engaged(w) == worker[w].step \notin {"idle", "settle"}
Leased(w, row) == /\ row.status = "running" /\ row.holder = w /\ row.live
                  /\ row.run = worker[w].run
Owns(w) == Leased(w, item[worker[w].item])
Owner(w) ==
    Engaged(w) => IF job[JobOf[worker[w].item]].status = "cancelled"
                  THEN item[worker[w].item].status = "cancelled"
                  ELSE Owns(w)
Owners == \A w \in Workers : Owner(w)

\* Only active jobs have items to come.
ToCome(row) == row.status \in {"queued", "running"}
Active == \A i \in Items : ToCome(item[i]) => job[JobOf[i]].status = "active"

\* What the aggregation of a job leaves on its row.
LEMMA RollupBusy ==
    ASSUME NEW status, status # "cancelled", NEW rows
    PROVE  /\ Rollup(status, rows) # "cancelled"
           /\ Rollup(status, rows) = "active" <=> \E x \in rows : ToCome(x)
<1>1. CASE \E x \in rows : ToCome(x)
  BY <1>1 DEF Rollup, ToCome
<1>2. CASE ~\E x \in rows : ToCome(x)
  BY <1>2 DEF Rollup, ToCome
<1> QED
  BY <1>1, <1>2

LEMMA AggregateStatus ==
    ASSUME NEW js \in SUBSET Jobs, NEW jobs \in [Jobs -> JobRow], NEW rows, NEW funds,
           Aggregate(js, jobs, rows, funds), NEW j \in Jobs
    PROVE  /\ job'[j].status = "cancelled" <=> jobs[j].status = "cancelled"
           /\ j \notin js => job'[j] = jobs[j]
           /\ j \in js => /\ jobs[j].status # "cancelled" =>
                                (job'[j].status = "active" <=> \E i \in ItemsOf(j) : ToCome(rows[i]))
                          /\ Outstanding(job'[j]) = IF job'[j].status = "active"
                                                    THEN Outstanding(jobs[j]) ELSE 0
<1>1. CASE j \notin js
  BY <1>1 DEF Aggregate
<1>2. CASE j \in js
  <2> DEFINE all == {rows[i] : i \in ItemsOf(j)}
             status == RollupOf(j, jobs[j], rows)
             back == Release(j, jobs[j], rows)
  <2>1. /\ jobs[j] \in JobRow
        /\ job'[j] = [jobs[j] EXCEPT !.status = status, !.released = jobs[j].released + back]
    BY <1>2 DEF Aggregate, JobRow
  <2>2. status = Rollup(jobs[j].status, all)
    BY DEF RollupOf
  <2>3. back = IF status = "active" THEN 0 ELSE Outstanding(jobs[j])
    BY DEF Release
  <2> HIDE DEF status, back
  <2>4. Outstanding(jobs[j]) \in Int
    BY <2>1 DEF Outstanding, JobRow
  <2>5. back \in Int
    BY <2>3, <2>4
  <2>6. job'[j].status = status /\ Outstanding(job'[j]) = Outstanding(jobs[j]) - back
    BY <2>1, <2>5 DEF Outstanding, JobRow
  <2>7. Outstanding(job'[j]) = IF job'[j].status = "active" THEN Outstanding(jobs[j]) ELSE 0
    BY <2>3, <2>4, <2>6
  <2>8. CASE jobs[j].status = "cancelled"
    BY <1>2, <2>2, <2>6, <2>7, <2>8, RollupCancelled
  <2>9. CASE jobs[j].status # "cancelled"
    <3>1. status # "cancelled" /\ (status = "active" <=> \E x \in all : ToCome(x))
      BY <2>2, <2>9, RollupBusy
    <3> QED
      BY <1>2, <2>6, <2>7, <2>9, <3>1
  <2> QED
    BY <2>8, <2>9
<1> QED
  BY <1>1, <1>2

LEMMA AggregateCancels ==
    ASSUME NEW js \in SUBSET Jobs, NEW jobs \in [Jobs -> JobRow], NEW rows, NEW funds,
           Aggregate(js, jobs, rows, funds)
    PROVE  \A j \in Jobs : /\ job'[j].status = "cancelled" <=> jobs[j].status = "cancelled"
                           /\ j \notin js => job'[j] = jobs[j]
BY AggregateStatus

\* An aggregation leaves only active jobs with items to come, if the rows it is
\* given have none for a cancelled job, and none for a job it passes over that
\* is not active.
LEMMA AggregateActive ==
    ASSUME NEW js \in SUBSET Jobs, NEW jobs \in [Jobs -> JobRow],
           NEW rows \in [Items -> BudgetedRow], NEW funds,
           Aggregate(js, jobs, rows, funds),
           \A i \in Items : ToCome(rows[i]) => /\ jobs[JobOf[i]].status # "cancelled"
                                               /\ JobOf[i] \notin js => jobs[JobOf[i]].status = "active"
    PROVE  Active'
<1> SUFFICES ASSUME NEW i \in Items, ToCome(item'[i])
             PROVE  job'[JobOf[i]].status = "active"
  BY DEF Active, ToCome
<1> DEFINE j == JobOf[i]
<1>1. ToCome(rows[i]) /\ j \in Jobs /\ i \in ItemsOf(j)
  BY JobOfType DEF Aggregate, ItemsOf
<1>2. jobs[j].status # "cancelled" /\ (j \notin js => jobs[j].status = "active")
  BY <1>1
<1> HIDE DEF j
<1>3. ASSUME j \notin js
      PROVE  job'[j].status = "active"
  <2>1. job'[j] = jobs[j]
    BY <1>1, <1>3, AggregateCancels
  <2> QED
    BY <1>2, <1>3, <2>1
<1>4. ASSUME j \in js
      PROVE  job'[j].status = "active"
  <2>1. job'[j].status = "active" <=> \E k \in ItemsOf(j) : ToCome(rows[k])
    BY <1>1, <1>2, <1>4, AggregateStatus
  <2> QED
    BY <1>1, <2>1
<1>5. job'[j].status = "active"
  BY <1>3, <1>4
<1> QED
  BY <1>5 DEF j

\* In particular if it is about one job that is not cancelled, and passes the
\* items of the others over.
LEMMA OneActive ==
    ASSUME TypeOK, Active, NEW j \in Jobs, NEW jobs \in [Jobs -> JobRow],
           NEW rows \in [Items -> BudgetedRow], NEW funds,
           Aggregate({j}, jobs, rows, funds),
           \A k \in Jobs : jobs[k].status = job[k].status,
           \A i \in Items : ToCome(rows[i]) => \/ ToCome(item[i])
                                               \/ JobOf[i] = j /\ job[j].status # "cancelled"
    PROVE  Active'
<1>1. \A i \in Items : ToCome(rows[i]) => /\ jobs[JobOf[i]].status # "cancelled"
                                          /\ JobOf[i] \notin {j} => jobs[JobOf[i]].status = "active"
  BY JobOfType DEF Active
<1>2. {j} \in SUBSET Jobs
  OBVIOUS
<1> QED
  BY <1>1, <1>2, AggregateActive

\* A step that leaves jobs and statuses alone.
LEMMA SameActive ==
    ASSUME Active, \A j \in Jobs : job'[j].status = job[j].status,
           \A i \in Items : item'[i].status = item[i].status
    PROVE  Active'
BY JobOfType DEF Active, ToCome

\* What is left of a lease after a step: the item, or a cancelled job.
Survives(v) ==
    LET i == worker[v].item
    IN  IF job'[JobOf[i]].status = "cancelled" THEN item'[i].status = "cancelled"
        ELSE Leased(v, item'[i])

\* A worker stays on its claim or gives it up.
Stays(v) == Engaged(v)' => /\ Engaged(v)
                           /\ worker'[v].item = worker[v].item
                           /\ worker'[v].run = worker[v].run

LEMMA KeptOwner ==
    ASSUME TypeOK, Owners, CancelledStep, NEW v \in Workers, Stays(v),
           Engaged(v)' /\ job[JobOf[worker[v].item]].status # "cancelled" /\ Owns(v) => Survives(v)
    PROVE  Owner(v)'
<1> SUFFICES ASSUME Engaged(v)' PROVE Owner(v)'
  BY DEF Owner
<1> DEFINE i == worker[v].item
<1>1. Engaged(v) /\ worker'[v].item = i /\ worker'[v].run = worker[v].run
  BY DEF Stays
<1>2. i \in Items /\ JobOf[i] \in Jobs
  BY <1>1, JobOfType DEF Engaged, TypeOK, BusyState
<1>3. Owner(v)
  BY DEF Owners
<1>4. CASE job[JobOf[i]].status = "cancelled"
  <2>1. item[i].status = "cancelled"
    BY <1>1, <1>3, <1>4 DEF Owner
  <2>2. job'[JobOf[i]].status = "cancelled" /\ item'[i].status = "cancelled"
    BY <1>2, <1>4, <2>1 DEF CancelledStep, ItemsOf
  <2> QED
    BY <1>1, <2>2 DEF Owner
<1>5. CASE job[JobOf[i]].status # "cancelled"
  <2>1. Survives(v)
    BY <1>1, <1>3, <1>5 DEF Owner
  <2> QED
    BY <1>1, <2>1 DEF Survives, Owner, Owns, Leased
<1> QED
  BY <1>4, <1>5

\* A lease survives a step that leaves the item in the hands of its holder and
\* does not cancel the job.
Steady(old, new) == /\ new.status = old.status /\ new.holder = old.holder
                    /\ new.run = old.run /\ (old.live => new.live)

LEMMA SteadySurvives ==
    ASSUME NEW v \in Workers, Owns(v), Steady(item[worker[v].item], item'[worker[v].item]),
           job'[JobOf[worker[v].item]].status # "cancelled"
    PROVE  Survives(v)
BY DEF Survives, Owns, Leased, Steady

\* The requests of the members take no item from its worker.
LEMMA MembersOwners ==
    ASSUME TypeOK, Owners, Active, Members
    PROVE  Owners' /\ Active'
<1>1. worker' = worker
  BY DEF Members, Create, Cancel, RetryJob, RetryItem, ReviewItem, SetPrimary
<1>2. CancelledStep
  BY NextQuiet DEF Next
<1>3. \A v \in Workers : Stays(v)
  BY <1>1 DEF Stays, Engaged
<1>4. /\ job \in [Jobs -> JobRow] /\ item \in [Items -> BudgetedRow]
      /\ \A i \in Items : item[i] \in ItemRow /\ JobOf[i] \in Jobs
  BY JobOfType DEF TypeOK, BudgetedRow
<1>5. ASSUME \A v \in Workers : LET i == worker[v].item IN
               i \in Items /\ Owns(v) /\ job[JobOf[i]].status = "active" => Survives(v)
      PROVE  Owners'
  <2> SUFFICES ASSUME NEW v \in Workers PROVE Owner(v)'
    BY DEF Owners
  <2> DEFINE i == worker[v].item
  <2>1. Engaged(v) => i \in Items
    BY DEF TypeOK, BusyState, Engaged
  <2>2. i \in Items /\ Owns(v) => job[JobOf[i]].status = "active"
    BY DEF Active, Owns, Leased, ToCome
  <2>3. Engaged(v)' => Engaged(v)
    BY <1>3 DEF Stays
  <2> QED
    BY <1>2, <1>3, <1>5, <2>1, <2>2, <2>3, KeptOwner
<1>6. ASSUME NEW j \in Jobs, Create(j)
      PROVE  Owners' /\ Active'
  <2>1. \A i \in Items : JobOf[i] # j => item'[i] = item[i] /\ job'[JobOf[i]] = job[JobOf[i]]
    BY <1>4, <1>6 DEF Create, ItemsOf
  <2>2. job[j].status = "absent" /\ job'[j].status = "active"
    BY <1>4, <1>6 DEF Create, JobRow
  <2>3. Active'
    BY <1>4, <2>1, <2>2 DEF Active, ToCome
  <2>4. \A v \in Workers : LET i == worker[v].item IN
           i \in Items /\ Owns(v) /\ job[JobOf[i]].status = "active" => Survives(v)
    BY <1>4, <2>1, <2>2, SteadySurvives DEF Steady
  <2> QED
    BY <1>5, <2>3, <2>4
<1>7. ASSUME NEW j \in Jobs, Cancel(j)
      PROVE  Owners' /\ Active'
  <2> DEFINE jobs == [job EXCEPT ![j].status = "cancelled"]
             rows == [i \in Items |-> IF i \in ItemsOf(j) THEN Cancelled(item[i]) ELSE item[i]]
  <2>1. /\ jobs \in [Jobs -> JobRow] /\ jobs[j].status = "cancelled"
        /\ \A k \in Jobs : k # j => jobs[k] = job[k]
    BY <1>4 DEF JobRow, JobStatus
  <2>2. /\ rows \in [Items -> BudgetedRow] /\ \A i \in Items : JobOf[i] # j => rows[i] = item[i]
        /\ \A i \in Items : JobOf[i] = j => rows[i] = Cancelled(item[i])
    BY ClosedBudgeted DEF TypeOK, ItemsOf
  <2>3. Aggregate({j}, jobs, rows, account) /\ item' = rows
    BY <1>7 DEF Cancel, Aggregate
  <2> HIDE DEF jobs, rows
  <2>4. \A i \in Items : JobOf[i] = j => ~ToCome(rows[i])
    BY <1>4, <2>2 DEF Cancelled, ToCome, ItemRow
  <2>5. {j} \in SUBSET Jobs
    OBVIOUS
  <2>6. Active'
    <3>1. \A i \in Items : ToCome(rows[i]) => /\ jobs[JobOf[i]].status # "cancelled"
                                              /\ JobOf[i] \notin {j} => jobs[JobOf[i]].status = "active"
      BY <1>4, <2>1, <2>2, <2>4 DEF Active
    <3> QED
      BY <2>1, <2>2, <2>3, <2>5, <3>1, AggregateActive
  <2>7. \A v \in Workers : LET i == worker[v].item IN
           i \in Items /\ Owns(v) /\ job[JobOf[i]].status = "active" => Survives(v)
    <3> SUFFICES ASSUME NEW v \in Workers, worker[v].item \in Items, Owns(v),
                        job[JobOf[worker[v].item]].status = "active"
                 PROVE  Survives(v)
      OBVIOUS
    <3> DEFINE i == worker[v].item
    <3>1. CASE JobOf[i] = j
      <4>1. item'[i].status = "cancelled"
        <5>1. item'[i] = Cancelled(item[i]) /\ item[i] \in ItemRow /\ item[i].status = "running"
          BY <1>4, <2>2, <2>3, <3>1 DEF Owns, Leased
        <5> QED
          BY <5>1 DEF Cancelled, ItemRow
      <4>2. job'[JobOf[i]].status = "cancelled"
        BY <2>1, <2>2, <2>3, <2>5, <3>1, AggregateCancels
      <4> QED
        BY <4>1, <4>2 DEF Survives
    <3>2. CASE JobOf[i] # j
      <4>1. job'[JobOf[i]] = job[JobOf[i]]
        BY <1>4, <2>1, <2>2, <2>3, <2>5, <3>2, AggregateCancels, ZenonT(40)
      <4> QED
        BY <2>2, <2>3, <3>2, <4>1, SteadySurvives DEF Steady
    <3> QED
      BY <3>1, <3>2
  <2> QED
    BY <1>5, <2>6, <2>7
<1>8. ASSUME NEW j \in Jobs, NEW jobs \in [Jobs -> JobRow], NEW rows \in [Items -> BudgetedRow],
             NEW funds, Aggregate({j}, jobs, rows, funds), item' = rows,
             \A k \in Jobs : jobs[k].status = job[k].status,
             \A i \in Items : ToCome(rows[i]) => \/ ToCome(item[i])
                                                 \/ JobOf[i] = j /\ job[j].status # "cancelled",
             \A i \in Items : item[i].status = "running" /\ job[JobOf[i]].status = "active"
                                => rows[i] = item[i]
      PROVE  Owners' /\ Active'
  <2>1. Active'
    BY <1>8, OneActive
  <2>2. {j} \in SUBSET Jobs
    OBVIOUS
  <2>3. \A v \in Workers : LET i == worker[v].item IN
           i \in Items /\ Owns(v) /\ job[JobOf[i]].status = "active" => Survives(v)
    <3> SUFFICES ASSUME NEW v \in Workers, worker[v].item \in Items, Owns(v),
                        job[JobOf[worker[v].item]].status = "active"
                 PROVE  Survives(v)
      OBVIOUS
    <3> DEFINE i == worker[v].item
    <3>1. item'[i] = item[i]
      BY <1>8 DEF Owns, Leased
    <3>2. job'[JobOf[i]].status # "cancelled"
      BY <1>4, <1>8, <2>2, AggregateCancels
    <3> QED
      BY <3>1, <3>2, SteadySurvives DEF Steady
  <2> QED
    BY <1>5, <2>1, <2>3
<1>9. ASSUME NEW j \in Jobs, RetryJob(j)
      PROVE  Owners' /\ Active'
  <2> DEFINE failed == {i \in ItemsOf(j) : item[i].status = "failed"}
             hold == Price * Cardinality(failed)
             rows == [i \in Items |-> IF i \in failed THEN Rerun(item[i]) ELSE item[i]]
             jobs == Reserved(j, hold)
  <2>1. hold \in Int
    BY HoldType DEF ItemsOf
  <2>2. rows \in [Items -> BudgetedRow]
    BY <1>9, RerunBudgeted DEF TypeOK, RetryJob
  <2>3. Aggregate({j}, jobs, rows, Holding(hold)) /\ item' = rows /\ job[j].status # "cancelled"
    BY <1>9 DEF RetryJob, Aggregate
  <2>4. \A i \in Items : rows[i] = item[i] \/ (JobOf[i] = j /\ item[i].status = "failed")
    BY DEF ItemsOf
  <2> HIDE DEF hold, rows
  <2>5. jobs \in [Jobs -> JobRow] /\ \A k \in Jobs : jobs[k].status = job[k].status
    BY <2>1, ReservedType
  <2> HIDE DEF jobs
  <2>6. \A i \in Items : ToCome(rows[i]) => \/ ToCome(item[i])
                                            \/ JobOf[i] = j /\ job[j].status # "cancelled"
    BY <2>3, <2>4
  <2>7. \A i \in Items : item[i].status = "running" => rows[i] = item[i]
    BY <2>4
  <2> QED
    BY <1>8, <2>2, <2>3, <2>5, <2>6, <2>7
<1>10. ASSUME NEW k \in Items, RetryItem(k)
      PROVE  Owners' /\ Active'
  <2> DEFINE j == JobOf[k]
             rows == [item EXCEPT ![k] = Rerun(item[k])]
             jobs == Reserved(j, Price)
  <2>1. j \in Jobs /\ Price \in Int
    BY BatchAssumption
  <2>2. rows \in [Items -> BudgetedRow]
    BY <1>10, RerunBudgeted DEF TypeOK, RetryItem
  <2>3. /\ Aggregate({j}, jobs, rows, Holding(Price)) /\ item' = rows
        /\ job[j].status # "cancelled" /\ item[k].status # "running"
    BY <1>10 DEF RetryItem, Aggregate
  <2>4. \A i \in Items : rows[i] = item[i] \/ i = k
    BY <1>4
  <2> HIDE DEF rows
  <2>5. jobs \in [Jobs -> JobRow] /\ \A l \in Jobs : jobs[l].status = job[l].status
    BY <2>1, ReservedType
  <2> HIDE DEF jobs
  <2>6. \A i \in Items : ToCome(rows[i]) => \/ ToCome(item[i])
                                            \/ JobOf[i] = j /\ job[j].status # "cancelled"
    BY <2>3, <2>4
  <2>7. \A i \in Items : item[i].status = "running" => rows[i] = item[i]
    BY <2>3, <2>4
  <2> HIDE DEF j
  <2> QED
    BY <1>8, <2>1, <2>2, <2>3, <2>5, <2>6, <2>7
<1>11. ASSUME NEW k \in Items, NEW verdict \in {"approved", "rejected"}, ReviewItem(k, verdict)
      PROVE  Owners' /\ Active'
  <2> DEFINE rows == [item EXCEPT ![k] = Reviewed(item[k], verdict)]
  <2>1. rows \in [Items -> BudgetedRow]
    BY MarkedBudgeted DEF TypeOK, Review
  <2>2. Aggregate({JobOf[k]}, job, rows, account) /\ item' = rows /\ item[k].status = "completed"
    BY <1>11 DEF ReviewItem, Aggregate
  <2>3. rows[k].status = item[k].status /\ \A i \in Items : rows[i] = item[i] \/ i = k
    BY <1>4 DEF Reviewed, ItemRow
  <2> HIDE DEF rows
  <2>4. \A i \in Items : /\ ToCome(rows[i]) => ToCome(item[i])
                         /\ item[i].status = "running" => rows[i] = item[i]
    BY <2>2, <2>3 DEF ToCome
  <2> QED
    BY <1>4, <1>8, <2>1, <2>2, <2>4
<1>12. ASSUME NEW k \in Items, SetPrimary(k)
      PROVE  Owners' /\ Active'
  <2>1. job' = job /\ \A i \in Items : Steady(item[i], item'[i])
    BY <1>4, <1>12 DEF SetPrimary, Steady, ItemRow
  <2>2. Active'
    BY <2>1, SameActive DEF Steady
  <2>3. \A v \in Workers : LET i == worker[v].item IN
           i \in Items /\ Owns(v) /\ job[JobOf[i]].status = "active" => Survives(v)
    BY <2>1, SteadySurvives
  <2> QED
    BY <1>5, <2>2, <2>3
<1> QED
  BY <1>6, <1>7, <1>9, <1>10, <1>11, <1>12 DEF Members

\* How the end of a claim changes its item: with a new row, and a reservation
\* for it; or not at all.
Outcome(w, row, hold) ==
    LET i == worker[w].item
    IN  /\ job[JobOf[i]].status = "active" /\ Held(w)
        /\ Aggregate({JobOf[i]}, Reserved(JobOf[i], hold), [item EXCEPT ![i] = row], Holding(hold))
Failed(w, row, hold) ==
    \/ row = Requeued(item[worker[w].item]) /\ hold = RetryHold(w) /\ worker[w].retry
    \/ row = Returned(item[worker[w].item], "failed") /\ hold = 0
Result(w) == Delivered(item[worker[w].item])

LEMMA FinishCases ==
    ASSUME TypeOK, NEW w \in Workers, Finish(w)
    PROVE  /\ Become(w, Idle) /\ task' = task
           /\ \/ UNCHANGED <<account, job, item>>
              \/ \E row \in BudgetedRow, hold \in Int : Failed(w, row, hold) /\ Outcome(w, row, hold)
<1> DEFINE i == worker[w].item
           j == JobOf[i]
           again == /\ worker[w].retry /\ AttemptsLeft(i)
                    /\ worker[w].charged => Spendable >= Price
           hold == IF again THEN RetryHold(w) ELSE 0
           row == IF again THEN Requeued(item[i]) ELSE Returned(item[i], "failed")
<1>1. i \in Items /\ item[i] \in BudgetedRow
  BY DEF Finish, At, TypeOK, BusyState
<1>2. Become(w, Idle) /\ task' = task
  BY DEF Finish
<1>3. CASE UNCHANGED <<account, job, item>>
  BY <1>2, <1>3
<1>4. CASE /\ job[j].status = "active" /\ Held(w)
           /\ Aggregate({j}, Reserved(j, hold), [item EXCEPT ![i] = row], Holding(hold))
  <2>1. hold \in Int
    BY BatchAssumption DEF RetryHold
  <2>2. again => item[i].status = "running" /\ item[i].attempts < MaxAttempts
    BY <1>4 DEF Held, AttemptsLeft
  <2>3. row \in BudgetedRow
    BY <1>1, <2>2, ClosedBudgeted, RequeuedBudgeted
  <2>4. Failed(w, row, hold)
    BY DEF Failed
  <2> HIDE DEF row, hold
  <2>5. Outcome(w, row, hold)
    BY <1>4 DEF Outcome
  <2> QED
    BY <1>2, <2>1, <2>3, <2>4, <2>5
<1> QED
  BY <1>3, <1>4 DEF Finish

LEMMA CompleteCases ==
    ASSUME TypeOK, NEW w \in Workers, Complete(w)
    PROVE  /\ task' = task /\ worker[w].step = "complete"
           /\ \/ Become(w, Idle) /\ UNCHANGED <<account, job, item>>
              \/ /\ GoTo(w, "settle") /\ Result(w) \in BudgetedRow
                 /\ job[JobOf[worker[w].item]].status = "active" /\ Held(w)
                 /\ Aggregate({JobOf[worker[w].item]}, job,
                              [item EXCEPT ![worker[w].item] = Result(w)], account)
<1>1. worker[w].step = "complete" /\ worker[w].item \in Items
  BY DEF Complete, At, TypeOK, BusyState
<1>2. Result(w) \in BudgetedRow
  BY <1>1, ClosedBudgeted DEF Result, TypeOK
<1> QED
  BY <1>1, <1>2 DEF Complete, Result

\* A step leaves the leases of the workers who stay on their claims.
LEMMA StepOwners ==
    ASSUME TypeOK, Owners, CancelledStep, \A v \in Workers : Stays(v),
           \A v \in Workers : LET i == worker[v].item IN
               Engaged(v)' /\ i \in Items /\ Owns(v) /\ job[JobOf[i]].status # "cancelled"
               => Steady(item[i], item'[i]) /\ job'[JobOf[i]].status # "cancelled"
    PROVE  Owners'
<1> SUFFICES ASSUME NEW v \in Workers PROVE Owner(v)'
  BY DEF Owners
<1>1. Engaged(v)' => worker[v].item \in Items
  BY DEF Stays, TypeOK, BusyState, Engaged
<1>2. Engaged(v)' /\ job[JobOf[worker[v].item]].status # "cancelled" /\ Owns(v) => Survives(v)
  BY <1>1, SteadySurvives
<1> QED
  BY <1>2, KeptOwner

LEMMA WorkOwners ==
    ASSUME TypeOK, Owners, Active, NEW w \in Workers, Work(w) \/ Heartbeat(w) \/ Crash(w)
    PROVE  Owners' /\ Active'
<1> DEFINE i == worker[w].item
           j == JobOf[i]
<1>1. CancelledStep
  BY NextQuiet DEF Next
<1>2. worker[w].step # "idle" => i \in Items /\ j \in Jobs
  BY JobOfType DEF TypeOK, BusyState
<1>3. /\ job \in [Jobs -> JobRow] /\ item \in [Items -> BudgetedRow] /\ account \in AccountRow
      /\ \A k \in Items : item[k] \in ItemRow /\ JobOf[k] \in Jobs
      /\ worker \in [Workers -> WorkerState]
  BY JobOfType DEF TypeOK, BudgetedRow, BusyState
<1>4. \A v \in Workers : v # w => worker'[v] = worker[v]
  BY <1>3 DEF Work, Start, Lookup, Begin, Charge, Upstream, Verify, Deliver, Complete, Settle,
              FenceFailure, Refund, Finish, Heartbeat, Crash, Fenced, Abandon, GoTo, GiveUp, Become
<1>5. ASSUME \/ Become(w, Idle)
             \/ \E state \in WorkerState : /\ Become(w, state) /\ Engaged(w)
                                           /\ state.item = i /\ state.run = worker[w].run
             \/ GoTo(w, "settle")
      PROVE  \A v \in Workers : Stays(v)
  <2> SUFFICES ASSUME NEW v \in Workers PROVE Stays(v)
    OBVIOUS
  <2>1. CASE v # w
    BY <1>4, <2>1 DEF Stays, Engaged
  <2>2. CASE v = w
    BY <1>3, <1>5, <2>2 DEF Stays, Engaged, Become, GoTo, Idle, WorkerState
  <2> QED
    BY <2>1, <2>2
<1>6. ASSUME NEW step \in Steps, Engaged(w), GoTo(w, step)
      PROVE  \A v \in Workers : Stays(v)
  <2>1. worker[w] \in WorkerState
    BY <1>3
  <2>2. /\ [worker[w] EXCEPT !.step = step] \in WorkerState
        /\ [worker[w] EXCEPT !.step = step].item = i
        /\ [worker[w] EXCEPT !.step = step].run = worker[w].run
    BY <2>1 DEF WorkerState
  <2> QED
    BY <1>5, <1>6, <2>2 DEF GoTo
<1>7. ASSUME NEW step \in Steps, NEW charged \in BOOLEAN, NEW retry \in BOOLEAN, Engaged(w),
             \/ Become(w, [worker[w] EXCEPT !.step = step, !.charged = charged])
             \/ Become(w, [worker[w] EXCEPT !.step = step, !.retry = retry])
             \/ GiveUp(w, charged, retry)
      PROVE  \A v \in Workers : Stays(v)
  <2>1. worker[w] \in WorkerState /\ "fence" \in Steps
    BY <1>3 DEF Steps
  <2>2. \A one \in Steps :
          LET first == [worker[w] EXCEPT !.step = one, !.charged = charged]
              second == [worker[w] EXCEPT !.step = one, !.retry = retry]
              third == [worker[w] EXCEPT !.step = one, !.charged = charged, !.retry = retry]
          IN  /\ first \in WorkerState /\ first.item = i /\ first.run = worker[w].run
              /\ second \in WorkerState /\ second.item = i /\ second.run = worker[w].run
              /\ third \in WorkerState /\ third.item = i /\ third.run = worker[w].run
    BY <2>1 DEF WorkerState
  <2> QED
    BY <1>5, <1>7, <2>1, <2>2 DEF GiveUp
<1>8. ASSUME \A v \in Workers : Stays(v), \A k \in Items : Steady(item[k], item'[k]),
             \A k \in Jobs : job'[k].status = job[k].status
      PROVE  Owners' /\ Active'
  <2>1. Active'
    BY <1>8, SameActive DEF Steady
  <2> QED
    BY <1>1, <1>3, <1>8, <2>1, StepOwners
<1>9. (item' = item \/ (Renew(w) /\ i \in Items)) => \A k \in Items : Steady(item[k], item'[k])
  <2>1. item' = item => \A k \in Items : Steady(item[k], item'[k])
    BY DEF Steady
  <2>2. Renew(w) => \A k \in Items : item'[k] \in {item[k], [item[k] EXCEPT !.live = TRUE]}
    BY <1>3 DEF Renew
  <2>3. \A k \in Items : Steady(item[k], item[k]) /\ Steady(item[k], [item[k] EXCEPT !.live = TRUE])
    BY <1>3 DEF Steady, ItemRow
  <2> QED
    BY <2>1, <2>2, <2>3
<1>10. \A step \in Steps : Engaged(w) /\ Fenced(w, step) => \A v \in Workers : Stays(v)
  BY <1>5, <1>6 DEF Fenced, Abandon
<1>11. CASE Start(w) \/ Verify(w) \/ FenceFailure(w) \/ Heartbeat(w) \/ Crash(w)
  <2>1. job' = job /\ (item' = item \/ Renew(w)) /\ i \in Items
    BY <1>2, <1>11 DEF Start, Verify, FenceFailure, Heartbeat, Crash, Fenced, Abandon, At
  <2>2. CASE Start(w)
    <3>1. Engaged(w) /\ "lookup" \in Steps /\ "finish" \in Steps
      BY <2>2 DEF Start, At, Engaged, Steps
    <3>2. Fenced(w, "lookup") => \A v \in Workers : Stays(v)
      BY <1>10, <3>1
    <3>3. ASSUME NEW retry \in BOOLEAN,
                 Become(w, [worker[w] EXCEPT !.step = "finish", !.retry = retry])
          PROVE  \A v \in Workers : Stays(v)
      BY <1>7, <3>1, <3>3
    <3>4. \A v \in Workers : Stays(v)
      BY <2>2, <3>2, <3>3 DEF Start
    <3> QED
      BY <1>8, <1>9, <2>1, <3>4
  <2>3. CASE Verify(w) \/ FenceFailure(w)
    <3>1. \A v \in Workers : Stays(v)
      BY <1>10, <2>3 DEF Verify, FenceFailure, At, Engaged, Steps
    <3> QED
      BY <1>8, <1>9, <2>1, <3>1
  <2>4. CASE Heartbeat(w) \/ Crash(w)
    <3>1. worker' = worker \/ Become(w, Idle)
      BY <2>4 DEF Heartbeat, Crash, Abandon
    <3>2. \A v \in Workers : Stays(v)
      BY <1>5, <3>1 DEF Stays, Engaged
    <3> QED
      BY <1>8, <1>9, <2>1, <3>2
  <2> QED
    BY <1>11, <2>2, <2>3, <2>4
<1>12. CASE Lookup(w) \/ Upstream(w) \/ Deliver(w)
  <2>1. job' = job /\ item' = item /\ Engaged(w)
    BY <1>12 DEF Lookup, Upstream, Deliver, At, Engaged
  <2>2. \/ GoTo(w, "begin") \/ GoTo(w, "verify") \/ GoTo(w, "complete")
        \/ \E charged \in BOOLEAN, retry \in BOOLEAN : GiveUp(w, charged, retry)
        \/ Become(w, [worker[w] EXCEPT !.step = "upstream", !.charged = TRUE])
    BY <1>12 DEF Lookup, Upstream, Deliver
  <2>3. \A v \in Workers : Stays(v)
    BY <1>6, <1>7, <2>1, <2>2 DEF Steps
  <2> QED
    BY <1>8, <1>9, <2>1, <2>3
<1>13. CASE Begin(w)
  <2>1. item' = item /\ Engaged(w) /\ j \in Jobs
    BY <1>2, <1>13 DEF Begin, Charge, At, Engaged
  <2>2. \/ \E charged \in BOOLEAN, retry \in BOOLEAN : GiveUp(w, charged, retry)
        \/ Become(w, [worker[w] EXCEPT !.step = "upstream", !.charged = TRUE])
    BY <1>13 DEF Begin, Charge
  <2>3. \A v \in Workers : Stays(v)
    BY <1>7, <2>1, <2>2 DEF Steps
  <2>4. \A k \in Jobs : job'[k].status = job[k].status
    <3>1. \A k \in Jobs : job'[k] \in {job[k], [job[k] EXCEPT !.settled = @ + Price, !.actual = @ + Price]}
      <4>1. CASE job' = job
        BY <4>1
      <4>2. CASE job' = [job EXCEPT ![j].settled = @ + Price, ![j].actual = @ + Price]
        BY <1>3, <2>1, <4>2
      <4> QED
        BY <1>13, <4>1, <4>2 DEF Begin, Charge
    <3> QED
      BY <1>3, <3>1 DEF JobRow
  <2> QED
    BY <1>8, <1>9, <2>1, <2>3, <2>4
<1>14. CASE Refund(w)
  <2>1. item' = item /\ Engaged(w) /\ GoTo(w, "finish")
    BY <1>14 DEF Refund, At, Engaged
  <2>2. \A v \in Workers : Stays(v)
    BY <1>6, <2>1 DEF Steps
  <2>3. \A k \in Jobs : job'[k] \in {job[k], [job[k] EXCEPT !.actual = @ - Price]}
    BY <1>3, <1>14 DEF Refund
  <2>4. \A k \in Jobs : job'[k].status = job[k].status
    BY <1>3, <2>3 DEF JobRow
  <2> QED
    BY <1>8, <1>9, <2>1, <2>2, <2>4
<1>15. CASE Settle(w)
  <2>1. job' = job /\ item' = item /\ \A v \in Workers : Stays(v)
    BY <1>5, <1>15 DEF Settle
  <2> QED
    BY <1>8, <1>9, <2>1
<1>16. ASSUME NEW jobs \in [Jobs -> JobRow], NEW row \in BudgetedRow, NEW funds,
              \A k \in Jobs : jobs[k].status = job[k].status, i \in Items,
              Aggregate({j}, jobs, [item EXCEPT ![i] = row], funds),
              job[j].status = "active", Held(w), ~Engaged(w)', \A v \in Workers : Stays(v)
       PROVE  Owners' /\ Active'
  <2> DEFINE rows == [item EXCEPT ![i] = row]
  <2>1. /\ rows \in [Items -> BudgetedRow] /\ j \in Jobs /\ {j} \in SUBSET Jobs /\ item' = rows
        /\ \A k \in Items : k # i => rows[k] = item[k]
    BY <1>3, <1>16 DEF Aggregate
  <2>2. Aggregate({j}, jobs, rows, funds)
    BY <1>16
  <2> HIDE DEF rows
  <2>3. \A k \in Items : ToCome(rows[k]) => \/ ToCome(item[k])
                                            \/ JobOf[k] = j /\ job[j].status # "cancelled"
    BY <1>16, <2>1
  <2>4. Active'
    BY <1>16, <2>1, <2>2, <2>3, OneActive
  <2>5. \A k \in Jobs : job'[k].status = "cancelled" <=> job[k].status = "cancelled"
    BY <1>16, <2>1, <2>2, AggregateCancels, ZenonT(40)
  <2>6. ASSUME NEW v \in Workers, Engaged(v)', worker[v].item \in Items, Owns(v),
               job[JobOf[worker[v].item]].status # "cancelled"
        PROVE  /\ Steady(item[worker[v].item], item'[worker[v].item])
               /\ job'[JobOf[worker[v].item]].status # "cancelled"
    <3>1. worker[v].item # i
      BY <1>16, <2>6 DEF Held, Owns, Leased
    <3>2. job'[JobOf[worker[v].item]].status # "cancelled"
      BY <1>3, <2>6, <2>5
    <3> QED
      BY <2>1, <2>6, <3>1, <3>2 DEF Steady
  <2> QED
    BY <1>1, <1>16, <2>4, <2>6, StepOwners
<1>17. CASE Finish(w)
  <2>1. Become(w, Idle) /\ i \in Items /\ j \in Jobs
    BY <1>2, <1>17 DEF Finish, At
  <2>2. (\A v \in Workers : Stays(v)) /\ ~Engaged(w)'
    BY <1>3, <1>5, <2>1 DEF Become, Engaged, Idle
  <2>3. CASE UNCHANGED <<account, job, item>>
    BY <1>8, <1>9, <2>2, <2>3
  <2>4. ASSUME NEW row \in BudgetedRow, NEW hold \in Int, Outcome(w, row, hold)
        PROVE  Owners' /\ Active'
    <3>1. /\ Reserved(j, hold) \in [Jobs -> JobRow]
          /\ \A k \in Jobs : Reserved(j, hold)[k].status = job[k].status
      BY <2>1, ReservedType
    <3>2. /\ Aggregate({j}, Reserved(j, hold), [item EXCEPT ![i] = row], Holding(hold))
          /\ job[j].status = "active" /\ Held(w)
      BY <2>4 DEF Outcome
    <3> QED
      BY <1>16, <2>1, <2>2, <3>1, <3>2
  <2> QED
    BY <1>17, <2>3, <2>4, FinishCases
<1>18. CASE Complete(w)
  <2>1. i \in Items /\ j \in Jobs
    BY <1>2, <1>18 DEF Complete, At
  <2>2. CASE Become(w, Idle) /\ UNCHANGED <<account, job, item>>
    BY <1>5, <1>8, <1>9, <2>2
  <2>3. CASE /\ GoTo(w, "settle") /\ Result(w) \in BudgetedRow
             /\ job[j].status = "active" /\ Held(w)
             /\ Aggregate({j}, job, [item EXCEPT ![i] = Result(w)], account)
    <3>1. (\A v \in Workers : Stays(v)) /\ ~Engaged(w)'
      BY <1>3, <1>5, <2>3 DEF GoTo, Become, Engaged, WorkerState
    <3> QED
      BY <1>3, <1>16, <2>1, <2>3, <3>1
  <2> QED
    BY <1>18, <2>2, <2>3, CompleteCases
<1> QED
  BY <1>11, <1>12, <1>13, <1>14, <1>15, <1>17, <1>18 DEF Work

\* Nobody at work holds an item that can be claimed.
LEMMA ClaimOwners ==
    ASSUME TypeOK, Owners, Active, NEW w \in Workers, NEW k \in Items, Claim(w, k)
    PROVE  Owners' /\ Active'
<1> DEFINE rows == [item EXCEPT ![k] = Claimed(item[k], w)]
           state == [Idle EXCEPT !.step = "claimed", !.item = k, !.run = item[k].run]
           j == JobOf[k]
<1>1. CancelledStep
  BY NextQuiet DEF Next
<1>2. /\ job \in [Jobs -> JobRow] /\ item \in [Items -> BudgetedRow]
      /\ \A i \in Items : item[i] \in ItemRow /\ JobOf[i] \in Jobs
      /\ worker \in [Workers -> WorkerState]
  BY JobOfType DEF TypeOK, BudgetedRow, BusyState
<1>3. rows \in [Items -> BudgetedRow]
  BY ClaimedBudgeted DEF Claim, Claimable, TypeOK
<1>4. /\ Aggregate({j}, job, rows, account) /\ item' = rows /\ j \in Jobs /\ {j} \in SUBSET Jobs
      /\ job[j].status = "active" /\ (item[k].status = "queued" \/ ~item[k].live)
      /\ worker' = [worker EXCEPT ![w] = state]
  BY <1>2 DEF Claim, Claimable, Aggregate
<1>5. /\ rows[k].status = "running" /\ rows[k].holder = w /\ rows[k].live
      /\ rows[k].run = item[k].run /\ \A i \in Items : i # k => rows[i] = item[i]
  BY <1>2 DEF Claimed, ItemRow
<1>6. state.item = k /\ state.run = item[k].run
  BY DEF Idle
<1> HIDE DEF rows, state
<1>7. \A i \in Items : ToCome(rows[i]) => \/ ToCome(item[i])
                                          \/ JobOf[i] = j /\ job[j].status # "cancelled"
  BY <1>4, <1>5
<1>8. Active'
  BY <1>2, <1>3, <1>4, <1>7, OneActive
<1>9. \A i \in Items : job[JobOf[i]].status # "cancelled" => job'[JobOf[i]].status # "cancelled"
  BY <1>2, <1>3, <1>4, AggregateCancels
<1>10. ASSUME NEW v \in Workers PROVE Owner(v)'
  <2>1. CASE v = w
    <3>1. worker'[v] = state
      BY <1>2, <1>4, <2>1
    <3>2. /\ worker'[v].item = k /\ worker'[v].run = item[k].run
          /\ item'[k].status = "running" /\ item'[k].holder = v /\ item'[k].live
          /\ item'[k].run = item[k].run
      BY <1>4, <1>5, <1>6, <2>1, <3>1
    <3>3. job'[JobOf[k]].status # "cancelled"
      BY <1>4, <1>9
    <3> QED
      BY <3>2, <3>3 DEF Owner, Owns, Leased
  <2>2. CASE v # w
    <3>1. worker'[v] = worker[v] /\ Stays(v)
      BY <1>2, <1>4, <2>2 DEF Stays, Engaged
    <3>2. Engaged(v)' => worker[v].item \in Items
      BY <3>1 DEF Stays, TypeOK, BusyState, Engaged
    <3>3. Engaged(v)' /\ job[JobOf[worker[v].item]].status # "cancelled" /\ Owns(v) => Survives(v)
      <4> SUFFICES ASSUME Engaged(v)', job[JobOf[worker[v].item]].status # "cancelled", Owns(v)
                   PROVE  Survives(v)
        OBVIOUS
      <4>1. item'[worker[v].item] = item[worker[v].item]
        BY <1>4, <1>5, <3>2 DEF Owns, Leased
      <4>2. job'[JobOf[worker[v].item]].status # "cancelled"
        BY <1>9, <3>2
      <4> QED
        BY <4>1, <4>2, SteadySurvives DEF Steady
    <3> QED
      BY <1>1, <3>1, <3>3, KeptOwner
  <2> QED
    BY <2>1, <2>2
<1> QED
  BY <1>8, <1>10 DEF Owners

\* The background takes items only from workers who are gone.
LEMMA BackgroundOwners ==
    ASSUME TypeOK, Owners, Active, "pause" \notin Env,
           \/ FailExhausted
           \/ \E i \in Items : LeaseExpires(i) \/ Reconcile(i) \/ \E r \in Runs : DeliverLate(i, r)
    PROVE  Owners' /\ Active'
<1>1. CancelledStep
  BY NextQuiet DEF Next
<1>2. /\ job \in [Jobs -> JobRow] /\ item \in [Items -> BudgetedRow]
      /\ \A i \in Items : item[i] \in ItemRow /\ JobOf[i] \in Jobs
  BY JobOfType DEF TypeOK, BudgetedRow
<1>3. worker' = worker /\ \A v \in Workers : Stays(v)
  BY DEF FailExhausted, LeaseExpires, Reconcile, DeliverLate, Stays, Engaged
<1>4. CASE FailExhausted
  <2> DEFINE js == {JobOf[i] : i \in Exhausted}
  <2>1. /\ Expired \in [Items -> BudgetedRow] /\ js \in SUBSET Jobs
        /\ Aggregate(js, job, Expired, account) /\ item' = Expired
    BY <1>4, ClosedBudgeted, ExhaustedJobs DEF Expired, TypeOK, FailExhausted, Aggregate
  <2>2. \A i \in Items : Expired[i] = item[i] \/ (~item[i].live /\ Expired[i].status = "failed")
    BY <1>2 DEF Expired, Exhausted, TimedOut, ItemRow
  <2> HIDE DEF js
  <2>3. \A i \in Items : ToCome(Expired[i]) => job[JobOf[i]].status = "active"
    BY <2>2 DEF ToCome, Active
  <2>4. Active'
    BY <1>2, <2>1, <2>3, AggregateActive
  <2>5. \A i \in Items : job[JobOf[i]].status # "cancelled" => job'[JobOf[i]].status # "cancelled"
    BY <1>2, <2>1, AggregateCancels
  <2>6. ASSUME NEW v \in Workers, Engaged(v)', worker[v].item \in Items, Owns(v),
               job[JobOf[worker[v].item]].status # "cancelled"
        PROVE  /\ Steady(item[worker[v].item], item'[worker[v].item])
               /\ job'[JobOf[worker[v].item]].status # "cancelled"
    BY <2>1, <2>2, <2>5, <2>6 DEF Steady, Owns, Leased
  <2> QED
    BY <1>1, <1>3, <2>4, <2>6, StepOwners
<1>5. ASSUME NEW k \in Items, LeaseExpires(k)
      PROVE  Owners' /\ Active'
  <2>1. /\ job' = job /\ Abandoned(k)
        /\ \A i \in Items : i # k => item'[i] = item[i]
        /\ \A i \in Items : item'[i].status = item[i].status
    BY <1>2, <1>5 DEF LeaseExpires, ItemRow
  <2>2. Active'
    BY <2>1, SameActive
  <2>3. ASSUME NEW v \in Workers, Engaged(v)', worker[v].item \in Items, Owns(v),
               job[JobOf[worker[v].item]].status # "cancelled"
        PROVE  /\ Steady(item[worker[v].item], item'[worker[v].item])
               /\ job'[JobOf[worker[v].item]].status # "cancelled"
    <3>1. worker[v].item # k
      BY <2>1, <2>3, BatchAssumption DEF Abandoned, Held, Owns, Leased
    <3> QED
      BY <2>1, <2>3, <3>1 DEF Steady
  <2> QED
    BY <1>1, <1>3, <2>2, <2>3, StepOwners
<1>6. ASSUME item' = item, \A j \in Jobs : job'[j].status = job[j].status
      PROVE  Owners' /\ Active'
  <2>1. Active'
    BY <1>6, SameActive
  <2> QED
    BY <1>1, <1>2, <1>3, <1>6, <2>1, StepOwners DEF Steady
<1>7. CASE \E i \in Items : Reconcile(i)
  BY <1>6, <1>7 DEF Reconcile
<1>8. ASSUME NEW i \in Items, NEW r \in Runs, DeliverLate(i, r)
      PROVE  Owners' /\ Active'
  <2>1. item' = item
    BY <1>8 DEF DeliverLate
  <2>2. \A j \in Jobs : job'[j] \in {job[j], [job[j] EXCEPT !.actual = @ + Price]}
    BY <1>2, <1>8 DEF DeliverLate
  <2>3. \A j \in Jobs : job'[j].status = job[j].status
    BY <1>2, <2>2 DEF JobRow
  <2> QED
    BY <1>6, <2>1, <2>3
<1> QED
  BY <1>4, <1>5, <1>7, <1>8

LEMMA NextOwners ==
    ASSUME TypeOK, Owners, Active, "pause" \notin Env, [Next]_vars
    PROVE  Owners' /\ Active'
<1>1. CASE UNCHANGED vars
  <2>1. /\ item' = item /\ job' = job /\ worker' = worker
        /\ \A v \in Workers : Owner(v)' <=> Owner(v)
    BY <1>1 DEF vars, Owner, Engaged, Owns, Leased
  <2> QED
    BY <2>1 DEF Owners, Active
<1> QED
  BY <1>1, MembersOwners, WorkOwners, ClaimOwners, BackgroundOwners DEF Next

LEMMA InitOwners == Init => Owners /\ Active
  BY DEF Init, Owners, Owner, Engaged, Idle, Active, ToCome, Created

\* Two workers are never at work on one item, unless its job is cancelled.
Exclusive ==
    \A v, w \in Workers :
        /\ Engaged(v) /\ Engaged(w) /\ worker[v].item = worker[w].item
        /\ job[JobOf[worker[w].item]].status # "cancelled"
        => v = w

\* Unless a worker outlives its lease, two workers are never at work on one item
\* of a job that is not cancelled: from its claim until it gives the item back a
\* worker is the one who holds the lease, also after crashes and takeovers.
THEOREM ExclusiveHolds ==
    ASSUME "pause" \notin Env
    PROVE  Spec => []Exclusive
<1>1. TypeOK /\ (Owners /\ Active) /\ [Next]_vars => (Owners /\ Active)'
  BY NextOwners
<1>2. Owners => Exclusive
  BY DEF Owners, Owner, Owns, Leased, Exclusive
<1> QED
  BY <1>1, <1>2, InitOwners, TypeCorrect, PTL DEF Spec

-----------------------------------------------------------------------------
(***************************************************************************)
(* What a worker knows of the task of its run, as long as it owns the item *)
(* and the job is not cancelled.                                           *)
(***************************************************************************)

\* The executors differ: the standard one reads the task before it begins, and
\* a failing read is all that hides the task from it.
Certain == Executor = "standard" /\ "lookup" \notin Env
PaidSteps == {"upstream", "verify", "deliver", "complete"}
PaidStatus == {"running", "success"}
Knowing(state, status) ==
    /\ state.step \in PaidSteps => status \in PaidStatus
    /\ Certain => /\ state.step = "begin" => status = "none"
                  /\ state.step \in {"fence", "finish"} /\ state.retry /\ ~state.charged
                     => status = "none"
                  /\ state.step = "refund" => state.charged
Knows(w) == Knowing(worker[w], TaskOf(w))
Known(w) == Engaged(w) /\ job[JobOf[worker[w].item]].status # "cancelled" => Knows(w)

\* Who moves the task of a run, and how.
For(w, i, r) == worker[w].item = i /\ worker[w].run = r
ChargedBy(w, i, r) == At(w, "begin") /\ Charge(w) /\ For(w, i, r)
RefundedBy(w, i, r) == Refund(w) /\ For(w, i, r)

LEMMA TaskMoves ==
    ASSUME TypeOK, [Next]_vars, NEW i \in Items, NEW r \in Runs, task'[i][r] # task[i][r]
    PROVE  \/ task[i][r] = "none" /\ \E w \in Workers : ChargedBy(w, i, r)
           \/ task[i][r] = "running" /\ \E w \in Workers : RefundedBy(w, i, r)
           \/ task[i][r] \in {"running", "failed"} /\ task'[i][r] = "success"
<1>1. task \in [Items -> [Runs -> TaskStatus]] /\ worker \in [Workers -> BusyState]
  BY DEF TypeOK
<1>2. ASSUME NEW k \in Items, NEW q \in Runs, NEW status, task' = [task EXCEPT ![k][q] = status]
      PROVE  k = i /\ q = r /\ task'[i][r] = status
  BY <1>1, <1>2
<1>3. ASSUME NEW w \in Workers, Work(w) /\ task' # task
      PROVE  \/ task[i][r] = "none" /\ ChargedBy(w, i, r)
             \/ task[i][r] = "running" /\ RefundedBy(w, i, r)
             \/ task[i][r] = "running" /\ task'[i][r] = "success"
  <2> DEFINE k == worker[w].item
             q == worker[w].run
  <2>1. worker[w].step # "idle" => k \in Items /\ q \in Runs
    BY <1>1 DEF BusyState, WorkerState
  <2>2. CASE Begin(w)
    <3>1. Charge(w) /\ At(w, "begin") /\ k \in Items /\ q \in Runs
      BY <1>3, <2>1, <2>2 DEF Begin, At
    <3>2. task' = [task EXCEPT ![k][q] = "running"] /\ task[k][q] = "none"
      BY <3>1 DEF Charge, TaskOf
    <3> QED
      BY <1>2, <3>1, <3>2 DEF ChargedBy, For
  <2>3. CASE Refund(w)
    <3>1. k \in Items /\ q \in Runs
      BY <2>1, <2>3 DEF Refund, At
    <3>2. task' = [task EXCEPT ![k][q] = "failed"] /\ task[k][q] = "running"
      BY <1>3, <2>3 DEF Refund, TaskOf, Refundable
    <3> QED
      BY <1>2, <2>3, <3>1, <3>2 DEF RefundedBy, For
  <2>4. CASE Settle(w)
    <3>1. k \in Items /\ q \in Runs
      BY <2>1, <2>4 DEF Settle, At
    <3>2. task' = [task EXCEPT ![k][q] = IF task[k][q] = "running" THEN "success" ELSE task[k][q]]
      BY <1>1, <2>4, <3>1 DEF Settle
    <3> QED
      BY <1>2, <3>1, <3>2, ZenonT(40)
  <2> QED
    BY <1>3, <2>2, <2>3, <2>4 DEF Work, Start, Lookup, Upstream, Verify, Deliver, Complete,
                                  FenceFailure, Finish
<1>4. ASSUME NEW k \in Items, Reconcile(k)
      PROVE  task[i][r] = "running" /\ task'[i][r] = "success"
  <2>1. item[k].run \in Runs
    BY DEF TypeOK, BudgetedRow, ItemRow
  <2> QED
    BY <1>2, <1>4, <2>1 DEF Reconcile
<1>5. ASSUME NEW k \in Items, NEW q \in Runs, DeliverLate(k, q)
      PROVE  task[i][r] = "failed" /\ task'[i][r] = "success"
  BY <1>2, <1>5 DEF DeliverLate
<1>6. task' # task
  OBVIOUS
<1>7. Next
  BY <1>6 DEF vars
<1> QED
  BY <1>3, <1>4, <1>5, <1>6, <1>7
     DEF Next, Members, Create, Cancel, RetryJob, RetryItem, SetPrimary, ReviewItem, FailExhausted,
         Heartbeat, Crash, Claim, LeaseExpires

\* Two workers at work on one item work for a cancelled job.
LEMMA OneWorker ==
    ASSUME Owners, NEW v \in Workers, NEW w \in Workers, Engaged(v), Engaged(w),
           worker[v].item = worker[w].item, job[JobOf[worker[w].item]].status # "cancelled"
    PROVE  v = w
  BY DEF Owners, Owner, Owns, Leased

\* The task of the run of a worker is moved by nobody else, except to succeed.
LEMMA KeptKnown ==
    ASSUME TypeOK, Owners, [Next]_vars, CancelledStep, NEW v \in Workers, Known(v),
           worker'[v] = worker[v], ~ChargedBy(v, worker[v].item, worker[v].run),
           ~RefundedBy(v, worker[v].item, worker[v].run)
    PROVE  Known(v)'
<1> SUFFICES ASSUME Engaged(v)', job'[JobOf[worker'[v].item]].status # "cancelled"
             PROVE  Knows(v)'
  BY DEF Known
<1> DEFINE i == worker[v].item
           r == worker[v].run
<1>1. Engaged(v) /\ i \in Items /\ r \in Runs /\ JobOf[i] \in Jobs
  BY JobOfType DEF Engaged, TypeOK, BusyState, WorkerState
<1>2. job[JobOf[i]].status # "cancelled"
  BY <1>1 DEF CancelledStep
<1>3. Knowing(worker[v], task[i][r])
  BY <1>1, <1>2 DEF Known, Knows, TaskOf
<1>4. Knows(v)' <=> Knowing(worker[v], task'[i][r])
  BY DEF Knows, Knowing, TaskOf
<1>5. ASSUME NEW w \in Workers, ChargedBy(w, i, r) \/ RefundedBy(w, i, r)
      PROVE  FALSE
  <2>1. Engaged(w) /\ worker[w].item = i
    BY <1>5 DEF ChargedBy, RefundedBy, For, At, Refund, Engaged
  <2>2. v = w
    BY <1>1, <1>2, <2>1, OneWorker
  <2> QED
    BY <1>5, <2>2
<1>6. CASE task'[i][r] = task[i][r]
  BY <1>3, <1>4, <1>6
<1>7. CASE task[i][r] \in {"running", "failed"} /\ task'[i][r] = "success"
  BY <1>3, <1>4, <1>7 DEF Knowing, PaidStatus
<1> QED
  BY <1>1, <1>5, <1>6, <1>7, TaskMoves

\* A step of its claim tells a worker no more than what is true.
LEMMA WorkKnows ==
    ASSUME TypeOK, NEW w \in Workers, Knows(w), Work(w), Engaged(w)'
    PROVE  Knows(w)'
<1> DEFINE i == worker[w].item
           r == worker[w].run
<1>1. /\ worker \in [Workers -> WorkerState] /\ worker[w] \in WorkerState
      /\ task \in [Items -> [Runs -> TaskStatus]]
  BY DEF TypeOK, BusyState
<1>2. worker[w].step # "idle" => i \in Items /\ r \in Runs /\ task[i][r] \in TaskStatus
  BY <1>1 DEF TypeOK, BusyState, WorkerState
<1>3. Knowing(worker[w], task[i][r])
  BY DEF Knows, TaskOf
<1>4. ASSUME NEW step \in Steps, GoTo(w, step)
      PROVE  /\ worker'[w].step = step /\ worker'[w].item = i /\ worker'[w].run = r
             /\ worker'[w].charged = worker[w].charged /\ worker'[w].retry = worker[w].retry
  BY <1>1, <1>4 DEF GoTo, Become, WorkerState
<1>5. ASSUME NEW charged \in BOOLEAN, NEW retry \in BOOLEAN, GiveUp(w, charged, retry)
      PROVE  /\ worker'[w].step = "fence" /\ worker'[w].item = i /\ worker'[w].run = r
             /\ worker'[w].charged = charged /\ worker'[w].retry = retry
  BY <1>1, <1>5 DEF GiveUp, Become, WorkerState
<1>6. ASSUME Become(w, [worker[w] EXCEPT !.step = "upstream", !.charged = TRUE])
      PROVE  worker'[w].step = "upstream" /\ worker'[w].item = i /\ worker'[w].run = r
  BY <1>1, <1>6 DEF Become, WorkerState
<1>7. ASSUME NEW retry, Become(w, [worker[w] EXCEPT !.step = "finish", !.retry = retry])
      PROVE  /\ worker'[w].step = "finish" /\ worker'[w].item = i /\ worker'[w].run = r
             /\ worker'[w].retry = retry
  BY <1>1, <1>7 DEF Become, WorkerState
<1>8. ~Become(w, Idle) /\ ~Abandon(w)
  BY <1>1 DEF Abandon, Become, Engaged, Idle
<1>9. Knows(w)' <=> Knowing(worker'[w], task'[worker'[w].item][worker'[w].run])
  BY DEF Knows, Knowing, TaskOf
<1>10. CASE Start(w)
  <2>1. CASE GoTo(w, "lookup")
    BY <1>4, <1>9, <2>1 DEF Knowing, PaidSteps, Steps
  <2>2. ASSUME NEW retry \in BOOLEAN, retry => "lookup" \in Env,
               Become(w, [worker[w] EXCEPT !.step = "finish", !.retry = retry])
        PROVE  Knows(w)'
    BY <1>7, <1>9, <2>2 DEF Knowing, PaidSteps, Certain
  <2> QED
    BY <1>8, <1>10, <2>1, <2>2 DEF Start, Fenced
<1>11. CASE Lookup(w)
  <2>1. task' = task
    BY <1>11 DEF Lookup
  <2>2. CASE ~Certain /\ (GoTo(w, "begin") \/ \E retry \in BOOLEAN : GiveUp(w, FALSE, retry))
    BY <1>4, <1>5, <1>9, <2>2 DEF Knowing, PaidSteps, Steps
  <2>3. CASE TaskOf(w) = "none" /\ GoTo(w, "begin")
    BY <1>4, <1>9, <2>1, <2>3 DEF Knowing, PaidSteps, Steps, TaskOf
  <2>4. CASE TaskOf(w) = "none" /\ \E retry \in BOOLEAN : GiveUp(w, FALSE, retry)
    BY <1>5, <1>9, <2>1, <2>4 DEF Knowing, PaidSteps, TaskOf
  <2>5. CASE \E retry \in BOOLEAN : GiveUp(w, TRUE, retry)
    BY <1>5, <1>9, <2>5 DEF Knowing, PaidSteps
  <2>6. CASE /\ Resumable(TaskOf(w))
             /\ Become(w, [worker[w] EXCEPT !.step = "upstream", !.charged = TRUE])
    BY <1>6, <1>9, <2>1, <2>6 DEF Knowing, PaidStatus, TaskOf, Resumable
  <2> QED
    BY <1>11, <2>2, <2>3, <2>4, <2>5, <2>6 DEF Lookup, Certain
<1>12. CASE Begin(w)
  <2>1. i \in Items /\ r \in Runs /\ task[i][r] \in TaskStatus /\ worker[w].step = "begin"
    BY <1>2, <1>12 DEF Begin, At
  <2>2. CASE Charge(w)
    <3>1. task'[i][r] = "running"
      BY <1>1, <2>1, <2>2 DEF Charge
    <3> QED
      BY <1>6, <1>9, <2>2, <3>1 DEF Charge, Knowing, PaidStatus
  <2>3. CASE task' = task /\ TaskOf(w) = "none" /\ GiveUp(w, FALSE, TRUE)
    BY <1>5, <1>9, <2>3 DEF Knowing, PaidSteps, TaskOf
  <2>4. CASE /\ task' = task /\ Resumable(TaskOf(w))
             /\ Become(w, [worker[w] EXCEPT !.step = "upstream", !.charged = TRUE])
    BY <1>6, <1>9, <2>4 DEF Knowing, PaidStatus, TaskOf, Resumable
  <2>5. CASE TaskOf(w) \in {"success", "failed"} /\ \E retry \in BOOLEAN : GiveUp(w, FALSE, retry)
    <3>1. ~Certain
      BY <1>3, <2>1, <2>5 DEF Knowing, TaskOf
    <3> QED
      BY <1>5, <1>9, <2>5, <3>1 DEF Knowing, PaidSteps
  <2> QED
    BY <1>12, <2>2, <2>3, <2>4, <2>5 DEF Begin
<1>13. CASE Upstream(w) \/ Deliver(w)
  <2>1. task' = task /\ worker[w].step \in PaidSteps
    BY <1>13 DEF Upstream, Deliver, At, PaidSteps
  <2>2. CASE GoTo(w, "verify") \/ GoTo(w, "complete")
    BY <1>3, <1>4, <1>9, <2>1, <2>2 DEF Knowing, PaidSteps, Steps
  <2>3. CASE \E retry \in BOOLEAN : GiveUp(w, TRUE, retry)
    BY <1>5, <1>9, <2>3 DEF Knowing, PaidSteps
  <2> QED
    BY <1>13, <2>2, <2>3 DEF Upstream, Deliver
<1>14. CASE Verify(w)
  <2>1. task' = task /\ worker[w].step \in PaidSteps /\ GoTo(w, "deliver")
    BY <1>8, <1>14 DEF Verify, At, PaidSteps, Fenced
  <2> QED
    BY <1>3, <1>4, <1>9, <2>1 DEF Knowing, PaidSteps, Steps
<1>15. CASE FenceFailure(w)
  <2>1. /\ task' = task /\ worker[w].step = "fence"
        /\ GoTo(w, IF worker[w].charged THEN "refund" ELSE "finish")
    BY <1>8, <1>15 DEF FenceFailure, At, Fenced
  <2>2. CASE worker[w].charged
    BY <1>4, <1>9, <2>1, <2>2 DEF Knowing, PaidSteps, Steps
  <2>3. CASE ~worker[w].charged
    BY <1>3, <1>4, <1>9, <2>1, <2>3 DEF Knowing, PaidSteps, Steps
  <2> QED
    BY <2>2, <2>3
<1>16. CASE Refund(w)
  BY <1>3, <1>4, <1>9, <1>16 DEF Refund, At, Knowing, PaidSteps, Steps
<1>17. CASE Complete(w)
  BY <1>1, <1>8, <1>17 DEF Complete, GoTo, Become, Engaged, WorkerState
<1> QED
  BY <1>8, <1>10, <1>11, <1>12, <1>13, <1>14, <1>15, <1>16, <1>17 DEF Work, Settle, Finish

\* A worker never changes its claim while it works on it.
LEMMA WorkStays ==
    ASSUME TypeOK, NEW w \in Workers, Work(w)
    PROVE  Stays(w)
<1>1. worker \in [Workers -> WorkerState] /\ worker[w] \in WorkerState
  BY DEF TypeOK, BusyState
<1>2. worker[w].step \notin {"idle", "settle"} <=> Engaged(w)
  BY DEF Engaged
<1>3. Become(w, Idle) => Stays(w)
  BY <1>1 DEF Become, Idle, Stays, Engaged
<1>4. ASSUME NEW state, Become(w, state), Engaged(w),
             state.item = worker[w].item, state.run = worker[w].run
      PROVE  Stays(w)
  BY <1>1, <1>4 DEF Become, Stays
<1>5. ASSUME NEW step, Engaged(w), GoTo(w, step)
      PROVE  Stays(w)
  BY <1>1, <1>4, <1>5 DEF GoTo, WorkerState
<1>6. ASSUME NEW charged, NEW retry, Engaged(w), GiveUp(w, charged, retry)
      PROVE  Stays(w)
  BY <1>1, <1>4, <1>6 DEF GiveUp, WorkerState
<1>7. ASSUME Engaged(w), Become(w, [worker[w] EXCEPT !.step = "upstream", !.charged = TRUE])
      PROVE  Stays(w)
  BY <1>1, <1>4, <1>7 DEF WorkerState
<1>8. ASSUME NEW retry, Engaged(w),
             Become(w, [worker[w] EXCEPT !.step = "finish", !.retry = retry])
      PROVE  Stays(w)
  BY <1>1, <1>4, <1>8 DEF WorkerState
<1>9. CASE Start(w)
  BY <1>2, <1>3, <1>5, <1>8, <1>9 DEF Start, At, Fenced, Abandon
<1>10. CASE Verify(w) \/ FenceFailure(w)
  BY <1>2, <1>3, <1>5, <1>10 DEF Verify, FenceFailure, At, Fenced, Abandon
<1>11. CASE Refund(w) \/ Complete(w)
  BY <1>2, <1>3, <1>5, <1>11 DEF Refund, Complete, At
<1>12. CASE Settle(w) \/ Finish(w)
  BY <1>3, <1>12 DEF Settle, Finish
<1>13. CASE Upstream(w) \/ Deliver(w)
  BY <1>2, <1>5, <1>6, <1>13 DEF Upstream, Deliver, At
<1>14. CASE Lookup(w)
  BY <1>2, <1>5, <1>6, <1>7, <1>14 DEF Lookup, At
<1>15. CASE Begin(w)
  BY <1>2, <1>6, <1>7, <1>15 DEF Begin, Charge, At
<1> QED
  BY <1>9, <1>10, <1>11, <1>12, <1>13, <1>14, <1>15 DEF Work

LEMMA NextKnown ==
    ASSUME TypeOK, Owners, [Next]_vars, \A v \in Workers : Known(v)
    PROVE  \A v \in Workers : Known(v)'
<1>1. CancelledStep
  <2>1. CASE UNCHANGED vars
    BY <2>1 DEF vars, CancelledStep
  <2> QED
    BY <2>1, NextQuiet
<1> SUFFICES ASSUME NEW v \in Workers PROVE Known(v)'
  OBVIOUS
<1>2. worker \in [Workers -> BusyState]
  BY DEF TypeOK
<1>3. ASSUME worker'[v] = worker[v]
      PROVE  Known(v)'
  <2>1. \A i, r : ~ChargedBy(v, i, r) /\ ~RefundedBy(v, i, r)
    <3>1. worker[v] \in WorkerState /\ worker \in [Workers -> BusyState]
      BY <1>2 DEF BusyState
    <3>2. At(v, "begin") => ~Charge(v)
      BY <1>3, <3>1, ZenonT(40) DEF Charge, At, Become, WorkerState
    <3>3. ~Refund(v)
      BY <1>3, <3>1 DEF Refund, At, GoTo, Become, WorkerState
    <3> QED
      BY <3>2, <3>3 DEF ChargedBy, RefundedBy
  <2> QED
    BY <1>1, <1>3, <2>1, KeptKnown
<1>4. ASSUME NEW w \in Workers, Work(w) \/ Heartbeat(w) \/ Crash(w) \/ \E i \in Items : Claim(w, i)
      PROVE  w # v => worker'[v] = worker[v]
  BY <1>2, <1>4 DEF Work, Start, Lookup, Begin, Charge, Upstream, Verify, Deliver, Complete, Settle,
                    FenceFailure, Refund, Finish, Heartbeat, Crash, Claim, Fenced, Abandon, GoTo,
                    GiveUp, Become
<1>5. CASE Work(v)
  <2> SUFFICES ASSUME Engaged(v)', job'[JobOf[worker'[v].item]].status # "cancelled"
               PROVE  Knows(v)'
    BY DEF Known
  <2>1. Engaged(v) /\ worker'[v].item = worker[v].item
    BY <1>5, WorkStays DEF Stays
  <2>2. JobOf[worker[v].item] \in Jobs
    BY <1>2, <2>1, JobOfType DEF Engaged, BusyState
  <2>3. job[JobOf[worker[v].item]].status # "cancelled"
    BY <1>1, <2>1, <2>2 DEF CancelledStep
  <2> QED
    BY <1>5, <2>1, <2>3, WorkKnows DEF Known
<1>6. CASE Heartbeat(v) \/ Crash(v)
  <2>1. worker'[v] = worker[v] \/ worker'[v] = Idle
    BY <1>2, <1>6 DEF Heartbeat, Crash, Abandon, Become
  <2> QED
    BY <1>3, <2>1 DEF Known, Engaged, Idle
<1>7. CASE \E i \in Items : Claim(v, i)
  <2>1. worker'[v].step = "claimed"
    BY <1>2, <1>7 DEF Claim, Idle
  <2> QED
    BY <2>1 DEF Known, Knows, Knowing, PaidSteps
<1>8. CASE \/ Members \/ FailExhausted \/ UNCHANGED vars
           \/ \E i \in Items : LeaseExpires(i) \/ Reconcile(i) \/ \E r \in Runs : DeliverLate(i, r)
  <2>1. worker' = worker
    BY <1>8 DEF Members, Create, Cancel, RetryJob, RetryItem, SetPrimary, ReviewItem, FailExhausted,
                LeaseExpires, Reconcile, DeliverLate, vars
  <2> QED
    BY <1>3, <2>1
<1> QED
  BY <1>3, <1>4, <1>5, <1>6, <1>7, <1>8 DEF Next

LEMMA InitKnown == Init => \A w \in Workers : Known(w)
  BY DEF Init, Known, Engaged, Idle

\* An item is completed by a worker at the end of its claim.
CompletedBy(w, k) == /\ worker[w].step = "complete" /\ worker[w].item = k /\ Held(w)
                     /\ job[JobOf[k]].status = "active" /\ task' = task

LEMMA CompletedMoves ==
    ASSUME TypeOK, [Next]_vars, NEW k \in Items, item'[k].status = "completed"
    PROVE  /\ item'[k].run = item[k].run
           /\ item[k].status = "completed" \/ \E w \in Workers : CompletedBy(w, k)
<1> DEFINE Same(row) == row.status = item[k].status /\ row.run = item[k].run
<1>1. /\ item[k] \in ItemRow /\ item \in [Items -> BudgetedRow]
      /\ worker \in [Workers -> BusyState]
  BY DEF TypeOK, BudgetedRow
<1>2. ASSUME Same(item'[k])
      PROVE  item'[k].run = item[k].run /\ item[k].status = "completed"
  BY <1>2
<1>3. CASE Members
  <2>1. /\ Cancelled(item[k]).status # "completed" \/ Same(Cancelled(item[k]))
        /\ Rerun(item[k]).status # "completed" /\ Created.status # "completed"
        /\ \A verdict : Same(Reviewed(item[k], verdict))
        /\ \A flag : Same([item[k] EXCEPT !.primary = flag])
    BY <1>1 DEF Cancelled, Rerun, Created, Reviewed, ItemRow
  <2>2. \/ item'[k] = item[k] \/ item'[k] = Cancelled(item[k]) \/ item'[k] = Rerun(item[k])
        \/ item'[k] = Created \/ \E verdict : item'[k] = Reviewed(item[k], verdict)
        \/ \E flag : item'[k] = [item[k] EXCEPT !.primary = flag]
    <3>1. CASE \E j \in Jobs : Create(j) \/ Cancel(j) \/ RetryJob(j)
      BY <1>1, <3>1 DEF Create, Cancel, RetryJob, Aggregate
    <3>2. CASE \E i \in Items : RetryItem(i)
      <4>1. PICK i \in Items : RetryItem(i)
        BY <3>2
      <4>2. item' = [item EXCEPT ![i] = Rerun(@)]
        BY <4>1 DEF RetryItem, Aggregate
      <4> QED
        BY <1>1, <4>2
    <3>3. CASE \E i \in Items : SetPrimary(i)
      BY <1>1, <3>3 DEF SetPrimary
    <3>4. CASE \E i \in Items, v \in {"approved", "rejected"} : ReviewItem(i, v)
      <4>1. PICK i \in Items, v \in {"approved", "rejected"} : ReviewItem(i, v)
        BY <3>4
      <4>2. item' = [item EXCEPT ![i] = Reviewed(@, v)]
        BY <4>1 DEF ReviewItem, Aggregate
      <4> QED
        BY <1>1, <4>2
    <3> QED
      BY <1>3, <3>1, <3>2, <3>3, <3>4 DEF Members
  <2> QED
    BY <1>2, <2>1, <2>2
<1>4. CASE FailExhausted
  <2>1. item'[k] = item[k] \/ item'[k] = TimedOut(item[k])
    BY <1>4 DEF FailExhausted, Aggregate, Expired
  <2> QED
    BY <1>1, <1>2, <2>1 DEF TimedOut, ItemRow
<1>5. ASSUME NEW w \in Workers, NEW i \in Items, Claim(w, i)
      PROVE  item'[k].run = item[k].run /\ item[k].status = "completed"
  <2>1. item'[k] = item[k] \/ item'[k] = Claimed(item[k], w)
    BY <1>1, <1>5 DEF Claim, Aggregate
  <2> QED
    BY <1>1, <1>2, <2>1 DEF Claimed, ItemRow
<1>6. ASSUME NEW w \in Workers, Work(w) \/ Heartbeat(w) \/ Crash(w)
      PROVE  /\ item'[k].run = item[k].run
             /\ item[k].status = "completed" \/ CompletedBy(w, k)
  <2>1. CASE Finish(w)
    <3>1. \/ item'[k] = item[k]
          \/ item'[k] = Requeued(item[k]) \/ item'[k] = Returned(item[k], "failed")
      BY <1>1, <2>1, FinishCases DEF Outcome, Failed, Aggregate
    <3> QED
      BY <1>1, <1>2, <3>1 DEF Requeued, Returned, ItemRow
  <2>2. CASE Complete(w)
    <3>1. CASE item'[k] = item[k]
      BY <1>2, <3>1
    <3>2. CASE item'[k] # item[k]
      <4>1. CompletedBy(w, k) /\ item'[k] = Delivered(item[k])
        BY <1>1, <2>2, <3>2, CompleteCases DEF CompletedBy, Result, Aggregate
      <4> QED
        BY <1>1, <4>1 DEF Delivered, Returned, ItemRow
    <3> QED
      BY <3>1, <3>2
  <2>3. CASE item' = item \/ Renew(w)
    <3>1. item'[k] = item[k] \/ item'[k] = [item[k] EXCEPT !.live = TRUE]
      BY <1>1, <2>3 DEF Renew
    <3> QED
      BY <1>1, <1>2, <3>1 DEF ItemRow
  <2> QED
    BY <1>6, <2>1, <2>2, <2>3 DEF Work, Start, Lookup, Begin, Charge, Upstream, Verify, Deliver,
                                  Settle, FenceFailure, Refund, Heartbeat, Crash, Fenced, Abandon
<1>7. ASSUME NEW i \in Items, LeaseExpires(i)
      PROVE  item'[k].run = item[k].run /\ item[k].status = "completed"
  <2>1. item'[k] = item[k] \/ item'[k] = [item[k] EXCEPT !.live = FALSE]
    BY <1>1, <1>7 DEF LeaseExpires
  <2> QED
    BY <1>1, <1>2, <2>1 DEF ItemRow
<1>8. CASE \/ \E i \in Items : Reconcile(i) \/ \E r \in Runs : DeliverLate(i, r)
           \/ UNCHANGED vars
  BY <1>2, <1>8 DEF Reconcile, DeliverLate, vars
<1> QED
  BY <1>3, <1>4, <1>5, <1>6, <1>7, <1>8 DEF Next

LEMMA NextCompletedPaid ==
    ASSUME TypeOK, Owners, [Next]_vars, \A w \in Workers : Known(w), CompletedPaid
    PROVE  CompletedPaid'
<1> SUFFICES ASSUME NEW i \in Items, item'[i].status = "completed"
             PROVE  task'[i][item'[i].run] \in PaidStatus
  BY DEF CompletedPaid, PaidStatus
<1> DEFINE r == item[i].run
<1>1. item'[i].run = r /\ r \in Runs
  BY CompletedMoves DEF TypeOK, BudgetedRow, ItemRow
<1>2. CASE item[i].status = "completed"
  <2>1. task[i][r] \in PaidStatus
    BY <1>2 DEF CompletedPaid, PaidStatus
  <2>2. \A w \in Workers : ~RefundedBy(w, i, r)
    <3> SUFFICES ASSUME NEW w \in Workers, RefundedBy(w, i, r) PROVE FALSE
      OBVIOUS
    <3>1. Engaged(w) /\ worker[w].item = i
      BY DEF RefundedBy, Refund, At, For, Engaged
    <3> QED
      BY <1>2, <3>1 DEF Owners, Owner, Owns, Leased
  <2> QED
    BY <1>1, <2>1, <2>2, TaskMoves DEF PaidStatus
<1>3. ASSUME NEW w \in Workers, CompletedBy(w, i)
      PROVE  task'[i][r] \in PaidStatus
  <2>1. /\ Engaged(w) /\ worker[w].item = i /\ worker[w].step \in PaidSteps
        /\ job[JobOf[i]].status # "cancelled" /\ task' = task
    BY <1>3 DEF CompletedBy, Engaged, PaidSteps
  <2>2. worker[w].run = r
    BY <2>1 DEF Owners, Owner, Owns, Leased
  <2>3. Knows(w)
    BY <2>1 DEF Known
  <2> QED
    BY <2>1, <2>2, <2>3 DEF Knows, Knowing, TaskOf
<1> QED
  BY <1>1, <1>2, <1>3, CompletedMoves

\* Unless a worker outlives its lease, a completed item was paid for, with either
\* executor, whatever crashes, fails to read, is cancelled or arrives late.
THEOREM CompletedPaidHolds ==
    ASSUME "pause" \notin Env
    PROVE  Spec => []CompletedPaid
<1> DEFINE Inv == Owners /\ Active /\ CompletedPaid /\ \A w \in Workers : Known(w)
<1>1. Init => Inv
  <2>1. Init => CompletedPaid
    BY DEF Init, CompletedPaid, Created
  <2> QED
    BY <2>1, InitOwners, InitKnown
<1>2. TypeOK /\ Inv /\ [Next]_vars => Inv'
  BY NextOwners, NextKnown, NextCompletedPaid
<1>3. Inv => CompletedPaid
  OBVIOUS
<1> HIDE DEF Inv
<1> QED
  BY <1>1, <1>2, <1>3, TypeCorrect, PTL DEF Spec

-----------------------------------------------------------------------------
(***************************************************************************)
(* The hold of a job covers the runs it has still to charge.               *)
(***************************************************************************)

\* The items of a job whose run is to be charged, for some rows and tasks.
OwedIn(j, rows, tasks) ==
    {i \in Items : JobOf[i] = j /\ ToCome(rows[i]) /\ tasks[i][rows[i].run] = "none"}
Over(j, rows) == \A i \in Items : JobOf[i] = j => ~ToCome(rows[i])
Covered(j, row, rows, tasks) ==
    /\ Price * Cardinality(OwedIn(j, rows, tasks)) <= Outstanding(row)
    /\ Over(j, rows) => Outstanding(row) = 0

LEMMA CoveredJobs ==
    /\ Coverage <=> \A j \in Jobs : Covered(j, job[j], item, task)
    /\ Coverage' <=> \A j \in Jobs : Covered(j, job'[j], item', task')
<1>1. \A j \in Jobs : Owed(j) = OwedIn(j, item, task) /\ Owed(j)' = OwedIn(j, item', task')
  BY DEF Owed, OwedIn, ItemsOf, Pending, ToCome
<1>2. \A j \in Jobs : /\ (ItemsOf(j) \cap Pending = {}) <=> Over(j, item)
                      /\ (ItemsOf(j) \cap Pending = {})' <=> Over(j, item')
  BY DEF Over, ItemsOf, Pending, ToCome
<1> QED
  BY <1>1, <1>2 DEF Coverage, Covered

\* The prices of fewer items, or of some more.
LEMMA PriceMore ==
    ASSUME NEW A \in SUBSET Items, NEW B \in SUBSET Items, NEW C \in SUBSET Items,
           A \subseteq B \cup C
    PROVE  /\ Price * Cardinality(A) \in Nat /\ Price * Cardinality(B) \in Nat
           /\ Price * Cardinality(C) \in Nat
           /\ Price * Cardinality(A) <= Price * Cardinality(B) + Price * Cardinality(C)
<1>1. IsFiniteSet(A) /\ IsFiniteSet(B) /\ IsFiniteSet(C) /\ IsFiniteSet(B \cup C)
  BY FS_Subset, FS_Union, BatchAssumption
<1>2. /\ Cardinality(A) \in Nat /\ Cardinality(B) \in Nat /\ Cardinality(C) \in Nat
      /\ Cardinality(B \cap C) \in Nat
  BY <1>1, FS_CardinalityType, FS_Subset
<1>3. Cardinality(A) <= Cardinality(B \cup C)
  BY <1>1, FS_Subset
<1>4. Cardinality(B \cup C) = Cardinality(B) + Cardinality(C) - Cardinality(B \cap C)
  BY <1>1, FS_Union
<1>5. Cardinality(A) <= Cardinality(B) + Cardinality(C)
  BY <1>2, <1>3, <1>4
<1> DEFINE a == Cardinality(A)
           b == Cardinality(B)
           c == Cardinality(C)
<1>6. a \in Nat /\ b \in Nat /\ c \in Nat /\ a <= b + c /\ Price \in Nat
  BY <1>2, <1>5, BatchAssumption
<1> HIDE DEF a, b, c
<1>7. \A p \in Nat : p * a \in Nat /\ p * b \in Nat /\ p * c \in Nat /\ p * a <= p * b + p * c
  BY <1>6
<1> QED
  BY <1>6, <1>7 DEF a, b, c

LEMMA PriceFewer ==
    ASSUME NEW A \in SUBSET Items, NEW B \in SUBSET Items, A \subseteq B
    PROVE  /\ Price * Cardinality(A) \in Nat /\ Price * Cardinality(B) \in Nat
           /\ Price * Cardinality(A) <= Price * Cardinality(B)
<1>1. {} \in SUBSET Items /\ A \subseteq B \cup {}
  OBVIOUS
<1>2. Price * Cardinality({}) = 0
  BY FS_EmptySet, BatchAssumption
<1> QED
  BY <1>1, <1>2, PriceMore

LEMMA PriceOne ==
    /\ Price * Cardinality({}) = 0
    /\ \A i \in Items : Price * Cardinality({i}) = Price
<1>1. Cardinality({}) = 0 /\ \A i \in Items : Cardinality({i}) = 1
  BY FS_EmptySet, FS_Singleton
<1>2. Price \in Nat
  BY BatchAssumption
<1> QED
  BY <1>1, <1>2

LEMMA OutstandingType ==
    ASSUME NEW row \in JobRow
    PROVE  Outstanding(row) \in Int
  BY DEF Outstanding, JobRow

\* An aggregation keeps a hold that covers its job, and leaves none behind a job
\* with nothing to come.
LEMMA AggregateCoverage ==
    ASSUME NEW js \in SUBSET Jobs, NEW jobs \in [Jobs -> JobRow],
           NEW rows \in [Items -> BudgetedRow], NEW funds,
           Aggregate(js, jobs, rows, funds), task' = task,
           \A j \in Jobs : /\ Price * Cardinality(OwedIn(j, rows, task)) <= Outstanding(jobs[j])
                           /\ j \in js /\ jobs[j].status = "cancelled" => Over(j, rows)
                           /\ j \notin js => Covered(j, jobs[j], rows, task)
    PROVE  Coverage'
<1> SUFFICES ASSUME NEW j \in Jobs
             PROVE  Covered(j, job'[j], rows, task)
  BY CoveredJobs DEF Aggregate
<1>1. CASE j \notin js
  BY <1>1, AggregateStatus
<1>2. CASE j \in js /\ job'[j].status = "active"
  <2>1. jobs[j].status # "cancelled" /\ Outstanding(job'[j]) = Outstanding(jobs[j])
    BY <1>2, AggregateStatus
  <2>2. \E i \in ItemsOf(j) : ToCome(rows[i])
    BY <1>2, <2>1, AggregateStatus
  <2>3. ~Over(j, rows)
    BY <2>2 DEF Over, ItemsOf
  <2> QED
    BY <2>1, <2>3 DEF Covered
<1>3. CASE j \in js /\ job'[j].status # "active"
  <2>1. Outstanding(job'[j]) = 0
    BY <1>3, AggregateStatus
  <2>2. Over(j, rows)
    <3>1. CASE jobs[j].status = "cancelled"
      BY <1>3, <3>1
    <3>2. CASE jobs[j].status # "cancelled"
      <4>1. ~\E i \in ItemsOf(j) : ToCome(rows[i])
        BY <1>3, <3>2, AggregateStatus
      <4> QED
        BY <4>1 DEF Over, ItemsOf
    <3> QED
      BY <3>1, <3>2
  <2>3. OwedIn(j, rows, task) = {}
    BY <2>2 DEF OwedIn, Over
  <2>4. Price * Cardinality(OwedIn(j, rows, task)) = 0
    BY <2>3, FS_EmptySet, BatchAssumption
  <2> QED
    BY <2>1, <2>4 DEF Covered
<1> QED
  BY <1>1, <1>2, <1>3

\* A transaction without a reservation, after which no more is to come.
LEMMA PlainCoverage ==
    ASSUME TypeOK, Coverage, NEW js \in SUBSET Jobs, NEW jobs \in [Jobs -> JobRow],
           NEW rows \in [Items -> BudgetedRow], NEW funds,
           Aggregate(js, jobs, rows, funds), task' = task,
           \A j \in Jobs : /\ Outstanding(jobs[j]) = Outstanding(job[j])
                           /\ j \in js /\ jobs[j].status = "cancelled" => Over(j, rows),
           \A i \in Items : /\ ToCome(rows[i]) => ToCome(item[i]) /\ rows[i].run = item[i].run
                            /\ JobOf[i] \notin js /\ ToCome(item[i]) => ToCome(rows[i])
    PROVE  Coverage'
<1>1. ASSUME NEW j \in Jobs
      PROVE  /\ Price * Cardinality(OwedIn(j, rows, task)) <= Outstanding(jobs[j])
             /\ j \notin js => Covered(j, jobs[j], rows, task)
  <2>1. /\ Price * Cardinality(OwedIn(j, item, task)) <= Outstanding(job[j])
        /\ Over(j, item) => Outstanding(job[j]) = 0
    BY CoveredJobs DEF Covered
  <2>2. /\ OwedIn(j, rows, task) \subseteq OwedIn(j, item, task)
        /\ OwedIn(j, rows, task) \in SUBSET Items /\ OwedIn(j, item, task) \in SUBSET Items
    BY DEF OwedIn
  <2>3. /\ Price * Cardinality(OwedIn(j, rows, task)) \in Nat
        /\ Price * Cardinality(OwedIn(j, item, task)) \in Nat
        /\ Price * Cardinality(OwedIn(j, rows, task)) <= Price * Cardinality(OwedIn(j, item, task))
    BY <2>2, PriceFewer
  <2>4. Outstanding(job[j]) \in Int /\ Outstanding(jobs[j]) = Outstanding(job[j])
    BY OutstandingType DEF TypeOK
  <2>5. Price * Cardinality(OwedIn(j, rows, task)) <= Outstanding(jobs[j])
    BY <2>1, <2>3, <2>4
  <2>6. j \notin js /\ Over(j, rows) => Over(j, item)
    BY DEF Over
  <2> QED
    BY <2>1, <2>4, <2>5, <2>6 DEF Covered
<1> QED
  BY <1>1, AggregateCoverage

\* A transaction on one job that reserves the price of the items A.
LEMMA ReservedCoverage ==
    ASSUME TypeOK, Coverage, NEW j \in Jobs, NEW A \in SUBSET Items, NEW hold \in Int,
           hold = Price * Cardinality(A), NEW rows \in [Items -> BudgetedRow],
           Aggregate({j}, Reserved(j, hold), rows, Holding(hold)), task' = task,
           job[j].status # "cancelled",
           \A i \in Items : JobOf[i] # j => rows[i] = item[i],
           OwedIn(j, rows, task) \subseteq OwedIn(j, item, task) \cup A
    PROVE  Coverage'
<1> DEFINE jobs == Reserved(j, hold)
<1>1. /\ jobs \in [Jobs -> JobRow] /\ jobs[j].status # "cancelled"
      /\ {j} \in SUBSET Jobs /\ job \in [Jobs -> JobRow]
  BY ReservedType DEF TypeOK
<1>2. /\ Outstanding(jobs[j]) = Outstanding(job[j]) + hold
      /\ \A k \in Jobs : k # j => jobs[k] = job[k]
  BY DEF Reserved, Outstanding, TypeOK, JobRow
<1>3. Aggregate({j}, jobs, rows, Holding(hold))
  OBVIOUS
<1> HIDE DEF jobs
<1>4. \A k \in Jobs : Covered(k, job[k], item, task)
  BY CoveredJobs
<1>5. ASSUME NEW k \in Jobs, k # j
      PROVE  Covered(k, jobs[k], rows, task)
  <2>1. OwedIn(k, rows, task) = OwedIn(k, item, task) /\ (Over(k, rows) <=> Over(k, item))
    BY <1>5 DEF OwedIn, Over
  <2> QED
    BY <1>2, <1>4, <1>5, <2>1 DEF Covered
<1>6. Price * Cardinality(OwedIn(j, rows, task)) <= Outstanding(jobs[j])
  <2>1. Price * Cardinality(OwedIn(j, item, task)) <= Outstanding(job[j])
    BY <1>4 DEF Covered
  <2>2. OwedIn(j, rows, task) \in SUBSET Items /\ OwedIn(j, item, task) \in SUBSET Items
    BY DEF OwedIn
  <2>3. /\ Price * Cardinality(OwedIn(j, rows, task)) \in Nat
        /\ Price * Cardinality(OwedIn(j, item, task)) \in Nat
        /\ Price * Cardinality(OwedIn(j, rows, task))
           <= Price * Cardinality(OwedIn(j, item, task)) + hold
    BY <2>2, PriceMore
  <2>4. Outstanding(job[j]) \in Int
    BY <1>1, OutstandingType
  <2> QED
    BY <1>2, <2>1, <2>3, <2>4
<1>7. \A k \in Jobs : /\ Price * Cardinality(OwedIn(k, rows, task)) <= Outstanding(jobs[k])
                      /\ k \in {j} /\ jobs[k].status = "cancelled" => Over(k, rows)
                      /\ k \notin {j} => Covered(k, jobs[k], rows, task)
  BY <1>1, <1>5, <1>6 DEF Covered
<1> QED
  BY <1>1, <1>3, <1>7, AggregateCoverage

\* A step that leaves the holds alone, and moves no task back before its charge.
LEMMA SameCoverage ==
    ASSUME TypeOK, Coverage,
           \A i \in Items : /\ item'[i].status = item[i].status /\ item'[i].run = item[i].run
                            /\ \A r \in Runs : task'[i][r] = "none" => task[i][r] = "none",
           \A j \in Jobs : Outstanding(job'[j]) = Outstanding(job[j])
    PROVE  Coverage'
<1> SUFFICES ASSUME NEW j \in Jobs
             PROVE  Covered(j, job'[j], item', task')
  BY CoveredJobs
<1>1. Covered(j, job[j], item, task)
  BY CoveredJobs
<1>2. \A i \in Items : item[i].run \in Runs
  BY DEF TypeOK, BudgetedRow, ItemRow
<1>3. /\ OwedIn(j, item', task') \subseteq OwedIn(j, item, task)
      /\ OwedIn(j, item', task') \in SUBSET Items /\ OwedIn(j, item, task) \in SUBSET Items
  BY <1>2 DEF OwedIn, ToCome
<1>4. Over(j, item') <=> Over(j, item)
  BY DEF Over, ToCome
<1>5. /\ Price * Cardinality(OwedIn(j, item', task')) \in Nat
      /\ Price * Cardinality(OwedIn(j, item, task)) \in Nat
      /\ Price * Cardinality(OwedIn(j, item', task')) <= Price * Cardinality(OwedIn(j, item, task))
  BY <1>3, PriceFewer
<1>6. Outstanding(job[j]) \in Int
  BY OutstandingType DEF TypeOK
<1> QED
  BY <1>1, <1>4, <1>5, <1>6 DEF Covered

LEMMA MembersCoverage ==
    ASSUME TypeOK, Coverage, Active, NotCreated(job), Members
    PROVE  Coverage'
<1>1. /\ job \in [Jobs -> JobRow] /\ item \in [Items -> BudgetedRow]
      /\ \A i \in Items : item[i] \in ItemRow /\ JobOf[i] \in Jobs
      /\ \A j \in Jobs : Covered(j, job[j], item, task)
  BY JobOfType, CoveredJobs DEF TypeOK, BudgetedRow
<1>2. ASSUME NEW j \in Jobs, Create(j)
      PROVE  Coverage'
  <2> DEFINE hold == Price * Cardinality(ItemsOf(j))
  <2>1. /\ hold \in Int /\ ItemsOf(j) \in SUBSET Items /\ ItemsOf(j) # {}
    BY <1>2, HoldType DEF ItemsOf, Create
  <2>2. /\ job' = [job EXCEPT ![j] = [job[j] EXCEPT !.status = "active", !.reserved = hold]]
        /\ NothingHeld(job[j]) /\ task' = task
    BY <1>1, <1>2 DEF Create, NotCreated
  <2>3. /\ \A i \in Items : JobOf[i] = j => item'[i] = Created
        /\ \A i \in Items : JobOf[i] # j => item'[i] = item[i]
    BY <1>2 DEF Create, ItemsOf
  <2> SUFFICES ASSUME NEW k \in Jobs
               PROVE  Covered(k, job'[k], item', task')
    BY CoveredJobs
  <2>4. CASE k # j
    <3>1. job'[k] = job[k]
      BY <1>1, <2>2, <2>4
    <3>2. OwedIn(k, item', task') = OwedIn(k, item, task) /\ (Over(k, item') <=> Over(k, item))
      BY <2>2, <2>3, <2>4 DEF OwedIn, Over
    <3> QED
      BY <1>1, <3>1, <3>2 DEF Covered
  <2>5. CASE k = j
    <3>1. Outstanding(job'[j]) = hold
      <4>1. job'[j] = [job[j] EXCEPT !.status = "active", !.reserved = hold]
        BY <1>1, <2>2
      <4> HIDE DEF hold
      <4> QED
        BY <1>1, <2>1, <2>2, <4>1 DEF Outstanding, NothingHeld, JobRow
    <3>2. OwedIn(j, item', task') \subseteq ItemsOf(j) /\ OwedIn(j, item', task') \in SUBSET Items
      BY DEF OwedIn, ItemsOf
    <3>3. Price * Cardinality(OwedIn(j, item', task')) <= hold
      BY <2>1, <3>2, PriceFewer
    <3>4. ~Over(j, item')
      BY <2>1, <2>3 DEF Over, ItemsOf, ToCome, Created
    <3> QED
      BY <2>5, <3>1, <3>3, <3>4 DEF Covered
  <2> QED
    BY <2>4, <2>5
<1>3. ASSUME NEW j \in Jobs, Cancel(j)
      PROVE  Coverage'
  <2> DEFINE jobs == [job EXCEPT ![j].status = "cancelled"]
             rows == [i \in Items |-> IF i \in ItemsOf(j) THEN Cancelled(item[i]) ELSE item[i]]
  <2>1. /\ jobs \in [Jobs -> JobRow]
        /\ \A k \in Jobs : Outstanding(jobs[k]) = Outstanding(job[k])
    BY <1>1 DEF JobRow, JobStatus, Outstanding
  <2>2. /\ rows \in [Items -> BudgetedRow] /\ \A i \in Items : JobOf[i] # j => rows[i] = item[i]
        /\ \A i \in Items : JobOf[i] = j => rows[i] = Cancelled(item[i])
    BY ClosedBudgeted DEF TypeOK, ItemsOf
  <2>3. Aggregate({j}, jobs, rows, account) /\ task' = task
    BY <1>3 DEF Cancel
  <2> HIDE DEF jobs, rows
  <2>4. \A i \in Items : JobOf[i] = j => ~ToCome(rows[i])
    BY <1>1, <2>2 DEF Cancelled, ToCome, ItemRow
  <2>5. {j} \in SUBSET Jobs
    OBVIOUS
  <2>6. \A k \in Jobs : /\ Outstanding(jobs[k]) = Outstanding(job[k])
                        /\ k \in {j} /\ jobs[k].status = "cancelled" => Over(k, rows)
    BY <2>1, <2>4 DEF Over
  <2>7. \A i \in Items : /\ ToCome(rows[i]) => ToCome(item[i]) /\ rows[i].run = item[i].run
                         /\ JobOf[i] \notin {j} /\ ToCome(item[i]) => ToCome(rows[i])
    BY <2>2, <2>4
  <2> QED
    BY <2>1, <2>2, <2>3, <2>5, <2>6, <2>7, PlainCoverage
<1>4. ASSUME NEW j \in Jobs, RetryJob(j)
      PROVE  Coverage'
  <2> DEFINE failed == {i \in ItemsOf(j) : item[i].status = "failed"}
             hold == Price * Cardinality(failed)
             rows == [i \in Items |-> IF i \in failed THEN Rerun(item[i]) ELSE item[i]]
  <2>1. hold \in Int /\ failed \in SUBSET Items
    BY HoldType DEF ItemsOf
  <2>2. rows \in [Items -> BudgetedRow]
    BY <1>4, RerunBudgeted DEF TypeOK, RetryJob
  <2>3. /\ Aggregate({j}, Reserved(j, hold), rows, Holding(hold)) /\ task' = task
        /\ job[j].status # "cancelled"
    BY <1>4 DEF RetryJob
  <2>4. (\A i \in Items : i \notin failed => rows[i] = item[i]) /\ (\A i \in failed : JobOf[i] = j)
    BY DEF ItemsOf
  <2>5. hold = Price * Cardinality(failed)
    OBVIOUS
  <2> HIDE DEF hold, rows, failed
  <2>6. OwedIn(j, rows, task) \subseteq OwedIn(j, item, task) \cup failed
    BY <2>4 DEF OwedIn
  <2>7. \A i \in Items : JobOf[i] # j => rows[i] = item[i]
    BY <2>4
  <2> QED
    BY <2>1, <2>2, <2>3, <2>5, <2>6, <2>7, ReservedCoverage
<1>5. ASSUME NEW k \in Items, RetryItem(k)
      PROVE  Coverage'
  <2> DEFINE j == JobOf[k]
             rows == [item EXCEPT ![k] = Rerun(item[k])]
  <2>1. j \in Jobs /\ Price \in Int /\ {k} \in SUBSET Items /\ Price = Price * Cardinality({k})
    BY PriceOne, BatchAssumption
  <2>2. rows \in [Items -> BudgetedRow]
    BY <1>5, RerunBudgeted DEF TypeOK, RetryItem
  <2>3. /\ Aggregate({j}, Reserved(j, Price), rows, Holding(Price)) /\ task' = task
        /\ job[j].status # "cancelled"
    BY <1>5 DEF RetryItem
  <2>4. \A i \in Items : i # k => rows[i] = item[i]
    BY <1>1
  <2>5. \A i \in Items : JobOf[i] # j => rows[i] = item[i]
    BY <2>4
  <2> HIDE DEF j, rows
  <2>6. OwedIn(j, rows, task) \subseteq OwedIn(j, item, task) \cup {k}
    BY <2>4 DEF OwedIn
  <2> QED
    BY <2>1, <2>2, <2>3, <2>5, <2>6, ReservedCoverage
<1>6. ASSUME NEW k \in Items, NEW verdict \in {"approved", "rejected"}, ReviewItem(k, verdict)
      PROVE  Coverage'
  <2> DEFINE rows == [item EXCEPT ![k] = Reviewed(item[k], verdict)]
  <2>1. rows \in [Items -> BudgetedRow]
    BY MarkedBudgeted DEF TypeOK, Review
  <2>2. Aggregate({JobOf[k]}, job, rows, account) /\ task' = task /\ {JobOf[k]} \in SUBSET Jobs
    BY <1>1, <1>6 DEF ReviewItem
  <2>3. /\ rows[k].status = item[k].status /\ rows[k].run = item[k].run
        /\ \A i \in Items : rows[i] = item[i] \/ i = k
    BY <1>1 DEF Reviewed, ItemRow
  <2> HIDE DEF rows
  <2>4. \A i \in Items : (ToCome(rows[i]) <=> ToCome(item[i])) /\ rows[i].run = item[i].run
    BY <2>3 DEF ToCome
  <2>5. \A j \in Jobs : job[j].status = "cancelled" => Over(j, rows)
    BY <2>4 DEF Active, Over
  <2> QED
    BY <1>1, <2>1, <2>2, <2>4, <2>5, PlainCoverage
<1>7. ASSUME NEW k \in Items, SetPrimary(k)
      PROVE  Coverage'
  <2>1. \A i \in Items : item'[i].status = item[i].status /\ item'[i].run = item[i].run
    BY <1>1, <1>7 DEF SetPrimary, ItemRow
  <2> QED
    BY <1>7, <2>1, SameCoverage DEF SetPrimary
<1> QED
  BY <1>2, <1>3, <1>4, <1>5, <1>6, <1>7 DEF Members

\* A charge takes one price from the hold, for one item that was owed.
LEMMA ChargeCoverage ==
    ASSUME TypeOK, Owners, Coverage, NEW w \in Workers, At(w, "begin"), Charge(w)
    PROVE  Coverage'
<1> DEFINE i == worker[w].item
           r == worker[w].run
           j == JobOf[i]
           row == [job[j] EXCEPT !.settled = job[j].settled + Price, !.actual = job[j].actual + Price]
<1>1. i \in Items /\ r \in Runs /\ j \in Jobs /\ Engaged(w)
  BY JobOfType DEF At, Engaged, TypeOK, BusyState, WorkerState
<1>2. /\ job \in [Jobs -> JobRow] /\ task \in [Items -> [Runs -> TaskStatus]]
      /\ \A k \in Items : item[k].run \in Runs
  BY DEF TypeOK, BudgetedRow, ItemRow
<1>3. /\ task[i][r] = "none" /\ job[j].status # "cancelled" /\ item' = item
      /\ task' = [task EXCEPT ![i][r] = "running"] /\ job' = [job EXCEPT ![j] = row]
  BY <1>1, <1>2 DEF Charge, Chargeable, ClosedToCharges, TaskOf
<1>4. item[i].status = "running" /\ item[i].run = r
  BY <1>1, <1>3 DEF Owners, Owner, Owns, Leased
<1>5. Outstanding(row) = Outstanding(job[j]) - Price
  BY <1>1, <1>2, BatchAssumption DEF Outstanding, JobRow
<1> HIDE DEF row
<1> SUFFICES ASSUME NEW k \in Jobs
             PROVE  Covered(k, job'[k], item, task')
  BY <1>3, CoveredJobs
<1>6. Covered(k, job[k], item, task)
  BY CoveredJobs
<1>7. CASE k # j
  <2>1. job'[k] = job[k]
    BY <1>2, <1>3, <1>7
  <2>2. OwedIn(k, item, task') = OwedIn(k, item, task)
    BY <1>1, <1>2, <1>3, <1>7 DEF OwedIn
  <2> QED
    BY <1>6, <2>1, <2>2 DEF Covered
<1>8. CASE k = j
  <2> DEFINE S == OwedIn(j, item, task)
             T == OwedIn(j, item, task')
  <2>1. i \in S /\ T = S \ {i} /\ S \in SUBSET Items
    <3>1. i \in S /\ S \in SUBSET Items
      BY <1>1, <1>3, <1>4 DEF OwedIn, ToCome
    <3>2. i \notin T
      BY <1>1, <1>2, <1>3, <1>4 DEF OwedIn
    <3>3. \A m \in Items : m # i => (m \in T <=> m \in S)
      BY <1>2, <1>3 DEF OwedIn
    <3>4. T \in SUBSET Items
      BY DEF OwedIn
    <3> HIDE DEF S, T
    <3> QED
      BY <3>1, <3>2, <3>3, <3>4
  <2> HIDE DEF S, T
  <2>2. IsFiniteSet(S) /\ Cardinality(S) \in Nat
    BY <2>1, FS_Subset, FS_CardinalityType, BatchAssumption
  <2>3. Cardinality(T) = Cardinality(S) - 1
    BY <2>1, <2>2, FS_RemoveElement
  <2>4. Price * Cardinality(T) = Price * Cardinality(S) - Price
    BY <2>2, <2>3, BatchAssumption
  <2>5. Price * Cardinality(S) <= Outstanding(job[j])
    BY <1>6, <1>8 DEF Covered, S
  <2>6. Price * Cardinality(S) \in Int /\ Price \in Int /\ Outstanding(job[j]) \in Int
    BY <1>1, <1>2, <2>2, OutstandingType, BatchAssumption
  <2>7. job'[j] = row
    BY <1>1, <1>2, <1>3
  <2>8. Price * Cardinality(T) <= Outstanding(job'[j])
    BY <1>5, <2>4, <2>5, <2>6, <2>7
  <2>9. ~Over(j, item)
    BY <1>1, <1>4 DEF Over, ToCome
  <2> QED
    BY <1>8, <2>8, <2>9 DEF Covered, T
<1> QED
  BY <1>7, <1>8

\* A failed attempt is queued again with a hold of its own, or was not charged.
LEMMA FinishCoverage ==
    ASSUME TypeOK, Owners, Active, Coverage, Certain, NEW w \in Workers, Known(w), Finish(w)
    PROVE  Coverage'
<1> DEFINE i == worker[w].item
           j == JobOf[i]
<1>1. /\ i \in Items /\ j \in Jobs /\ worker[w].step = "finish" /\ Engaged(w)
      /\ item \in [Items -> BudgetedRow] /\ item[i] \in ItemRow /\ worker[w].charged \in BOOLEAN
  BY JobOfType DEF Finish, At, Engaged, TypeOK, BusyState, WorkerState, BudgetedRow
<1>2. task' = task
  BY FinishCases
<1>3. CASE UNCHANGED <<account, job, item>>
  BY <1>2, <1>3, SameCoverage
<1>4. ASSUME NEW row \in BudgetedRow, NEW hold \in Int, Failed(w, row, hold), Outcome(w, row, hold)
      PROVE  Coverage'
  <2> DEFINE rows == [item EXCEPT ![i] = row]
             A == IF hold = 0 THEN {} ELSE {i}
  <2>1. /\ job[j].status = "active" /\ item[i].status = "running"
        /\ Aggregate({j}, Reserved(j, hold), rows, Holding(hold))
    BY <1>4 DEF Outcome, Held
  <2>2. /\ rows \in [Items -> BudgetedRow] /\ rows[i] = row
        /\ \A m \in Items : m # i => rows[m] = item[m]
    BY <1>1, <1>4
  <2>3. \A m \in Items : JobOf[m] # j => rows[m] = item[m]
    BY <2>2
  <2>4. A \in SUBSET Items /\ hold = Price * Cardinality(A)
    <3>1. hold = 0 \/ hold = Price
      BY <1>4 DEF Failed, RetryHold
    <3>2. hold = 0 => A = {}
      OBVIOUS
    <3>3. hold # 0 => A = {i}
      OBVIOUS
    <3> HIDE DEF A
    <3> QED
      BY <1>1, <3>1, <3>2, <3>3, PriceOne
  <2>5. ToCome(row) /\ hold = 0 /\ Price # 0 => i \in OwedIn(j, item, task)
    <3>1. ToCome(row) => row = Requeued(item[i]) /\ hold = RetryHold(w) /\ worker[w].retry
      BY <1>1, <1>4 DEF Failed, Returned, ToCome, ItemRow
    <3>2. ToCome(row) /\ hold = 0 /\ Price # 0 => worker[w].retry /\ ~worker[w].charged
      BY <3>1 DEF RetryHold
    <3>3. Owns(w) /\ Knows(w)
      BY <1>1, <2>1 DEF Known, Owners, Owner
    <3>4. worker[w].retry /\ ~worker[w].charged => task[i][item[i].run] = "none"
      BY <1>1, <3>3 DEF Knows, Knowing, TaskOf, Owns, Leased
    <3> QED
      BY <1>1, <2>1, <3>2, <3>4 DEF OwedIn, ToCome
  <2> HIDE DEF rows, A
  <2>6. CASE Price # 0
    <3>1. OwedIn(j, rows, task) \subseteq OwedIn(j, item, task) \cup A
      <4> SUFFICES ASSUME NEW m \in OwedIn(j, rows, task), m \notin A
                   PROVE  m \in OwedIn(j, item, task)
        OBVIOUS
      <4>1. CASE m = i
        BY <2>2, <2>5, <2>6, <4>1 DEF A, OwedIn
      <4>2. CASE m # i
        BY <2>2, <4>2 DEF OwedIn
      <4> QED
        BY <4>1, <4>2
    <3> QED
      BY <1>1, <1>2, <2>1, <2>2, <2>3, <2>4, <3>1, ReservedCoverage
  <2>7. CASE Price = 0
    <3>1. hold = 0 /\ hold = Price * Cardinality({i}) /\ {i} \in SUBSET Items
      BY <1>1, <1>4, <2>7, PriceOne DEF Failed, RetryHold
    <3>2. OwedIn(j, rows, task) \subseteq OwedIn(j, item, task) \cup {i}
      BY <2>2 DEF OwedIn
    <3> QED
      BY <1>1, <1>2, <2>1, <2>2, <2>3, <3>1, <3>2, ReservedCoverage
  <2> QED
    BY <2>6, <2>7
<1> QED
  BY <1>3, <1>4, FinishCases

LEMMA WorkCoverage ==
    ASSUME TypeOK, Owners, Active, Coverage, Certain, NEW w \in Workers, Known(w),
           Work(w) \/ Heartbeat(w) \/ Crash(w) \/ \E k \in Items : Claim(w, k)
    PROVE  Coverage'
<1> DEFINE i == worker[w].item
           r == worker[w].run
           j == JobOf[i]
<1>1. /\ item \in [Items -> BudgetedRow] /\ job \in [Jobs -> JobRow]
      /\ \A k \in Items : item[k] \in ItemRow /\ JobOf[k] \in Jobs
      /\ task \in [Items -> [Runs -> TaskStatus]]
  BY JobOfType DEF TypeOK, BudgetedRow
<1>2. worker[w].step # "idle" => i \in Items /\ r \in Runs /\ j \in Jobs
  BY JobOfType DEF TypeOK, BusyState, WorkerState
<1>3. CASE Start(w) \/ Verify(w) \/ FenceFailure(w) \/ Heartbeat(w)
  <2>1. job' = job /\ task' = task /\ (item' = item \/ Renew(w))
    BY <1>3 DEF Start, Verify, FenceFailure, Heartbeat, Fenced, Abandon
  <2>2. \A k \in Items : item'[k] \in {item[k], [item[k] EXCEPT !.live = TRUE]}
    BY <1>1, <2>1 DEF Renew
  <2>3. \A k \in Items : item'[k].status = item[k].status /\ item'[k].run = item[k].run
    BY <1>1, <2>2 DEF ItemRow
  <2> QED
    BY <2>1, <2>3, SameCoverage
<1>4. CASE Lookup(w) \/ Upstream(w) \/ Deliver(w) \/ Crash(w)
  BY <1>4, SameCoverage DEF Lookup, Upstream, Deliver, Crash
<1>5. CASE Begin(w)
  <2>1. CASE UNCHANGED <<account, job, item, task>>
    BY <2>1, SameCoverage
  <2> QED
    BY <1>5, <2>1, ChargeCoverage DEF Begin
<1>6. CASE Refund(w)
  <2>1. item' = item /\ i \in Items /\ r \in Runs
    BY <1>2, <1>6 DEF Refund, At
  <2>2. \A k \in Items, q \in Runs : task'[k][q] = "none" => task[k][q] = "none"
    BY <1>1, <1>6, <2>1 DEF Refund
  <2>3. \A k \in Jobs : job'[k] \in {job[k], [job[k] EXCEPT !.actual = @ - Price]}
    BY <1>1, <1>6 DEF Refund
  <2>4. \A k \in Jobs : Outstanding(job'[k]) = Outstanding(job[k])
    BY <1>1, <2>3 DEF Outstanding, JobRow
  <2> QED
    BY <2>1, <2>2, <2>4, SameCoverage
<1>7. CASE Settle(w)
  <2>1. item' = item /\ job' = job /\ i \in Items /\ r \in Runs
    BY <1>2, <1>7 DEF Settle, At
  <2>2. \A k \in Items, q \in Runs : task'[k][q] = "none" => task[k][q] = "none"
    BY <1>1, <1>7, <2>1 DEF Settle
  <2> QED
    BY <2>1, <2>2, SameCoverage
<1>8. CASE Finish(w)
  BY <1>8, FinishCoverage
<1>9. ASSUME NEW k \in Items, NEW row \in BudgetedRow,
             Aggregate({JobOf[k]}, job, [item EXCEPT ![k] = row], account), task' = task,
             ToCome(row) => ToCome(item[k]) /\ row.run = item[k].run,
             job[JobOf[k]].status # "cancelled"
      PROVE  Coverage'
  <2> DEFINE rows == [item EXCEPT ![k] = row]
  <2>1. /\ rows \in [Items -> BudgetedRow] /\ {JobOf[k]} \in SUBSET Jobs /\ rows[k] = row
        /\ \A m \in Items : m # k => rows[m] = item[m]
    BY <1>1, <1>9
  <2>2. Aggregate({JobOf[k]}, job, rows, account)
    BY <1>9
  <2> HIDE DEF rows
  <2>3. \A m \in Items : /\ ToCome(rows[m]) => ToCome(item[m]) /\ rows[m].run = item[m].run
                         /\ JobOf[m] \notin {JobOf[k]} /\ ToCome(item[m]) => ToCome(rows[m])
    BY <1>9, <2>1
  <2>4. \A m \in Jobs : /\ Outstanding(job[m]) = Outstanding(job[m])
                        /\ m \in {JobOf[k]} /\ job[m].status = "cancelled" => Over(m, rows)
    BY <1>9
  <2> QED
    BY <1>1, <1>9, <2>1, <2>2, <2>3, <2>4, PlainCoverage
<1>10. CASE Complete(w)
  <2>1. task' = task /\ i \in Items
    BY <1>2, <1>10 DEF Complete, At
  <2>2. CASE UNCHANGED <<account, job, item>>
    BY <2>1, <2>2, SameCoverage
  <2>3. CASE /\ Result(w) \in BudgetedRow /\ job[j].status = "active"
             /\ Aggregate({j}, job, [item EXCEPT ![i] = Result(w)], account)
    <3>1. ~ToCome(Result(w))
      BY <1>1, <2>1 DEF Result, Delivered, Returned, ToCome, ItemRow
    <3> QED
      BY <1>9, <2>1, <2>3, <3>1
  <2> QED
    BY <1>10, <2>2, <2>3, CompleteCases
<1>11. ASSUME NEW k \in Items, Claim(w, k)
       PROVE  Coverage'
  <2>1. /\ Aggregate({JobOf[k]}, job, [item EXCEPT ![k] = Claimed(item[k], w)], account)
        /\ task' = task /\ job[JobOf[k]].status = "active" /\ ToCome(item[k])
    BY <1>11 DEF Claim, Claimable, ToCome
  <2>2. Claimed(item[k], w) \in BudgetedRow
    BY <1>11, ClaimedBudgeted DEF Claim, Claimable, TypeOK
  <2>3. Claimed(item[k], w).run = item[k].run
    BY <1>1 DEF Claimed, ItemRow
  <2> QED
    BY <1>9, <2>1, <2>2, <2>3
<1> QED
  BY <1>3, <1>4, <1>5, <1>6, <1>7, <1>8, <1>10, <1>11 DEF Work

LEMMA BackgroundCoverage ==
    ASSUME TypeOK, Active, Coverage,
           \/ FailExhausted
           \/ \E i \in Items : LeaseExpires(i) \/ Reconcile(i) \/ \E r \in Runs : DeliverLate(i, r)
    PROVE  Coverage'
<1>1. /\ item \in [Items -> BudgetedRow] /\ job \in [Jobs -> JobRow]
      /\ \A k \in Items : item[k] \in ItemRow /\ JobOf[k] \in Jobs /\ item[k].run \in Runs
      /\ task \in [Items -> [Runs -> TaskStatus]]
  BY JobOfType DEF TypeOK, BudgetedRow, ItemRow
<1>2. CASE FailExhausted
  <2> DEFINE js == {JobOf[i] : i \in Exhausted}
  <2>1. /\ Expired \in [Items -> BudgetedRow] /\ js \in SUBSET Jobs
        /\ Aggregate(js, job, Expired, account) /\ task' = task
    BY <1>2, ClosedBudgeted, ExhaustedJobs DEF Expired, TypeOK, FailExhausted
  <2>2. \A i \in Items : Expired[i] = item[i] \/ (JobOf[i] \in js /\ ~ToCome(Expired[i]))
    BY <1>1 DEF Expired, TimedOut, ToCome, ItemRow
  <2>3. \A j \in js : job[j].status = "active"
    BY DEF Exhausted
  <2> HIDE DEF js
  <2>4. \A i \in Items : /\ ToCome(Expired[i]) => ToCome(item[i]) /\ Expired[i].run = item[i].run
                         /\ JobOf[i] \notin js /\ ToCome(item[i]) => ToCome(Expired[i])
    BY <2>2
  <2> QED
    BY <1>1, <2>1, <2>3, <2>4, PlainCoverage
<1>3. ASSUME NEW i \in Items, LeaseExpires(i)
      PROVE  Coverage'
  <2>1. \A k \in Items : item'[k].status = item[k].status /\ item'[k].run = item[k].run
    BY <1>1, <1>3 DEF LeaseExpires, ItemRow
  <2> QED
    BY <1>3, <2>1, SameCoverage DEF LeaseExpires
<1>4. ASSUME NEW i \in Items, Reconcile(i)
      PROVE  Coverage'
  <2>1. \A k \in Items, q \in Runs : task'[k][q] = "none" => task[k][q] = "none"
    BY <1>1, <1>4 DEF Reconcile
  <2> QED
    BY <1>4, <2>1, SameCoverage DEF Reconcile
<1>5. ASSUME NEW i \in Items, NEW r \in Runs, DeliverLate(i, r)
      PROVE  Coverage'
  <2>1. \A k \in Items, q \in Runs : task'[k][q] = "none" => task[k][q] = "none"
    BY <1>1, <1>5 DEF DeliverLate
  <2>2. \A k \in Jobs : job'[k] \in {job[k], [job[k] EXCEPT !.actual = @ + Price]}
    BY <1>1, <1>5 DEF DeliverLate
  <2>3. \A k \in Jobs : Outstanding(job'[k]) = Outstanding(job[k])
    <3>1. \A row \in JobRow : Outstanding([row EXCEPT !.actual = @ + Price]) = Outstanding(row)
      BY DEF Outstanding, JobRow
    <3> QED
      BY <1>1, <2>2, <3>1
  <2> QED
    BY <1>5, <2>1, <2>3, SameCoverage DEF DeliverLate
<1> QED
  BY <1>2, <1>3, <1>4, <1>5

LEMMA InitCoverage == Init => Coverage
<1> SUFFICES ASSUME Init, NEW j \in Jobs PROVE Covered(j, job[j], item, task)
  BY CoveredJobs
<1>1. OwedIn(j, item, task) = {}
  BY DEF Init, OwedIn, ToCome, Created
<1>2. Outstanding(job[j]) = 0
  BY DEF Init, Outstanding
<1>3. Price * Cardinality(OwedIn(j, item, task)) = 0
  BY <1>1, FS_EmptySet, BatchAssumption
<1> QED
  BY <1>2, <1>3 DEF Covered

\* With the standard executor, and unless a worker outlives its lease or fails to
\* read a task, the hold of a job covers every run it has still to charge, and
\* nothing stays held behind a job whose items are all over, whatever members,
\* claims, retries, refunds, crashes and late deliveries do.
THEOREM CoverageHolds ==
    ASSUME Executor = "standard", "pause" \notin Env, "lookup" \notin Env
    PROVE  Spec => []Coverage
<1> DEFINE Inv == /\ Owners /\ Active /\ \A w \in Workers : Known(w)
                  /\ HoldsAddUp /\ NotCreated(job) /\ Coverage
<1>1. Init => Inv
  BY InitOwners, InitKnown, InitHolds, InitCoverage
<1>2. TypeOK /\ Inv /\ [Next]_vars => Inv'
  <2> SUFFICES ASSUME TypeOK, Inv, [Next]_vars PROVE Inv'
    OBVIOUS
  <2>1. (Owners /\ Active)' /\ (\A w \in Workers : Known(w))' /\ (HoldsAddUp /\ NotCreated(job))'
    BY NextOwners, NextKnown, NextHolds
  <2>2. CASE UNCHANGED vars
    <3>1. Coverage'
      BY <2>2, SameCoverage DEF vars
    <3> QED
      BY <2>1, <3>1
  <2>3. CASE Next
    <3>1. Certain
      BY DEF Certain
    <3>2. Coverage'
      BY <2>3, <3>1, MembersCoverage, WorkCoverage, BackgroundCoverage DEF Next
    <3> QED
      BY <2>1, <3>2
  <2> QED
    BY <2>2, <2>3
<1>3. Inv => Coverage
  OBVIOUS
<1> HIDE DEF Inv
<1> QED
  BY <1>1, <1>2, <1>3, TypeCorrect, PTL DEF Spec

=============================================================================
