------------------------- MODULE GatewayDispatchProofs -------------------------
(***************************************************************************)
(* Theorems about GatewayDispatch for every set of requests and accounts,  *)
(* every allowance and any number of crashes and failed writes.            *)
(***************************************************************************)
EXTENDS GatewayDispatch, FiniteSetTheorems, TLAPS

-----------------------------------------------------------------------------
(***************************************************************************)
(* Invariants.                                                             *)
(***************************************************************************)

\* A goroutine that is past the choice of an account has one.
WorkingOf(r) ==
    /\ job[r].pc \in {"reserving", "sending", "finishing"} => job[r].on \in Accounts
    /\ job[r].pc = "finishing" => job[r].out \in Outcomes
    /\ rec[r].pc \in RecLive => rec[r].on \in Accounts

\* An event is pending while its goroutine runs, and recovered after it ended.
PhasesOf(r) ==
    /\ job[r].pc \in JobLive => event[r] = "pending"
    /\ job[r].pc = "idle" => /\ event[r] = "none" /\ rec[r].pc = "none"
                             /\ \A a \in Accounts : attempt[r][a].state = "none"
    /\ rec[r].pc \in RecLive => job[r].pc = "over"
    /\ caller[r] \in {"abandoning", "closing"} => job[r].pc = "over"

\* A provider that charged a request is the last one that was tried.
Uncharged == {"none", "void"}
Sent(r) == job[r].pc \in {"sending", "finishing", "storing", "completing", "failing", "over"}
ChargingOf(r) ==
    \A a \in Accounts :
       upstream[r][a] \notin Uncharged =>
          /\ job[r].on = a /\ Sent(r)
          /\ job[r].pc = "finishing" => ~FailsOver(job[r].out)

\* What is known of the attempt and the hold of a request in each phase.
AttemptingOf(r) ==
    \A a \in Accounts :
       /\ attempt[r][a].state = "none" => hold[r][a] = "none"
       /\ job[r].on = a /\ job[r].pc = "reserving" =>
             attempt[r][a].state = "submitting" /\ hold[r][a] = "none"
       /\ job[r].on = a /\ job[r].pc = "sending" =>
             /\ attempt[r][a].state \in {"submitting", "accepted"}
             /\ hold[r][a] # "released"
       /\ job[r].on = a /\ job[r].pc = "finishing" /\ job[r].out \in RefusedOutcomes =>
             upstream[r][a] \in Uncharged
       /\ attempt[r][a].state = "failed" /\ ~attempt[r][a].task => upstream[r][a] \in Uncharged
       /\ hold[r][a] = "released" => upstream[r][a] \in Uncharged

\* Bytes are stored before an event succeeds.
CompletingOf(r) ==
    /\ job[r].pc = "completing" \/ rec[r].pc = "completing" => stored[r]
    /\ event[r] = "success" => stored[r]

Working == \A r \in Requests : WorkingOf(r)
Attempting == \A r \in Requests : AttemptingOf(r)
Sound(r) == WorkingOf(r) /\ PhasesOf(r) /\ ChargingOf(r) /\ AttemptingOf(r) /\ CompletingOf(r)
AllSound == \A r \in Requests : Sound(r)

\* A refund comes after the end of the goroutine and of the pending event.
ClosedOf(r) == caller[r] = "refunded" => ~Pending(r) /\ job[r].pc = "over"
Closed == \A r \in Requests : ClosedOf(r)

-----------------------------------------------------------------------------
(***************************************************************************)
(* The quota ledger.                                                       *)
(***************************************************************************)

BucketRow == [remaining : Nat \cup {Unknown}, reserved : Nat]

\* A bucket keeps its type; what is reserved is counted one up or one down.
LEMMA Buckets ==
    ASSUME NEW b \in BucketRow, NEW n \in Nat
    PROVE  /\ (b.remaining # Unknown => b.remaining >= 1) => Deducted(b) \in BucketRow
           /\ Deducted(b).reserved = b.reserved + 1
           /\ Observed(b, n) \in BucketRow /\ Observed(b, n).reserved = b.reserved
           /\ Returned(b) \in BucketRow /\ Returned(b).reserved = Freed(b)
           /\ Consumed(b, n) \in BucketRow /\ Consumed(b, n).reserved = Freed(b)
           /\ Consumed(b, None) \in BucketRow /\ Consumed(b, None).reserved = Freed(b)
           /\ Freed(b) \in Nat
           /\ \A m \in Nat : b.reserved = m + 1 => Freed(b) = m
<1>1. b.reserved \in Nat /\ b.remaining \in Nat \cup {Unknown} /\ Unknown \notin Nat
  BY DispatchAssumption DEF BucketRow, DispatchAssumption
<1>2. Freed(b) \in Nat /\ Freed(b) <= b.reserved
  BY <1>1 DEF Freed
<1>3. \A m \in Nat : b.reserved = m + 1 => Freed(b) = m
  BY <1>1 DEF Freed
<1>4. \A k \in Nat : Available(n, k) \in Nat
  BY DEF Available
<1>5. (b.remaining # Unknown => b.remaining >= 1) => Deducted(b) \in BucketRow
  BY <1>1 DEF Deducted, BucketRow
<1>6. Deducted(b).reserved = b.reserved + 1
  BY DEF Deducted
<1>7. Observed(b, n) \in BucketRow /\ Observed(b, n).reserved = b.reserved
  BY <1>1, <1>4 DEF Observed, BucketRow
<1>8. Returned(b) \in BucketRow /\ Returned(b).reserved = Freed(b)
  BY <1>1, <1>2 DEF Returned, BucketRow
<1>9. Consumed(b, n) \in BucketRow /\ Consumed(b, n).reserved = Freed(b)
  BY <1>1, <1>2, <1>4 DEF Consumed, BucketRow
<1>10. Consumed(b, None) \in BucketRow /\ Consumed(b, None).reserved = Freed(b)
  BY <1>1, <1>2 DEF Consumed, BucketRow
<1> QED
  BY <1>2, <1>3, <1>5, <1>6, <1>7, <1>8, <1>9, <1>10

\* What a booking does to the reservation of r and to the bucket of a: an open
\* hold ends, or the hold stays as open as it was.
Ends(r, a) ==
    /\ IsOpen(r, a)
    /\ \E h \in {"settled", "released"} : hold' = [hold EXCEPT ![r][a] = h]
    /\ \E b \in BucketRow : b.reserved = Freed(bucket[a]) /\ bucket' = [bucket EXCEPT ![a] = b]
Stays(r, a) ==
    /\ \E h \in HoldStates : /\ hold' = [hold EXCEPT ![r][a] = h]
                             /\ h = hold[r][a] \/ (hold[r][a] = "held" /\ h = "uncertain")
    /\ \E b \in BucketRow : b.reserved = bucket[a].reserved /\ bucket' = [bucket EXCEPT ![a] = b]

LEMMA Booked ==
    ASSUME TypeOK, NEW r \in Requests, NEW a \in Accounts
    PROVE  /\ UNCHANGED <<hold, bucket>> => Stays(r, a)
           /\ Release(r, a) => Ends(r, a) \/ Stays(r, a)
           /\ ReleaseObserved(r, a) => Ends(r, a) \/ Stays(r, a)
           /\ \A n \in Nat \cup {None} : Settle(r, a, n) => Ends(r, a) \/ Stays(r, a)
           /\ MarkUncertain(r, a) => Stays(r, a)
<1>1. /\ bucket \in [Accounts -> BucketRow] /\ bucket[a] \in BucketRow
      /\ hold \in [Requests -> [Accounts -> HoldStates]] /\ hold[r] \in [Accounts -> HoldStates]
      /\ hold[r][a] \in HoldStates /\ balance[a] \in Nat
  BY DEF TypeOK, BucketRow
<1>2. UNCHANGED bucket => bucket' = [bucket EXCEPT ![a] = bucket[a]]
  BY <1>1
<1>3. UNCHANGED hold => hold' = [hold EXCEPT ![r][a] = hold[r][a]]
  BY <1>1
<1>4. UNCHANGED <<hold, bucket>> => Stays(r, a)
  BY <1>1, <1>2, <1>3 DEF Stays
<1>5. Release(r, a) => Ends(r, a) \/ Stays(r, a)
  <2>1. CASE ~IsOpen(r, a)
    BY <1>4, <2>1 DEF Release
  <2>2. CASE IsOpen(r, a)
    <3>1. Returned(bucket[a]) \in BucketRow /\ Returned(bucket[a]).reserved = Freed(bucket[a])
      BY <1>1, Buckets
    <3> QED
      BY <2>2, <3>1 DEF Release, Ends
  <2> QED
    BY <2>1, <2>2
<1>6. ReleaseObserved(r, a) => Ends(r, a) \/ Stays(r, a)
  <2> DEFINE seen == Observed(bucket[a], balance[a])
  <2>1. seen \in BucketRow /\ seen.reserved = bucket[a].reserved
    BY <1>1, Buckets
  <2> HIDE DEF seen
  <2>2. Returned(seen) \in BucketRow /\ Returned(seen).reserved = Freed(bucket[a])
    BY <2>1, Buckets DEF Freed
  <2> USE DEF seen
  <2>3. CASE ~IsOpen(r, a)
    BY <1>1, <2>1, <2>3 DEF ReleaseObserved, Stays
  <2>4. CASE IsOpen(r, a)
    BY <1>1, <2>2, <2>4 DEF ReleaseObserved, Ends
  <2> QED
    BY <2>3, <2>4
<1>7. ASSUME NEW n \in Nat \cup {None}, Settle(r, a, n)
      PROVE  Ends(r, a) \/ Stays(r, a)
  <2>1. CASE ~IsOpen(r, a)
    BY <1>4, <1>7, <2>1 DEF Settle
  <2>2. CASE IsOpen(r, a)
    <3>1. Consumed(bucket[a], n) \in BucketRow /\ Consumed(bucket[a], n).reserved = Freed(bucket[a])
      BY <1>1, Buckets
    <3> QED
      BY <1>7, <2>2, <3>1 DEF Settle, Ends
  <2> QED
    BY <2>1, <2>2
<1>8. MarkUncertain(r, a) => Stays(r, a)
  <2>1. Doubted(hold[r][a]) \in HoldStates
        /\ (Doubted(hold[r][a]) = hold[r][a] \/ (hold[r][a] = "held" /\ Doubted(hold[r][a]) = "uncertain"))
    BY <1>1 DEF Doubted, HoldStates
  <2> QED
    BY <1>1, <1>2, <2>1 DEF MarkUncertain, Stays
<1> QED
  BY <1>4, <1>5, <1>6, <1>7, <1>8

\* Either way the tables keep their types and the ledger holds.
LEMMA BookedLedger ==
    ASSUME TypeOK, QuotaLedger, NEW r \in Requests, NEW a \in Accounts, Ends(r, a) \/ Stays(r, a)
    PROVE  QuotaLedger'
<1> DEFINE Opened(c) == {q \in Requests : IsOpen(q, c)}
<1>1. hold \in [Requests -> [Accounts -> HoldStates]] /\ bucket \in [Accounts -> BucketRow]
  BY DEF TypeOK, BucketRow
<1>2. \A c \in Accounts : IsFiniteSet(Opened(c)) /\ Cardinality(Opened(c)) \in Nat
  BY DispatchAssumption, FS_Subset, FS_CardinalityType DEF DispatchAssumption
<1>3. \A c \in Accounts \ {a} : Opened(c)' = Opened(c) /\ bucket'[c] = bucket[c]
  BY <1>1 DEF Ends, Stays, IsOpen
<1>4. CASE Stays(r, a)
  <2>1. Opened(a)' = Opened(a)
    BY <1>1, <1>4 DEF Stays, IsOpen, Open
  <2>2. bucket'[a].reserved = bucket[a].reserved
    BY <1>1, <1>4 DEF Stays
  <2> QED
    BY <1>3, <2>1, <2>2 DEF QuotaLedger
<1>5. CASE Ends(r, a)
  <2>1. Opened(a)' = Opened(a) \ {r} /\ r \in Opened(a)
    BY <1>1, <1>5 DEF Ends, IsOpen, Open
  <2>2. Cardinality(Opened(a) \ {r}) = Cardinality(Opened(a)) - 1 /\ IsFiniteSet(Opened(a) \ {r})
    BY <1>2, <2>1, FS_RemoveElement
  <2>3. Cardinality(Opened(a) \ {r}) \in Nat
    BY <2>2, FS_CardinalityType
  <2>7. bucket[a].reserved = Cardinality(Opened(a))
    BY DEF QuotaLedger
  <2> DEFINE n == Cardinality(Opened(a))
             m == Cardinality(Opened(a) \ {r})
  <2>8. bucket[a].reserved = n /\ m = n - 1 /\ n \in Nat /\ m \in Nat
    BY <1>2, <2>2, <2>3, <2>7
  <2> HIDE DEF n, m
  <2>9. bucket[a].reserved = m + 1
    BY <2>8
  <2>4. bucket[a].reserved = Cardinality(Opened(a)') + 1 /\ Cardinality(Opened(a)') \in Nat
    BY <2>1, <2>8, <2>9 DEF m
  <2>5. Freed(bucket[a]) = Cardinality(Opened(a)')
    BY <2>4 DEF Freed
  <2>6. bucket'[a].reserved = Freed(bucket[a])
    BY <1>1, <1>5 DEF Ends
  <2> QED
    BY <1>3, <2>5, <2>6 DEF QuotaLedger
<1> QED
  BY <1>4, <1>5

LEMMA BookedTypes ==
    ASSUME TypeOK, NEW r \in Requests, NEW a \in Accounts, Ends(r, a) \/ Stays(r, a)
    PROVE  /\ hold' \in [Requests -> [Accounts -> HoldStates]]
           /\ bucket' \in [Accounts -> BucketRow]
           /\ \A q \in Requests, c \in Accounts : hold[q][c] = "none" => hold'[q][c] = "none"
<1>1. hold \in [Requests -> [Accounts -> HoldStates]] /\ bucket \in [Accounts -> BucketRow]
  BY DEF TypeOK, BucketRow
<1> QED
  BY <1>1 DEF Ends, Stays, HoldStates, IsOpen, Open

\* Every step but a reservation and a refresh books like this, or not at all.
LEMMA Bookings ==
    ASSUME TypeOK, Working, Next
    PROVE  \/ UNCHANGED <<hold, bucket>>
           \/ \E r \in Requests, a \in Accounts : Ends(r, a) \/ Stays(r, a)
           \/ \E r \in Requests : Reserve(r)
           \/ \E a \in Accounts : RefreshQuota(a)
<1>1. /\ hold \in [Requests -> [Accounts -> HoldStates]] /\ bucket \in [Accounts -> BucketRow]
      /\ balance \in [Accounts -> Nat]
  BY DEF TypeOK, BucketRow
<1>2. ASSUME NEW r \in Requests, NEW o \in Outcomes, Return(r, o)
      PROVE  \E a \in Accounts : Ends(r, a) \/ Stays(r, a)
  <2>1. job[r].on \in Accounts
    BY <1>2 DEF Return, Working, WorkingOf
  <2> QED
    BY <1>2, <2>1, Booked DEF Return, Book
<1>3. ASSUME NEW r \in Requests, NEW a \in Accounts, SweepClosed(r, a)
      PROVE  Ends(r, a) \/ Stays(r, a)
  BY <1>3, Booked DEF SweepClosed
<1>4. ASSUME NEW r \in Requests, NEW a \in Accounts, SweepProbe(r, a)
      PROVE  Stays(r, a)
  <2>1. /\ Observed(bucket[a], balance[a]) \in BucketRow
        /\ Observed(bucket[a], balance[a]).reserved = bucket[a].reserved
    BY <1>1, Buckets
  <2>2. \/ bucket' = [bucket EXCEPT ![a] = Observed(bucket[a], balance[a])]
        \/ bucket' = [bucket EXCEPT ![a] = bucket[a]]
    BY <1>1, <1>4 DEF SweepProbe
  <2>3. \E b \in BucketRow : b.reserved = bucket[a].reserved /\ bucket' = [bucket EXCEPT ![a] = b]
    BY <1>1, <2>1, <2>2
  <2>4. hold' = [hold EXCEPT ![r][a] = hold[r][a]] \/ hold' = [hold EXCEPT ![r][a] = Doubted(hold[r][a])]
    BY <1>1, <1>4 DEF SweepProbe
  <2>5. /\ hold[r][a] \in HoldStates /\ Doubted(hold[r][a]) \in HoldStates
        /\ Doubted(hold[r][a]) = hold[r][a] \/ (hold[r][a] = "held" /\ Doubted(hold[r][a]) = "uncertain")
    BY <1>1 DEF Doubted, HoldStates
  <2> QED
    BY <2>3, <2>4, <2>5 DEF Stays
<1>5. ASSUME SweepSettle
      PROVE  \E r \in Requests, a \in Accounts : Ends(r, a) \/ Stays(r, a)
  <2>1. sweep.for \in Requests /\ sweep.on \in Accounts /\ sweep.seen \in Nat \cup {None}
    BY <1>5 DEF SweepSettle, TypeOK
  <2> QED
    BY <1>5, <2>1, Booked DEF SweepSettle
<1>6. ASSUME NEW r \in Requests, NEW a \in Accounts, ResolveUnverified(r, a)
      PROVE  Stays(r, a)
  BY <1>6, Booked DEF ResolveUnverified
<1>7. ASSUME NEW r \in Requests, JobStep(r)
      PROVE  \/ UNCHANGED <<hold, bucket>> \/ Reserve(r) \/ \E o \in Outcomes : Return(r, o)
  BY <1>7 DEF JobStep, Receive, TryAccount, ReserveRejected, ReserveFails, FinishAttempt, GiveUp, Store, Complete, Fail
<1>8. ASSUME NEW r \in Requests, RecStep(r) \/ LookAccepted(r)
      PROVE  UNCHANGED <<hold, bucket>>
  BY <1>8 DEF RecStep, LookAccepted, StartRecovery, Poll, RecFail, RecStore, RecComplete, RecOnly
<1>9. ASSUME NEW r \in Requests, Closing(r)
      PROVE  \/ UNCHANGED <<hold, bucket>> \/ \E a \in Accounts : ResolveUnverified(r, a)
  BY <1>9 DEF Closing, PurgeStale, Resolve, InterruptedStored, InterruptedUnknown, InterruptedUnresolved,
              Adopt, ResolveAbsent
<1>10. ASSUME NEW r \in Requests, Environment(r) \/ CallerStep(r)
       PROVE  UNCHANGED <<hold, bucket>>
  BY <1>10 DEF Environment, Take, Acknowledge, Crash, TaskEnds, CallerStep, Deliver, Refund, Abandon,
               CancelRecovery, CloseAbandoned, CallerOnly
<1>11. ASSUME NEW r \in Requests, NEW a \in Accounts, Maintenance(r, a)
       PROVE  UNCHANGED <<hold, bucket>> \/ SweepClosed(r, a) \/ SweepProbe(r, a)
  BY <1>11 DEF Maintenance, InterruptedAdopted
<1> QED
  BY <1>2, <1>3, <1>4, <1>5, <1>6, <1>7, <1>8, <1>9, <1>10, <1>11 DEF Next

\* Every step keeps the types of holds and buckets, and the ledger.
LEMMA LedgerStep ==
    ASSUME TypeOK, Working, Attempting, Next
    PROVE  /\ hold' \in [Requests -> [Accounts -> HoldStates]]
           /\ bucket' \in [Accounts -> BucketRow]
           /\ QuotaLedger => QuotaLedger'
<1>1. /\ hold \in [Requests -> [Accounts -> HoldStates]] /\ bucket \in [Accounts -> BucketRow]
      /\ balance \in [Accounts -> Nat]
  BY DEF TypeOK, BucketRow
<1> DEFINE Opened(c) == {q \in Requests : IsOpen(q, c)}
<1>2. \A c \in Accounts : IsFiniteSet(Opened(c)) /\ Cardinality(Opened(c)) \in Nat
  BY DispatchAssumption, FS_Subset, FS_CardinalityType DEF DispatchAssumption
<1>3. CASE UNCHANGED <<hold, bucket>>
  BY <1>1, <1>3 DEF QuotaLedger, IsOpen
<1>4. CASE \E r \in Requests, a \in Accounts : Ends(r, a) \/ Stays(r, a)
  BY <1>4, BookedTypes, BookedLedger
<1>5. ASSUME NEW r \in Requests, Reserve(r)
      PROVE  /\ hold' \in [Requests -> [Accounts -> HoldStates]]
             /\ bucket' \in [Accounts -> BucketRow]
             /\ QuotaLedger => QuotaLedger'
  <2>1. PICK a \in Accounts : a = job[r].on
    BY <1>5 DEF Reserve, Working, WorkingOf
  <2>2. /\ hold' = [hold EXCEPT ![r][a] = "held"] /\ bucket' = [bucket EXCEPT ![a] = Deducted(bucket[a])]
        /\ Affords(a)
    BY <1>5, <2>1 DEF Reserve
  <2>3. hold[r][a] = "none"
    BY <1>5, <2>1 DEF Reserve, Attempting, AttemptingOf
  <2>4. Deducted(bucket[a]) \in BucketRow /\ Deducted(bucket[a]).reserved = bucket[a].reserved + 1
    <3>1. bucket[a] \in BucketRow
      BY <1>1
    <3>2. (bucket[a].remaining # Unknown => bucket[a].remaining >= 1) => Deducted(bucket[a]) \in BucketRow
      BY <3>1, Buckets
    <3> QED
      BY <2>2, <3>1, <3>2, Buckets DEF Affords
  <2>5. hold' \in [Requests -> [Accounts -> HoldStates]] /\ bucket' \in [Accounts -> BucketRow]
    BY <1>1, <2>2, <2>4 DEF HoldStates
  <2>6. Opened(a)' = Opened(a) \cup {r} /\ r \notin Opened(a)
    BY <1>1, <2>2, <2>3 DEF IsOpen, Open
  <2>7. \A c \in Accounts \ {a} : Opened(c)' = Opened(c) /\ bucket'[c] = bucket[c]
    BY <1>1, <2>2 DEF IsOpen
  <2>8. Cardinality(Opened(a)') = Cardinality(Opened(a)) + 1
    BY <1>2, <2>6, FS_AddElement
  <2>9. bucket'[a].reserved = bucket[a].reserved + 1
    BY <1>1, <2>2, <2>4
  <2>10. QuotaLedger => QuotaLedger'
    BY <2>7, <2>8, <2>9 DEF QuotaLedger
  <2> QED
    BY <2>5, <2>10
<1>6. ASSUME NEW a \in Accounts, RefreshQuota(a)
      PROVE  /\ hold' \in [Requests -> [Accounts -> HoldStates]]
             /\ bucket' \in [Accounts -> BucketRow]
             /\ QuotaLedger => QuotaLedger'
  <2>1. /\ Observed(bucket[a], balance[a]) \in BucketRow
        /\ Observed(bucket[a], balance[a]).reserved = bucket[a].reserved
    BY <1>1, Buckets
  <2>2. bucket' = [bucket EXCEPT ![a] = Observed(bucket[a], balance[a])] /\ hold' = hold
    BY <1>6 DEF RefreshQuota
  <2>3. \A c \in Accounts : bucket'[c].reserved = bucket[c].reserved
    BY <1>1, <2>1, <2>2
  <2> QED
    BY <1>1, <2>1, <2>2, <2>3 DEF QuotaLedger, IsOpen
<1> QED
  BY <1>3, <1>4, <1>5, <1>6, Bookings

-----------------------------------------------------------------------------
(***************************************************************************)
(* Types.                                                                  *)
(***************************************************************************)

EventStates == {"none", "pending", "success", "failed"}
TaskStates == {"none", "running", "done", "rejected", "void"}
JobRow == [pc : JobLive \cup {"idle", "over"}, on : Accounts \cup {None}, out : Outcomes \cup {"none"}]
RecRow == [pc : RecLive \cup {"none", "looked"}, on : Accounts \cup {None}]
SweepRow == [for : Requests, on : Accounts, seen : Nat \cup {None}]
CallerStates == {"waiting", "abandoning", "closing", "abandoned", "delivered", "refunded"}

\* The types of the goroutine and of what a step of it may write.
TypedJob ==
    /\ event \in [Requests -> EventStates] /\ stored \in [Requests -> BOOLEAN]
    /\ attempt \in [Requests -> [Accounts -> AttemptRow]]
    /\ job \in [Requests -> JobRow]
    /\ rec \in [Requests -> RecRow]
TypedRest ==
    /\ upstream \in [Requests -> [Accounts -> TaskStates]]
    /\ balance \in [Accounts -> Nat]
    /\ sweep \in SweepRow \cup {None}
    /\ caller \in [Requests -> CallerStates]
    /\ crashes \in 0 .. MaxCrashes /\ faults \in 0 .. MaxFaults

LEMMA AttemptRows ==
    ASSUME TypedJob, NEW r \in Requests, NEW a \in Accounts,
           NEW s \in AttemptStates, NEW c \in Classes, NEW t \in BOOLEAN, SetState(r, a, s, c, t)
    PROVE  /\ attempt' \in [Requests -> [Accounts -> AttemptRow]]
           /\ attempt'[r][a].state = s
           /\ attempt'[r][a].task <=> attempt[r][a].task \/ t
           /\ \A b \in Accounts \ {a} : attempt'[r][b] = attempt[r][b]
           /\ \A q \in Requests \ {r} : attempt'[q] = attempt[q]
<1>1. attempt \in [Requests -> [Accounts -> AttemptRow]] /\ attempt[r] \in [Accounts -> AttemptRow]
  BY DEF TypedJob
<1>2. attempt[r][a].task \in BOOLEAN
  BY <1>1 DEF AttemptRow
<1> DEFINE b == attempt[r][a].task \/ t
           row == [state |-> s, class |-> c, task |-> b]
<1>3. attempt' = [attempt EXCEPT ![r] = [attempt[r] EXCEPT ![a] = row]]
  BY <1>1 DEF SetState
<1>4. b \in BOOLEAN
  OBVIOUS
<1>9. b <=> (attempt[r][a].task \/ t)
  OBVIOUS
<1> HIDE DEF b
<1>5. row \in AttemptRow /\ row.state = s
  BY <1>4 DEF AttemptRow
<1>10. row.task = b
  OBVIOUS
<1> HIDE DEF row
<1>6. attempt'[r][a] = row
  BY <1>1, <1>3
<1>7. attempt' \in [Requests -> [Accounts -> AttemptRow]]
  BY <1>1, <1>3, <1>5
<1>8. /\ \A x \in Accounts \ {a} : attempt'[r][x] = attempt[r][x]
      /\ \A q \in Requests \ {r} : attempt'[q] = attempt[q]
  BY <1>1, <1>3
<1> QED
  BY <1>5, <1>6, <1>7, <1>8, <1>9, <1>10

LEMMA Rows ==
    ASSUME TypedJob, NEW r \in Requests
    PROVE  /\ \A pc \in JobLive \cup {"idle", "over"} : Goto(r, pc) => job' \in [Requests -> JobRow]
           /\ \A pc \in JobLive \cup {"idle", "over"}, a \in Accounts \cup {None}, o \in Outcomes \cup {"none"} :
                 job' = [job EXCEPT ![r] = JobOf(pc, a, o)] => job' \in [Requests -> JobRow]
           /\ \A pc \in RecLive \cup {"none", "looked"} : RecGoto(r, pc) => rec' \in [Requests -> RecRow]
           /\ \A s \in EventStates : event' = [event EXCEPT ![r] = s] => event' \in [Requests -> EventStates]
           /\ rec' = [rec EXCEPT ![r] = NoRec] => rec' \in [Requests -> RecRow]
           /\ rec' = [rec EXCEPT ![r] = Cancelled(r)] => rec' \in [Requests -> RecRow]
<1>1. job[r] \in JobRow /\ rec[r] \in RecRow
  BY DEF TypedJob
<1>2. ASSUME NEW pc \in JobLive \cup {"idle", "over"}, Goto(r, pc)
      PROVE  job' \in [Requests -> JobRow]
  <2> DEFINE row == [job[r] EXCEPT !.pc = pc]
  <2>1. row \in JobRow
    BY <1>1 DEF JobRow
  <2>2. job' = [job EXCEPT ![r] = row]
    BY <1>2 DEF Goto
  <2> HIDE DEF row
  <2> QED
    BY <2>1, <2>2 DEF TypedJob
<1>3. ASSUME NEW pc \in JobLive \cup {"idle", "over"}, NEW a \in Accounts \cup {None},
             NEW o \in Outcomes \cup {"none"}, job' = [job EXCEPT ![r] = JobOf(pc, a, o)]
      PROVE  job' \in [Requests -> JobRow]
  <2>1. JobOf(pc, a, o) \in JobRow
    BY DEF JobOf, JobRow
  <2> QED
    BY <1>3, <2>1 DEF TypedJob
<1>4. ASSUME NEW pc \in RecLive \cup {"none", "looked"}, RecGoto(r, pc)
      PROVE  rec' \in [Requests -> RecRow]
  <2> DEFINE row == [rec[r] EXCEPT !.pc = pc]
  <2>1. row \in RecRow
    BY <1>1 DEF RecRow
  <2>2. rec' = [rec EXCEPT ![r] = row]
    BY <1>4 DEF RecGoto
  <2> HIDE DEF row
  <2> QED
    BY <2>1, <2>2 DEF TypedJob
<1>5. NoRec \in RecRow /\ Cancelled(r) \in RecRow
  BY <1>1 DEF NoRec, Cancelled, RecOf, RecRow
<1> QED
  BY <1>2, <1>3, <1>4, <1>5 DEF TypedJob

\* A step of the goroutine of a request.
LEMMA JobTypes ==
    ASSUME TypedJob, TypedRest, Working, NEW r \in Requests, JobStep(r)
    PROVE  TypedJob' /\ TypedRest'
<1>1. CASE Receive(r)
  BY <1>1, Rows DEF Receive, Quiet, TypedJob, TypedRest, JobLive, EventStates
<1>2. ASSUME NEW a \in Accounts, TryAccount(r, a)
      PROVE  TypedJob' /\ TypedRest'
  <2>1. attempt' \in [Requests -> [Accounts -> AttemptRow]]
    BY <1>2, AttemptRows DEF TryAccount, AttemptStates, Classes
  <2>2. job' \in [Requests -> JobRow]
    BY <1>2, Rows DEF TryAccount, JobLive
  <2> QED
    BY <1>2, <2>1, <2>2 DEF TryAccount, TypedJob, TypedRest
<1>3. CASE Reserve(r)
  BY <1>3, Rows DEF Reserve, Quiet, TypedJob, TypedRest, JobLive
<1>4. CASE ReserveRejected(r) \/ ReserveFails(r)
  <2> DEFINE a == job[r].on
  <2>1. /\ "failed" \in AttemptStates /\ "quota" \in Classes /\ "other" \in Classes
        /\ a \in Accounts
    BY <1>4 DEF ReserveRejected, ReserveFails, Working, WorkingOf, AttemptStates, Classes
  <2>2. \/ SetState(r, a, "failed", "quota", FALSE)
        \/ SetState(r, a, "failed", "other", FALSE)
        \/ UNCHANGED attempt
    BY <1>4 DEF ReserveRejected, ReserveFails
  <2> HIDE DEF a
  <2>3. attempt' \in [Requests -> [Accounts -> AttemptRow]]
    BY <2>1, <2>2, AttemptRows DEF TypedJob
  <2>4. job' \in [Requests -> JobRow]
    BY <1>4, Rows DEF ReserveRejected, ReserveFails, JobLive
  <2>5. faults' = faults \/ (faults < MaxFaults /\ faults' = faults + 1)
    BY <1>4 DEF ReserveRejected, ReserveFails, Bookkeeping, BookkeepingFails
  <2>6. faults' \in 0 .. MaxFaults
    BY <2>5, DispatchAssumption DEF TypedRest, DispatchAssumption
  <2> QED
    BY <1>4, <2>3, <2>4, <2>6 DEF ReserveRejected, ReserveFails, TypedJob, TypedRest
<1>5. ASSUME NEW o \in Outcomes, Return(r, o)
      PROVE  TypedJob' /\ TypedRest'
  <2>1. job[r].on \in Accounts
    BY <1>5 DEF Return, Working, WorkingOf
  <2>2. job' \in [Requests -> JobRow]
    BY <1>5, <2>1, Rows DEF Return, JobLive
  <2>3. faults' \in 0 .. MaxFaults
    BY <1>5, DispatchAssumption DEF Return, Bookkeeping, BookkeepingFails, TypedRest, DispatchAssumption
  <2> QED
    BY <1>5, <2>2, <2>3 DEF Return, TypedJob, TypedRest
<1>6. CASE FinishAttempt(r)
  <2>1. PICK a \in Accounts, o \in Outcomes : a = job[r].on /\ o = job[r].out
    BY <1>6 DEF FinishAttempt, Working, WorkingOf
  <2>2. After(o) \in JobLive \cup {"idle", "over"}
    BY DEF After, JobLive
  <2>3. job' \in [Requests -> JobRow]
    BY <1>6, <2>1, <2>2, Rows DEF FinishAttempt
  <2>4. StateAfter(o) \in AttemptStates /\ ClassAfter(o) \in Classes /\ TaskAfter(o) \in BOOLEAN
    BY DEF StateAfter, ClassAfter, TaskAfter, AttemptStates, Classes
  <2>5. SetState(r, a, StateAfter(o), ClassAfter(o), TaskAfter(o)) \/ UNCHANGED attempt
    BY <1>6, <2>1 DEF FinishAttempt
  <2>6. attempt' \in [Requests -> [Accounts -> AttemptRow]]
    BY <2>4, <2>5, AttemptRows DEF TypedJob
  <2>7. faults' \in 0 .. MaxFaults
    BY <1>6, DispatchAssumption DEF FinishAttempt, Bookkeeping, BookkeepingFails, TypedRest, DispatchAssumption
  <2> QED
    BY <1>6, <2>3, <2>6, <2>7 DEF FinishAttempt, TypedJob, TypedRest
<1>7. CASE GiveUp(r)
  BY <1>7, Rows DEF GiveUp, Quiet, TypedJob, TypedRest, JobLive
<1>8. CASE Store(r)
  BY <1>8, Rows DEF Store, Quiet, TypedJob, TypedRest, JobLive
<1>9. CASE Complete(r)
  BY <1>9, Rows DEF Complete, Quiet, TypedJob, TypedRest, JobLive, EventStates
<1>10. CASE Fail(r)
  BY <1>10, Rows DEF Fail, Quiet, TypedJob, TypedRest, JobLive, EventStates
<1> QED
  BY <1>1, <1>2, <1>3, <1>4, <1>5, <1>6, <1>7, <1>8, <1>9, <1>10 DEF JobStep

\* A step of the recovery of a request.
LEMMA RecTypes ==
    ASSUME TypedJob, TypedRest, Working, NEW r \in Requests, RecStep(r) \/ LookAccepted(r)
    PROVE  TypedJob' /\ TypedRest'
<1>1. CASE LookAccepted(r)
  <2>1. RecOf("looked", None) \in RecRow
    BY DEF RecOf, RecRow
  <2> QED
    BY <1>1, <2>1 DEF LookAccepted, RecOnly, TypedJob, TypedRest
<1>2. CASE StartRecovery(r)
  <2>1. \A a \in Accounts : RecOf("polling", a) \in RecRow
    BY DEF RecOf, RecRow, RecLive
  <2> QED
    BY <1>2, <2>1, Rows DEF StartRecovery, RecOnly, TypedJob, TypedRest
<1>3. CASE Poll(r)
  BY <1>3, Rows DEF Poll, RecOnly, TypedJob, TypedRest, RecLive
<1>4. CASE RecFail(r)
  <2>1. rec[r].on \in Accounts
    BY <1>4 DEF RecFail, Working, WorkingOf, RecLive
  <2>2. attempt' \in [Requests -> [Accounts -> AttemptRow]]
    <3>1. CASE UNCHANGED attempt
      BY <3>1 DEF TypedJob
    <3>2. ASSUME NEW c \in {"quota", "other"}, SetState(r, rec[r].on, "failed", c, TRUE)
          PROVE  attempt' \in [Requests -> [Accounts -> AttemptRow]]
      <4>1. "failed" \in AttemptStates /\ c \in Classes
        BY DEF AttemptStates, Classes
      <4> QED
        BY <2>1, <3>2, <4>1, AttemptRows
    <3> QED
      BY <1>4, <3>1, <3>2 DEF RecFail
  <2> QED
    BY <1>4, <2>2, Rows DEF RecFail, RecOnly, TypedJob, TypedRest, EventStates
<1>5. CASE RecStore(r)
  BY <1>5, Rows DEF RecStore, RecOnly, TypedJob, TypedRest, RecLive
<1>6. CASE RecComplete(r)
  <2>1. rec[r].on \in Accounts
    BY <1>6 DEF RecComplete, Working, WorkingOf, RecLive
  <2>2. attempt' \in [Requests -> [Accounts -> AttemptRow]]
    <3>1. "succeeded" \in AttemptStates /\ "none" \in Classes
      BY DEF AttemptStates, Classes
    <3> QED
      BY <1>6, <2>1, <3>1, AttemptRows DEF RecComplete, TypedJob
  <2> QED
    BY <1>6, <2>2, Rows DEF RecComplete, RecOnly, TypedJob, TypedRest, EventStates
<1> QED
  BY <1>1, <1>2, <1>3, <1>4, <1>5, <1>6 DEF RecStep

\* A cancelled recovery ends, at once or later.
LEMMA Cancels ==
    ASSUME rec \in [Requests -> RecRow], NEW r \in Requests, CancelAfter(r)
    PROVE  /\ rec' \in [Requests -> RecRow]
           /\ rec'[r] = rec[r] \/ rec'[r].pc = "none"
           /\ \A q \in Requests \ {r} : rec'[q] = rec[q]
<1>1. PICK left \in Left(r) : rec' = [rec EXCEPT ![r] = left]
  BY DEF CancelAfter
<1>2. left = rec[r] \/ left = NoRec
  BY DEF Left, Cancelled
<1>3. left \in RecRow
  BY <1>2 DEF RecRow, NoRec, RecOf
<1> QED
  BY <1>1, <1>2, <1>3 DEF NoRec, RecOf

\* A step of the maintenance.
LEMMA MaintenanceTypes ==
    ASSUME TypedJob, TypedRest, NEW r \in Requests,
           Closing(r) \/ \E a \in Accounts : Maintenance(r, a)
    PROVE  TypedJob' /\ TypedRest'
<1>1. CASE PurgeStale(r)
  BY <1>1, Rows DEF PurgeStale, MaintOnly, TypedJob, TypedRest, EventStates
<1>2. ASSUME NEW a \in Accounts, Resolve(r, a) \/ InterruptedAdopted(r, a)
      PROVE  TypedJob' /\ TypedRest'
  <2>1. /\ event' \in [Requests -> EventStates]
        /\ rec' \in [Requests -> RecRow]
        /\ UNCHANGED <<stored, sweep>> /\ MaintOnly
    BY <1>2, Cancels DEF Resolve, InterruptedStored, InterruptedUnknown, InterruptedUnresolved, Adopt,
                      ResolveAbsent, ResolveUnverified, InterruptedAdopted, TypedJob, EventStates
  <2>2. PICK s \in AttemptStates, c \in Classes, t \in BOOLEAN : SetState(r, a, s, c, t)
    BY <1>2 DEF Resolve, InterruptedStored, InterruptedUnknown, InterruptedUnresolved, Adopt,
                ResolveAbsent, ResolveUnverified, InterruptedAdopted, AttemptStates, Classes
  <2>3. attempt' \in [Requests -> [Accounts -> AttemptRow]]
    BY <2>2, AttemptRows
  <2> QED
    BY <2>1, <2>3 DEF MaintOnly, TypedJob, TypedRest
<1>3. ASSUME NEW a \in Accounts, SweepClosed(r, a)
      PROVE  TypedJob' /\ TypedRest'
  BY <1>3 DEF SweepClosed, MaintOnly, TypedJob, TypedRest
<1>4. ASSUME NEW a \in Accounts, SweepProbe(r, a)
      PROVE  TypedJob' /\ TypedRest'
  <2>1. sweep' \in SweepRow \cup {None}
    BY <1>4 DEF SweepProbe, SweepRow, TypedRest
  <2> QED
    BY <1>4, <2>1 DEF SweepProbe, MaintOnly, TypedJob, TypedRest
<1> QED
  BY <1>1, <1>2, <1>3, <1>4 DEF Closing, Maintenance

\* A step of the provider or of the caller, and a crash.
LEMMA OutsideTypes ==
    ASSUME TypedJob, TypedRest, Working, NEW r \in Requests, Environment(r) \/ CallerStep(r)
    PROVE  TypedJob' /\ TypedRest'
<1>1. CASE Take(r)
  <2>1. PICK a \in Accounts : a = job[r].on
    BY <1>1 DEF Take, Working, WorkingOf
  <2>2. upstream' \in [Requests -> [Accounts -> TaskStates]]
    BY <1>1, <2>1 DEF Take, TypedRest, TaskStates
  <2>3. balance' \in [Accounts -> Nat]
    BY <1>1, <2>1 DEF Take, TypedRest
  <2> QED
    BY <1>1, <2>2, <2>3 DEF Take, TypedJob, TypedRest
<1>2. ASSUME NEW a \in Accounts, TaskEnds(r, a)
      PROVE  TypedJob' /\ TypedRest'
  <2>1. PICK u \in {"done", "rejected", "void"} :
           /\ upstream' = [upstream EXCEPT ![r][a] = u]
           /\ balance' = [balance EXCEPT ![a] = IF u = "void" THEN @ + 1 ELSE @]
    BY <1>2 DEF TaskEnds
  <2>2. upstream' \in [Requests -> [Accounts -> TaskStates]]
    BY <2>1 DEF TypedRest, TaskStates
  <2>3. balance' \in [Accounts -> Nat]
    BY <2>1 DEF TypedRest
  <2> QED
    BY <1>2, <2>2, <2>3 DEF TaskEnds, TypedJob, TypedRest
<1>3. CASE Acknowledge(r)
  <2>1. job[r].on \in Accounts
    BY <1>3 DEF Acknowledge, Working, WorkingOf
  <2>2. "accepted" \in AttemptStates /\ "none" \in Classes
    BY DEF AttemptStates, Classes
  <2>3. attempt' \in [Requests -> [Accounts -> AttemptRow]]
    BY <1>3, <2>1, <2>2, AttemptRows DEF Acknowledge
  <2> QED
    BY <1>3, <2>3 DEF Acknowledge, Quiet, TypedJob, TypedRest
<1>4. CASE Crash(r)
  <2>1. job[r].on \in Accounts \cup {None}
    BY DEF TypedJob, JobRow
  <2>2. job' \in [Requests -> JobRow]
    BY <1>4, <2>1, Rows DEF Crash
  <2>3. crashes' \in 0 .. MaxCrashes
    BY <1>4, DispatchAssumption DEF Crash, TypedRest, DispatchAssumption
  <2>4. sweep' \in SweepRow \cup {None}
    BY <1>4 DEF Crash, TypedRest
  <2> QED
    BY <1>4, <2>2, <2>3, <2>4, Rows DEF Crash, TypedJob, TypedRest
<1>5. CASE Deliver(r) \/ Refund(r) \/ Abandon(r)
  BY <1>5 DEF Deliver, Refund, Abandon, CallerOnly, TypedJob, TypedRest, CallerStates
<1>6. CASE CancelRecovery(r)
  <2>1. rec' \in [Requests -> RecRow]
    BY <1>6, Rows DEF CancelRecovery, TypedJob
  <2> QED
    BY <1>6, <2>1 DEF CancelRecovery, CallerOnly, TypedJob, TypedRest, CallerStates
<1>7. CASE CloseAbandoned(r)
  <2>1. event' \in [Requests -> EventStates]
    BY <1>7 DEF CloseAbandoned, TypedJob, EventStates
  <2> QED
    BY <1>7, <2>1 DEF CloseAbandoned, CallerOnly, TypedJob, TypedRest, CallerStates
<1> QED
  BY <1>1, <1>2, <1>3, <1>4, <1>5, <1>6, <1>7 DEF Environment, CallerStep

\* TypeOK in the parts these lemmas keep.
LEMMA TypeParts ==
    TypeOK <=> /\ TypedJob /\ TypedRest
               /\ hold \in [Requests -> [Accounts -> HoldStates]]
               /\ bucket \in [Accounts -> BucketRow]
BY DEF TypeOK, TypedJob, TypedRest, BucketRow, EventStates, TaskStates, JobRow, RecRow, SweepRow, CallerStates

LEMMA TypeStep ==
    ASSUME TypeOK, Working, Attempting, Next
    PROVE  TypeOK'
<1>1. TypedJob /\ TypedRest
  BY TypeParts
<1>2. ASSUME SweepSettle \/ \E a \in Accounts : RefreshQuota(a)
      PROVE  TypedJob' /\ TypedRest'
  BY <1>1, <1>2 DEF SweepSettle, RefreshQuota, MaintOnly, TypedJob, TypedRest
<1>3. TypedJob' /\ TypedRest'
  BY <1>1, <1>2, JobTypes, RecTypes, MaintenanceTypes, OutsideTypes DEF Next
<1>4. TypeOK' <=> /\ TypedJob' /\ TypedRest'
                  /\ hold' \in [Requests -> [Accounts -> HoldStates]]
                  /\ bucket' \in [Accounts -> BucketRow]
  BY DEF TypeOK, TypedJob, TypedRest, BucketRow, EventStates, TaskStates, JobRow, RecRow, SweepRow, CallerStates
<1> QED
  BY <1>3, <1>4, LedgerStep

-----------------------------------------------------------------------------
(***************************************************************************)
(* A step is about one request.                                            *)
(***************************************************************************)

StepOf(r) ==
    \/ JobStep(r) \/ RecStep(r) \/ LookAccepted(r) \/ Closing(r)
    \/ Environment(r) \/ CallerStep(r)
    \/ \E a \in Accounts : Maintenance(r, a)

\* All there is of a request but its reservations.
Same(q) ==
    /\ event'[q] = event[q] /\ stored'[q] = stored[q] /\ attempt'[q] = attempt[q]
    /\ upstream'[q] = upstream[q] /\ job'[q] = job[q] /\ rec'[q] = rec[q]
    /\ caller'[q] = caller[q]

LEMMA Unmoved ==
    ASSUME NEW q \in Requests, UNCHANGED <<event, stored, attempt, upstream, job, rec, caller>>
    PROVE  Same(q)
BY DEF Same

LEMMA Elsewhere ==
    ASSUME TypeOK, NEW r \in Requests, StepOf(r), NEW q \in Requests \ {r}
    PROVE  Same(q) /\ hold'[q] = hold[q]
<1>1. /\ event \in [Requests -> EventStates] /\ stored \in [Requests -> BOOLEAN]
      /\ attempt \in [Requests -> [Accounts -> AttemptRow]]
      /\ hold \in [Requests -> [Accounts -> HoldStates]]
      /\ upstream \in [Requests -> [Accounts -> TaskStates]]
      /\ job \in [Requests -> JobRow] /\ rec \in [Requests -> RecRow]
      /\ caller \in [Requests -> CallerStates]
  BY TypeParts DEF TypedJob, TypedRest
<1>2. CASE JobStep(r)
  BY <1>1, <1>2, ZenonT(40) DEF JobStep, Receive, TryAccount, Reserve, ReserveRejected, ReserveFails, Return, FinishAttempt, GiveUp,
       Store, Complete, Fail, Goto, SetState, Quiet, Book, Settle, Release, ReleaseObserved, MarkUncertain, Same
<1>3. CASE RecStep(r) \/ LookAccepted(r)
  BY <1>1, <1>3 DEF RecStep, LookAccepted, StartRecovery, Poll, RecFail, RecStore, RecComplete, RecGoto,
       SetState, RecOnly, Same
<1>4. CASE Closing(r)
  <2>1. rec' = rec \/ CancelAfter(r)
    BY <1>4 DEF Closing, PurgeStale, Resolve, InterruptedStored, InterruptedUnknown, InterruptedUnresolved,
         Adopt, ResolveAbsent, ResolveUnverified
  <2>2. rec'[q] = rec[q]
    BY <1>1, <2>1, Cancels
  <2> QED
    BY <1>1, <1>4, <2>2 DEF Closing, PurgeStale, Resolve, InterruptedStored, InterruptedUnknown,
         InterruptedUnresolved, Adopt, ResolveAbsent, ResolveUnverified, MarkUncertain, SetState, MaintOnly, Same
<1>5. CASE Environment(r)
  BY <1>1, <1>5 DEF Environment, Take, Acknowledge, Crash, TaskEnds, SetState, Quiet, Same
<1>6. CASE CallerStep(r)
  BY <1>1, <1>6 DEF CallerStep, Deliver, Refund, Abandon, CancelRecovery, CloseAbandoned, CallerOnly, Same
<1>7. CASE \E a \in Accounts : Maintenance(r, a)
  BY <1>1, <1>7 DEF Maintenance, InterruptedAdopted, SweepClosed, SweepProbe, Release, Settle, SetState,
       MaintOnly, Same
<1> QED
  BY <1>2, <1>3, <1>4, <1>5, <1>6, <1>7 DEF StepOf

\* What is true of a request nothing happens to stays true; a reservation may end
\* as settled meanwhile.
LEMMA SoundElsewhere ==
    ASSUME NEW q \in Requests, Sound(q), Same(q),
           \A a \in Accounts : hold'[q][a] = hold[q][a] \/ (hold[q][a] # "none" /\ hold'[q][a] # "released")
    PROVE  Sound(q)'
<1>1. WorkingOf(q)' /\ PhasesOf(q)' /\ ChargingOf(q)' /\ CompletingOf(q)'
  BY DEF Same, Sound, WorkingOf, PhasesOf, ChargingOf, CompletingOf, Sent
<1>2. AttemptingOf(q)'
  BY DEF Same, Sound, AttemptingOf
<1> QED
  BY <1>1, <1>2 DEF Sound

LEMMA ClosedElsewhere ==
    ASSUME NEW q \in Requests, ClosedOf(q), Same(q)
    PROVE  ClosedOf(q)'
BY DEF Same, ClosedOf, Pending

-----------------------------------------------------------------------------
(***************************************************************************)
(* What a step does to its own request.                                    *)
(***************************************************************************)

\* The rows of a request, and those that a step leaves alone.
KeptTask(r) == attempt'[r] = attempt[r] /\ upstream'[r] = upstream[r] /\ hold'[r] = hold[r]
KeptJob(r) == job'[r] = job[r] /\ stored'[r] = stored[r]

\* The goroutine, before it has an account and after it has let go of it.
LEMMA JobAlone ==
    ASSUME TypeOK, NEW r \in Requests, Sound(r),
           Receive(r) \/ GiveUp(r) \/ Store(r) \/ Complete(r) \/ Fail(r)
    PROVE  Sound(r)'
<1>1. /\ event \in [Requests -> EventStates] /\ stored \in [Requests -> BOOLEAN]
      /\ job \in [Requests -> JobRow]
  BY TypeParts DEF TypedJob, TypedRest
<1>2. KeptTask(r) /\ rec'[r] = rec[r] /\ caller'[r] = caller[r]
  BY DEF Receive, GiveUp, Store, Complete, Fail, Quiet, KeptTask
<1>3. job'[r].on = job[r].on /\ job'[r].out = job[r].out
  BY <1>1 DEF Receive, GiveUp, Store, Complete, Fail, Goto, JobRow
<1>4. \/ /\ job[r].pc = "idle" /\ job'[r].pc = "choosing" /\ event'[r] = "pending"
         /\ stored'[r] = stored[r]
      \/ /\ job[r].pc = "choosing" /\ job'[r].pc = "failing" /\ event'[r] = event[r]
         /\ stored'[r] = stored[r]
      \/ /\ job[r].pc = "storing" /\ event'[r] = event[r]
         /\ \/ job'[r].pc = "completing" /\ stored'[r] = TRUE
            \/ job'[r].pc = "failing" /\ stored'[r] = stored[r]
      \/ /\ job[r].pc = "completing" /\ job'[r].pc = "over" /\ event'[r] = "success"
         /\ stored'[r] = stored[r]
      \/ /\ job[r].pc = "failing" /\ job'[r].pc = "over" /\ event'[r] = "failed"
         /\ stored'[r] = stored[r]
  BY <1>1 DEF Receive, GiveUp, Store, Complete, Fail, Goto, JobRow
<1> QED
  BY <1>2, <1>3, <1>4 DEF KeptTask, Sound, WorkingOf, PhasesOf, ChargingOf, AttemptingOf, CompletingOf, Sent,
     JobLive, RecLive

\* The goroutine with an account.
LEMMA TryAccountSound ==
    ASSUME TypeOK, NEW r \in Requests, Sound(r), NEW a \in Accounts, TryAccount(r, a)
    PROVE  Sound(r)'
<1>1. TypedJob /\ job \in [Requests -> JobRow]
  BY TypeParts DEF TypedJob
<1>2. /\ attempt'[r][a].state = "submitting"
      /\ \A b \in Accounts \ {a} : attempt'[r][b] = attempt[r][b]
  BY <1>1, AttemptRows DEF TryAccount, AttemptStates, Classes
<1>3. job'[r].pc = "reserving" /\ job'[r].on = a /\ job'[r].out = "none"
  BY <1>1 DEF TryAccount, JobOf
<1>4. /\ event'[r] = event[r] /\ stored'[r] = stored[r] /\ hold'[r] = hold[r] /\ upstream'[r] = upstream[r]
      /\ rec'[r] = rec[r] /\ caller'[r] = caller[r]
      /\ job[r].pc = "choosing" /\ attempt[r][a].state = "none"
  BY DEF TryAccount
<1>5. WorkingOf(r)' /\ PhasesOf(r)' /\ CompletingOf(r)'
  BY <1>3, <1>4 DEF Sound, WorkingOf, PhasesOf, CompletingOf, JobLive, RecLive
<1>6. ChargingOf(r)' /\ AttemptingOf(r)'
  BY <1>2, <1>3, <1>4 DEF Sound, ChargingOf, AttemptingOf, Sent
<1> QED
  BY <1>5, <1>6 DEF Sound

LEMMA ReserveSound ==
    ASSUME TypeOK, NEW r \in Requests, Sound(r), Reserve(r)
    PROVE  Sound(r)'
<1>1. /\ job \in [Requests -> JobRow] /\ hold \in [Requests -> [Accounts -> HoldStates]]
  BY TypeParts DEF TypedJob
<1>2. PICK a \in Accounts : a = job[r].on
  BY DEF Reserve, Sound, WorkingOf
<1>3. job'[r].pc = "sending" /\ job'[r].on = a /\ job'[r].out = job[r].out
  BY <1>1, <1>2 DEF Reserve, Goto, JobRow
<1>4. hold'[r][a] = "held" /\ \A b \in Accounts \ {a} : hold'[r][b] = hold[r][b]
  BY <1>1, <1>2 DEF Reserve
<1>5. /\ event'[r] = event[r] /\ stored'[r] = stored[r] /\ attempt'[r] = attempt[r] /\ upstream'[r] = upstream[r]
      /\ rec'[r] = rec[r] /\ caller'[r] = caller[r] /\ job[r].pc = "reserving"
  BY DEF Reserve, Quiet
<1>6. WorkingOf(r)' /\ PhasesOf(r)' /\ CompletingOf(r)'
  BY <1>3, <1>5 DEF Sound, WorkingOf, PhasesOf, CompletingOf, JobLive, RecLive
<1>7. ChargingOf(r)' /\ AttemptingOf(r)'
  BY <1>2, <1>3, <1>4, <1>5 DEF Sound, ChargingOf, AttemptingOf, Sent
<1> QED
  BY <1>6, <1>7 DEF Sound

LEMMA ReserveRejectedSound ==
    ASSUME TypeOK, NEW r \in Requests, Sound(r), ReserveRejected(r)
    PROVE  Sound(r)'
<1>1. TypedJob /\ job \in [Requests -> JobRow]
  BY TypeParts DEF TypedJob
<1>2. PICK a \in Accounts : a = job[r].on
  BY DEF ReserveRejected, Sound, WorkingOf
<1>3. SetState(r, a, "failed", "quota", FALSE) \/ UNCHANGED attempt
  BY <1>2 DEF ReserveRejected
<1>4. /\ attempt'[r][a].state = "failed" \/ attempt'[r][a] = attempt[r][a]
      /\ \A b \in Accounts \ {a} : attempt'[r][b] = attempt[r][b]
  BY <1>1, <1>3, AttemptRows DEF AttemptStates, Classes
<1>5. job'[r].pc = "choosing" /\ job'[r].on = a /\ job'[r].out = job[r].out
  BY <1>1, <1>2 DEF ReserveRejected, Goto, JobRow
<1>6. /\ event'[r] = event[r] /\ stored'[r] = stored[r] /\ hold'[r] = hold[r] /\ upstream'[r] = upstream[r]
      /\ rec'[r] = rec[r] /\ caller'[r] = caller[r] /\ job[r].pc = "reserving"
  BY DEF ReserveRejected
<1>7. WorkingOf(r)' /\ PhasesOf(r)' /\ CompletingOf(r)'
  BY <1>5, <1>6 DEF Sound, WorkingOf, PhasesOf, CompletingOf, JobLive, RecLive
<1>8. ChargingOf(r)' /\ AttemptingOf(r)'
  BY <1>2, <1>4, <1>5, <1>6 DEF Sound, ChargingOf, AttemptingOf, Sent
<1> QED
  BY <1>7, <1>8 DEF Sound

LEMMA ReserveFailsSound ==
    ASSUME TypeOK, NEW r \in Requests, Sound(r), ReserveFails(r)
    PROVE  Sound(r)'
<1>1. TypedJob /\ job \in [Requests -> JobRow]
  BY TypeParts DEF TypedJob
<1>2. PICK a \in Accounts : a = job[r].on
  BY DEF ReserveFails, Sound, WorkingOf
<1>3. SetState(r, a, "failed", "other", FALSE)
  BY <1>2 DEF ReserveFails
<1>4. attempt'[r][a].state = "failed" /\ \A b \in Accounts \ {a} : attempt'[r][b] = attempt[r][b]
  BY <1>1, <1>3, AttemptRows DEF AttemptStates, Classes
<1>5. job'[r].pc = "failing" /\ job'[r].on = a /\ job'[r].out = job[r].out
  BY <1>1, <1>2 DEF ReserveFails, Goto, JobRow
<1>6. /\ event'[r] = event[r] /\ stored'[r] = stored[r] /\ hold'[r] = hold[r] /\ upstream'[r] = upstream[r]
      /\ rec'[r] = rec[r] /\ caller'[r] = caller[r] /\ job[r].pc = "reserving"
  BY DEF ReserveFails
<1>7. WorkingOf(r)' /\ PhasesOf(r)' /\ CompletingOf(r)'
  BY <1>5, <1>6 DEF Sound, WorkingOf, PhasesOf, CompletingOf, JobLive, RecLive
<1>8. ChargingOf(r)' /\ AttemptingOf(r)'
  BY <1>2, <1>4, <1>5, <1>6 DEF Sound, ChargingOf, AttemptingOf, Sent
<1> QED
  BY <1>7, <1>8 DEF Sound

\* What a booking may leave of the hold of an attempt.
LEMMA BookedHold ==
    ASSUME TypeOK, NEW r \in Requests, NEW a \in Accounts, NEW o \in Outcomes,
           Book(r, a, o) \/ UNCHANGED <<hold, bucket>>
    PROVE  /\ \A b \in Accounts \ {a} : hold'[r][b] = hold[r][b]
           /\ hold[r][a] = "none" => hold'[r][a] = "none"
           /\ hold'[r][a] = "released" =>
                 hold[r][a] = "released" \/ o \in {"temporary", "request", "uncharged"}
<1>1. hold \in [Requests -> [Accounts -> HoldStates]]
  BY TypeParts
<1> QED
  BY <1>1 DEF Book, Settle, Release, ReleaseObserved, MarkUncertain, Doubted, IsOpen, Open, Charged, AcceptedOutcomes

LEMMA ReturnSound ==
    ASSUME TypeOK, NEW r \in Requests, Sound(r), NEW o \in Outcomes, Return(r, o)
    PROVE  Sound(r)'
<1>1. /\ job \in [Requests -> JobRow] /\ hold \in [Requests -> [Accounts -> HoldStates]]
  BY TypeParts DEF TypedJob
<1>2. PICK a \in Accounts : a = job[r].on
  BY DEF Return, Sound, WorkingOf
<1>3. job'[r].pc = "finishing" /\ job'[r].on = a /\ job'[r].out = o
  BY <1>1, <1>2 DEF Return, JobOf
<1>4. Book(r, a, o) \/ UNCHANGED <<hold, bucket>>
  BY <1>2 DEF Return
<1>5. /\ \A b \in Accounts \ {a} : hold'[r][b] = hold[r][b]
      /\ hold[r][a] = "none" => hold'[r][a] = "none"
      /\ hold'[r][a] = "released" =>
            hold[r][a] = "released" \/ o \in {"temporary", "request", "uncharged"}
  BY <1>4, BookedHold
<1>6. /\ event'[r] = event[r] /\ stored'[r] = stored[r] /\ attempt'[r] = attempt[r] /\ upstream'[r] = upstream[r]
      /\ rec'[r] = rec[r] /\ caller'[r] = caller[r] /\ job[r].pc = "sending"
  BY DEF Return
<1>7. o \in RefusedOutcomes \/ FailsOver(o) => upstream[r][a] \in Uncharged
  BY <1>2 DEF Return, MayReport, RefusedOutcomes, FailsOver, Uncharged
<1>8. WorkingOf(r)' /\ PhasesOf(r)' /\ CompletingOf(r)'
  BY <1>2, <1>3, <1>6 DEF Sound, WorkingOf, PhasesOf, CompletingOf, JobLive, RecLive
<1>9. ChargingOf(r)'
  BY <1>2, <1>3, <1>6, <1>7 DEF Sound, ChargingOf, Sent
<1>10. AttemptingOf(r)'
  BY <1>2, <1>3, <1>5, <1>6, <1>7 DEF Sound, AttemptingOf, RefusedOutcomes
<1> QED
  BY <1>8, <1>9, <1>10 DEF Sound

LEMMA FinishAttemptSound ==
    ASSUME TypeOK, NEW r \in Requests, Sound(r), FinishAttempt(r)
    PROVE  Sound(r)'
<1>1. TypedJob /\ job \in [Requests -> JobRow]
  BY TypeParts DEF TypedJob
<1>2. PICK a \in Accounts, o \in Outcomes : a = job[r].on /\ o = job[r].out
  BY DEF FinishAttempt, Sound, WorkingOf
<1>3. job'[r].pc = After(o) /\ job'[r].on = a /\ job'[r].out = "none"
  BY <1>1, <1>2 DEF FinishAttempt, JobOf
<1>4. After(o) \in {"storing", "choosing", "over", "failing"} /\ (After(o) = "choosing" => FailsOver(o))
  BY DEF After
<1>5. StateAfter(o) \in AttemptStates /\ ClassAfter(o) \in Classes /\ TaskAfter(o) \in BOOLEAN
  BY DEF StateAfter, ClassAfter, TaskAfter, AttemptStates, Classes
<1>6. SetState(r, a, StateAfter(o), ClassAfter(o), TaskAfter(o)) \/ UNCHANGED attempt
  BY <1>2 DEF FinishAttempt
<1>7. /\ \A b \in Accounts \ {a} : attempt'[r][b] = attempt[r][b]
      /\ \/ attempt'[r][a] = attempt[r][a]
         \/ /\ attempt'[r][a].state = StateAfter(o)
            /\ TaskAfter(o) => attempt'[r][a].task
  <2>1. CASE UNCHANGED attempt
    BY <2>1
  <2>2. CASE SetState(r, a, StateAfter(o), ClassAfter(o), TaskAfter(o))
    BY <1>1, <1>5, <2>2, AttemptRows
  <2> QED
    BY <1>6, <2>1, <2>2
<1>8. /\ event'[r] = event[r] /\ stored'[r] = stored[r] /\ hold'[r] = hold[r] /\ upstream'[r] = upstream[r]
      /\ rec'[r] = rec[r] /\ caller'[r] = caller[r] /\ job[r].pc = "finishing"
  BY DEF FinishAttempt
<1>9. StateAfter(o) # "none" /\ (StateAfter(o) = "failed" /\ ~TaskAfter(o) => o \in RefusedOutcomes)
  BY DEF StateAfter, TaskAfter, Outcomes, AcceptedOutcomes, RefusedOutcomes
<1>10. WorkingOf(r)' /\ PhasesOf(r)' /\ CompletingOf(r)'
  BY <1>2, <1>3, <1>4, <1>8 DEF Sound, WorkingOf, PhasesOf, CompletingOf, JobLive, RecLive
<1>11. ChargingOf(r)'
  BY <1>2, <1>3, <1>4, <1>8 DEF Sound, ChargingOf, Sent
<1>12. AttemptingOf(r)'
  BY <1>2, <1>3, <1>4, <1>7, <1>8, <1>9 DEF Sound, AttemptingOf
<1> QED
  BY <1>10, <1>11, <1>12 DEF Sound

\* The recovery: it runs when the goroutine of the request is over.
LEMMA RecoverySound ==
    ASSUME TypeOK, NEW r \in Requests, Sound(r), RecStep(r) \/ LookAccepted(r)
    PROVE  Sound(r)'
<1>1. /\ TypedJob /\ event \in [Requests -> EventStates] /\ stored \in [Requests -> BOOLEAN]
      /\ rec \in [Requests -> RecRow]
  BY TypeParts DEF TypedJob
<1>2. job'[r] = job[r] /\ hold'[r] = hold[r] /\ upstream'[r] = upstream[r] /\ caller'[r] = caller[r]
  BY DEF RecStep, LookAccepted, StartRecovery, Poll, RecFail, RecStore, RecComplete, RecOnly
<1>3. ASSUME UNCHANGED <<event, attempt>>, stored'[r] = stored[r] \/ stored'[r],
             \/ rec'[r].pc \in {"none", "looked"} /\ job[r].pc # "idle"
             \/ rec'[r].pc \in RecLive /\ rec'[r].on \in Accounts /\ job[r].pc = "over",
             rec'[r].pc = "completing" => stored'[r]
      PROVE  Sound(r)'
  <2>1. WorkingOf(r)' /\ PhasesOf(r)' /\ CompletingOf(r)'
    BY <1>2, <1>3 DEF Sound, WorkingOf, PhasesOf, CompletingOf, RecLive
  <2>2. ChargingOf(r)' /\ AttemptingOf(r)'
    BY <1>2, <1>3 DEF Sound, ChargingOf, AttemptingOf, Sent
  <2> QED
    BY <2>1, <2>2 DEF Sound
<1>4. CASE LookAccepted(r)
  <2>1. job[r].pc # "idle"
    BY <1>4 DEF LookAccepted, Pending, Sound, PhasesOf
  <2>2. rec'[r].pc = "looked"
    BY <1>1, <1>4 DEF LookAccepted, RecOf
  <2> QED
    BY <1>3, <1>4, <2>1, <2>2 DEF LookAccepted, RecLive
<1>5. CASE StartRecovery(r)
  <2>1. job[r].pc # "idle"
    BY <1>5 DEF StartRecovery, Sound, PhasesOf
  <2>2. \/ rec'[r].pc = "none"
        \/ rec'[r].pc = "polling" /\ rec'[r].on \in Accounts /\ ~Live(r)
    BY <1>1, <1>5 DEF StartRecovery, RecOf, NoRec
  <2>3. ~Live(r) => job[r].pc = "over"
    BY <1>1, <2>1 DEF Live, TypedJob, JobRow
  <2> QED
    BY <1>3, <1>5, <2>1, <2>2, <2>3 DEF StartRecovery, RecLive
<1>6. CASE Poll(r)
  <2>1. job[r].pc = "over" /\ rec[r].on \in Accounts
    BY <1>6 DEF Poll, Sound, PhasesOf, WorkingOf, RecLive
  <2>2. \/ rec'[r].pc = "none"
        \/ rec'[r].pc \in {"storing", "failing"} /\ rec'[r].on = rec[r].on
    BY <1>1, <1>6 DEF Poll, RecGoto, NoRec, RecOf, RecRow
  <2> QED
    BY <1>3, <1>6, <2>1, <2>2 DEF Poll, RecLive
<1>7. CASE RecStore(r)
  <2>1. job[r].pc = "over" /\ rec[r].on \in Accounts
    BY <1>7 DEF RecStore, Sound, PhasesOf, WorkingOf, RecLive
  <2>2. \/ rec'[r].pc = "none" /\ (stored'[r] = stored[r] \/ stored'[r])
        \/ rec'[r].pc = "completing" /\ rec'[r].on = rec[r].on /\ stored'[r]
    BY <1>1, <1>7 DEF RecStore, RecGoto, NoRec, RecOf, RecRow
  <2> QED
    BY <1>3, <1>7, <2>1, <2>2 DEF RecStore, RecLive
<1>8. CASE RecFail(r) \/ RecComplete(r)
  <2>1. job[r].pc = "over" /\ rec[r].on \in Accounts
    BY <1>8 DEF RecFail, RecComplete, Sound, PhasesOf, WorkingOf, RecLive
  <2>2. PICK a \in Accounts : a = rec[r].on
    BY <2>1
  <2>3. \/ UNCHANGED attempt
        \/ \E s \in {"failed", "succeeded"}, c \in Classes : SetState(r, a, s, c, TRUE)
    BY <1>8, <2>2 DEF RecFail, RecComplete, Classes
  <2>4. /\ \A b \in Accounts \ {a} : attempt'[r][b] = attempt[r][b]
        /\ \/ attempt'[r][a] = attempt[r][a]
           \/ attempt'[r][a].state # "none" /\ attempt'[r][a].task
    <3>1. CASE UNCHANGED attempt
      BY <3>1
    <3>2. ASSUME NEW s \in {"failed", "succeeded"}, NEW c \in Classes, SetState(r, a, s, c, TRUE)
          PROVE  /\ \A b \in Accounts \ {a} : attempt'[r][b] = attempt[r][b]
                 /\ attempt'[r][a].state = s /\ attempt'[r][a].task
      <4>1. s \in AttemptStates
        BY DEF AttemptStates
      <4> QED
        BY <1>1, <3>2, <4>1, AttemptRows
    <3> QED
      BY <2>3, <3>1, <3>2
  <2>5. rec'[r].pc = "none" /\ stored'[r] = stored[r] /\ (event'[r] = "success" => stored[r])
    <3>1. rec' = [rec EXCEPT ![r] = NoRec] /\ UNCHANGED stored
      BY <1>8 DEF RecFail, RecComplete
    <3>2. CASE RecFail(r)
      BY <1>1, <3>1, <3>2 DEF RecFail, NoRec, RecOf
    <3>3. CASE RecComplete(r)
      BY <1>1, <3>1, <3>3 DEF RecComplete, NoRec, RecOf, Sound, CompletingOf
    <3> QED
      BY <1>8, <3>2, <3>3
  <2>6. WorkingOf(r)' /\ PhasesOf(r)' /\ CompletingOf(r)'
    BY <1>2, <2>1, <2>5 DEF Sound, WorkingOf, PhasesOf, CompletingOf, RecLive, JobLive
  <2>7. ChargingOf(r)' /\ AttemptingOf(r)'
    BY <1>2, <2>1, <2>4 DEF Sound, ChargingOf, AttemptingOf, Sent
  <2> QED
    BY <2>6, <2>7 DEF Sound
<1> QED
  BY <1>4, <1>5, <1>6, <1>7, <1>8 DEF RecStep

\* The maintenance decides an attempt of a request whose goroutine is over.
LEMMA ResolveSound ==
    ASSUME TypeOK, NEW r \in Requests, Sound(r), NEW a \in Accounts,
           Resolve(r, a) \/ InterruptedAdopted(r, a)
    PROVE  Sound(r)'
<1>1. /\ TypedJob /\ event \in [Requests -> EventStates] /\ rec \in [Requests -> RecRow]
      /\ hold \in [Requests -> [Accounts -> HoldStates]]
  BY TypeParts DEF TypedJob
<1>2. attempt[r][a].state # "none" /\ ~Live(r)
  BY DEF Resolve, InterruptedStored, InterruptedUnknown, InterruptedUnresolved, Adopt, ResolveAbsent,
         ResolveUnverified, InterruptedAdopted, Interrupted, LookedUp, Inflight
<1>3. job[r].pc = "over"
  BY <1>1, <1>2 DEF Live, TypedJob, JobRow, Sound, PhasesOf
<1>4. /\ job'[r] = job[r] /\ stored'[r] = stored[r] /\ upstream'[r] = upstream[r] /\ caller'[r] = caller[r]
      /\ \A b \in Accounts : hold'[r][b] = hold[r][b] \/ (hold[r][b] # "none" /\ hold'[r][b] # "released")
  <2>1. UNCHANGED <<job, stored, upstream, caller>> /\ (UNCHANGED hold \/ MarkUncertain(r, a))
    BY DEF Resolve, InterruptedStored, InterruptedUnknown, InterruptedUnresolved, Adopt, ResolveAbsent,
           ResolveUnverified, InterruptedAdopted, MaintOnly
  <2>2. MarkUncertain(r, a) => \A b \in Accounts :
           hold'[r][b] = hold[r][b] \/ (hold[r][b] # "none" /\ hold'[r][b] # "released")
    BY <1>1 DEF MarkUncertain, Doubted
  <2> QED
    BY <2>1, <2>2
<1>5. rec'[r] = rec[r] \/ rec'[r].pc = "none"
  <2>1. UNCHANGED rec \/ CancelAfter(r)
    BY DEF Resolve, InterruptedStored, InterruptedUnknown, InterruptedUnresolved, Adopt, ResolveAbsent,
           ResolveUnverified, InterruptedAdopted
  <2> QED
    BY <1>1, <2>1, Cancels
<1>6. event'[r] = "success" => stored[r]
  BY <1>1 DEF Resolve, InterruptedStored, InterruptedUnknown, InterruptedUnresolved, Adopt, ResolveAbsent,
         ResolveUnverified, InterruptedAdopted, ProvesStored, Sound, CompletingOf
<1>7. /\ \A b \in Accounts \ {a} : attempt'[r][b] = attempt[r][b]
      /\ attempt'[r][a].state # "none"
      /\ attempt'[r][a].state = "failed" => upstream[r][a] \in Uncharged
  <2>1. PICK s \in AttemptStates, c \in Classes, t \in BOOLEAN :
           SetState(r, a, s, c, t) /\ s # "none" /\ (s = "failed" => upstream[r][a] = "none")
    BY DEF Resolve, InterruptedStored, InterruptedUnknown, InterruptedUnresolved, Adopt, ResolveAbsent,
           ResolveUnverified, InterruptedAdopted, AttemptStates, Classes
  <2>2. attempt'[r][a].state = s /\ \A b \in Accounts \ {a} : attempt'[r][b] = attempt[r][b]
    BY <1>1, <2>1, AttemptRows
  <2> QED
    BY <2>1, <2>2 DEF Uncharged
<1>8. WorkingOf(r)' /\ PhasesOf(r)' /\ CompletingOf(r)'
  BY <1>3, <1>4, <1>5, <1>6 DEF Sound, WorkingOf, PhasesOf, CompletingOf, RecLive, JobLive
<1>9. ChargingOf(r)' /\ AttemptingOf(r)'
  BY <1>3, <1>4, <1>7 DEF Sound, ChargingOf, AttemptingOf, Sent
<1> QED
  BY <1>8, <1>9 DEF Sound

LEMMA SweepSound ==
    ASSUME TypeOK, NEW r \in Requests, Sound(r),
           PurgeStale(r) \/ \E a \in Accounts : SweepClosed(r, a) \/ SweepProbe(r, a)
    PROVE  Sound(r)'
<1>1. /\ TypedJob /\ event \in [Requests -> EventStates]
      /\ hold \in [Requests -> [Accounts -> HoldStates]]
  BY TypeParts DEF TypedJob
<1>2. /\ job'[r] = job[r] /\ stored'[r] = stored[r] /\ upstream'[r] = upstream[r] /\ caller'[r] = caller[r]
      /\ attempt'[r] = attempt[r] /\ rec'[r] = rec[r]
  BY DEF PurgeStale, SweepClosed, SweepProbe, MaintOnly
<1>3. event'[r] = event[r] \/ (event'[r] = "failed" /\ job[r].pc \notin JobLive \cup {"idle"})
  BY <1>1 DEF PurgeStale, SweepClosed, SweepProbe, Pending, Inflight, Live, Sound, PhasesOf
<1>4. ASSUME NEW b \in Accounts
      PROVE  /\ hold[r][b] = "none" => hold'[r][b] = "none"
             /\ hold'[r][b] = "released" =>
                   hold[r][b] = "released" \/ (attempt[r][b].state = "failed" /\ ~attempt[r][b].task)
  <2>1. CASE PurgeStale(r)
    BY <2>1 DEF PurgeStale
  <2>2. ASSUME NEW a \in Accounts, SweepClosed(r, a)
        PROVE  /\ hold[r][b] = "none" => hold'[r][b] = "none"
               /\ hold'[r][b] = "released" =>
                     hold[r][b] = "released" \/ (attempt[r][b].state = "failed" /\ ~attempt[r][b].task)
    BY <1>1, <2>2 DEF SweepClosed, Release, Settle, SweepReleases, IsOpen, Open
  <2>3. ASSUME NEW a \in Accounts, SweepProbe(r, a)
        PROVE  /\ hold[r][b] = "none" => hold'[r][b] = "none"
               /\ hold'[r][b] = "released" => hold[r][b] = "released"
    BY <1>1, <2>3 DEF SweepProbe, Doubted
  <2> QED
    BY <2>1, <2>2, <2>3
<1>5. WorkingOf(r)' /\ PhasesOf(r)' /\ CompletingOf(r)' /\ ChargingOf(r)'
  BY <1>2, <1>3 DEF Sound, WorkingOf, PhasesOf, CompletingOf, ChargingOf, Sent
<1>6. AttemptingOf(r)'
  BY <1>2, <1>4 DEF Sound, AttemptingOf
<1> QED
  BY <1>5, <1>6 DEF Sound

\* The provider and a crash.
LEMMA EnvironmentSound ==
    ASSUME TypeOK, NEW r \in Requests, Sound(r), Environment(r)
    PROVE  Sound(r)'
<1>1. /\ TypedJob /\ upstream \in [Requests -> [Accounts -> TaskStates]]
      /\ job \in [Requests -> JobRow] /\ rec \in [Requests -> RecRow]
  BY TypeParts DEF TypedJob, TypedRest
<1>2. /\ event'[r] = event[r] /\ stored'[r] = stored[r] /\ hold'[r] = hold[r] /\ caller'[r] = caller[r]
  BY DEF Environment, Take, Acknowledge, Crash, TaskEnds, Quiet
<1>3. CASE Take(r)
  <2>1. PICK a \in Accounts : a = job[r].on
    BY <1>3 DEF Take, Sound, WorkingOf
  <2>2. /\ \A b \in Accounts \ {a} : upstream'[r][b] = upstream[r][b]
        /\ job[r].pc = "sending" /\ job'[r] = job[r] /\ rec'[r] = rec[r] /\ attempt'[r] = attempt[r]
    BY <1>1, <1>3, <2>1 DEF Take
  <2>3. WorkingOf(r)' /\ PhasesOf(r)' /\ CompletingOf(r)'
    BY <1>2, <2>2 DEF Sound, WorkingOf, PhasesOf, CompletingOf
  <2>4. ChargingOf(r)' /\ AttemptingOf(r)'
    BY <1>2, <2>1, <2>2 DEF Sound, ChargingOf, AttemptingOf, Sent
  <2> QED
    BY <2>3, <2>4 DEF Sound
<1>4. ASSUME NEW a \in Accounts, TaskEnds(r, a)
      PROVE  Sound(r)'
  <2>1. /\ \A b \in Accounts \ {a} : upstream'[r][b] = upstream[r][b]
        /\ upstream[r][a] \notin Uncharged
        /\ job'[r] = job[r] /\ rec'[r] = rec[r] /\ attempt'[r] = attempt[r]
    BY <1>1, <1>4 DEF TaskEnds, Uncharged
  <2>2. WorkingOf(r)' /\ PhasesOf(r)' /\ CompletingOf(r)'
    BY <1>2, <2>1 DEF Sound, WorkingOf, PhasesOf, CompletingOf
  <2>3. ChargingOf(r)' /\ AttemptingOf(r)'
    BY <1>2, <2>1 DEF Sound, ChargingOf, AttemptingOf, Sent
  <2> QED
    BY <2>2, <2>3 DEF Sound
<1>5. CASE Acknowledge(r)
  <2>1. PICK a \in Accounts : a = job[r].on
    BY <1>5 DEF Acknowledge, Sound, WorkingOf
  <2>2. SetState(r, a, "accepted", "none", TRUE)
    BY <1>5, <2>1 DEF Acknowledge
  <2>3. attempt'[r][a].state = "accepted" /\ \A b \in Accounts \ {a} : attempt'[r][b] = attempt[r][b]
    BY <1>1, <2>2, AttemptRows DEF AttemptStates, Classes
  <2>4. /\ job[r].pc = "sending" /\ job'[r] = job[r] /\ rec'[r] = rec[r] /\ upstream'[r] = upstream[r]
    BY <1>5 DEF Acknowledge, Quiet
  <2>5. WorkingOf(r)' /\ PhasesOf(r)' /\ CompletingOf(r)'
    BY <1>2, <2>4 DEF Sound, WorkingOf, PhasesOf, CompletingOf
  <2>6. ChargingOf(r)' /\ AttemptingOf(r)'
    BY <1>2, <2>1, <2>3, <2>4 DEF Sound, ChargingOf, AttemptingOf, Sent
  <2> QED
    BY <2>5, <2>6 DEF Sound
<1>6. CASE Crash(r)
  <2>1. /\ job'[r].pc = "over" /\ job'[r].on = job[r].on /\ rec'[r].pc = "none"
        /\ attempt'[r] = attempt[r] /\ upstream'[r] = upstream[r]
    BY <1>1, <1>6 DEF Crash, JobOf, NoRec, RecOf
  <2>2. WorkingOf(r)' /\ PhasesOf(r)' /\ CompletingOf(r)'
    BY <1>2, <2>1 DEF Sound, WorkingOf, PhasesOf, CompletingOf, JobLive, RecLive
  <2>3. ChargingOf(r)' /\ AttemptingOf(r)'
    BY <1>2, <2>1 DEF Sound, ChargingOf, AttemptingOf, Sent
  <2> QED
    BY <2>2, <2>3 DEF Sound
<1> QED
  BY <1>3, <1>4, <1>5, <1>6 DEF Environment

LEMMA CallerSound ==
    ASSUME TypeOK, NEW r \in Requests, Sound(r), CallerStep(r)
    PROVE  Sound(r)'
<1>1. /\ event \in [Requests -> EventStates] /\ rec \in [Requests -> RecRow]
      /\ job \in [Requests -> JobRow] /\ caller \in [Requests -> CallerStates]
  BY TypeParts DEF TypedJob, TypedRest
<1>2. KeptTask(r) /\ KeptJob(r)
  BY DEF CallerStep, Deliver, Refund, Abandon, CancelRecovery, CloseAbandoned, CallerOnly, KeptTask, KeptJob
<1>3. caller'[r] \in {"abandoning", "closing"} => job[r].pc = "over"
  BY <1>1 DEF CallerStep, Deliver, Refund, Abandon, CancelRecovery, CloseAbandoned, Pending, Live, JobRow, Sound, PhasesOf
<1>4. \/ event'[r] = event[r]
      \/ event'[r] = "failed" /\ job[r].pc = "over"
  BY <1>1 DEF CallerStep, Deliver, Refund, Abandon, CancelRecovery, CloseAbandoned, Sound, PhasesOf
<1>5. rec'[r] = rec[r] \/ rec'[r].pc = "none"
  <2>1. CASE Deliver(r) \/ Refund(r) \/ Abandon(r)
    BY <2>1 DEF Deliver, Refund, Abandon
  <2>2. CASE CloseAbandoned(r)
    BY <2>2 DEF CloseAbandoned
  <2>3. CASE CancelRecovery(r)
    <3>1. Cancelled(r) = rec[r] \/ Cancelled(r).pc = "none"
      BY DEF Cancelled, NoRec, RecOf
    <3> QED
      BY <1>1, <2>3, <3>1 DEF CancelRecovery
  <2> QED
    BY <2>1, <2>2, <2>3 DEF CallerStep
<1>6. WorkingOf(r)' /\ PhasesOf(r)' /\ CompletingOf(r)'
  BY <1>2, <1>3, <1>4, <1>5 DEF KeptTask, KeptJob, Sound, WorkingOf, PhasesOf, CompletingOf, RecLive, JobLive
<1>7. ChargingOf(r)' /\ AttemptingOf(r)'
  BY <1>2 DEF KeptTask, KeptJob, Sound, ChargingOf, AttemptingOf, Sent
<1> QED
  BY <1>6, <1>7 DEF Sound

LEMMA SoundOwn ==
    ASSUME TypeOK, NEW r \in Requests, Sound(r), StepOf(r)
    PROVE  Sound(r)'
BY JobAlone, TryAccountSound, ReserveSound, ReserveRejectedSound, ReserveFailsSound, ReturnSound, FinishAttemptSound,
   RecoverySound, ResolveSound, SweepSound, EnvironmentSound, CallerSound
   DEF StepOf, JobStep, Closing, Maintenance

LEMMA SoundStep ==
    ASSUME TypeOK, AllSound, Next
    PROVE  AllSound'
<1>1. hold \in [Requests -> [Accounts -> HoldStates]]
  BY TypeParts
<1>2. ASSUME NEW r \in Requests, StepOf(r), NEW q \in Requests
      PROVE  Sound(q)'
  <2>1. CASE q = r
    BY <1>2, <2>1, SoundOwn DEF AllSound
  <2>2. CASE q # r
    BY <1>2, <2>2, Elsewhere, SoundElsewhere DEF AllSound
  <2> QED
    BY <2>1, <2>2
<1>3. ASSUME SweepSettle, NEW q \in Requests
      PROVE  Sound(q)'
  <2>1. Same(q)
    BY <1>3, Unmoved DEF SweepSettle, MaintOnly
  <2>2. \A a \in Accounts : hold'[q][a] = hold[q][a] \/ (hold[q][a] # "none" /\ hold'[q][a] # "released")
    BY <1>1, <1>3 DEF SweepSettle, Settle, IsOpen, Open
  <2> QED
    BY <2>1, <2>2, SoundElsewhere DEF AllSound
<1>4. ASSUME NEW a \in Accounts, RefreshQuota(a), NEW q \in Requests
      PROVE  Sound(q)'
  <2>1. Same(q) /\ hold'[q] = hold[q]
    BY <1>4, Unmoved DEF RefreshQuota, MaintOnly
  <2> QED
    BY <2>1, SoundElsewhere DEF AllSound
<1> QED
  BY <1>2, <1>3, <1>4 DEF AllSound, Next, StepOf

-----------------------------------------------------------------------------
(***************************************************************************)
(* Refunds.                                                                *)
(***************************************************************************)

\* Only a request that comes in makes its event pending.
LEMMA Pends ==
    ASSUME TypeOK, NEW r \in Requests, StepOf(r), event'[r] = "pending"
    PROVE  event[r] = "pending" \/ job[r].pc = "idle"
<1>1. event \in [Requests -> EventStates]
  BY TypeParts DEF TypedJob
<1>2. CASE JobStep(r)
  BY <1>1, <1>2 DEF JobStep, Receive, TryAccount, Reserve, ReserveRejected, ReserveFails, Return, FinishAttempt,
              GiveUp, Store, Complete, Fail
<1>3. CASE RecStep(r) \/ LookAccepted(r)
  BY <1>1, <1>3 DEF RecStep, LookAccepted, StartRecovery, Poll, RecFail, RecStore, RecComplete
<1>4. CASE Closing(r) \/ \E a \in Accounts : Maintenance(r, a)
  BY <1>1, <1>4 DEF Closing, PurgeStale, Resolve, InterruptedStored, InterruptedUnknown, InterruptedUnresolved,
              Adopt, ResolveAbsent, ResolveUnverified, Maintenance, InterruptedAdopted, SweepClosed, SweepProbe
<1>5. CASE Environment(r) \/ CallerStep(r)
  BY <1>1, <1>5 DEF Environment, Take, Acknowledge, Crash, TaskEnds, Quiet, CallerStep, Deliver, Refund, Abandon,
              CancelRecovery, CloseAbandoned
<1> QED
  BY <1>2, <1>3, <1>4, <1>5 DEF StepOf

\* A goroutine that is over stays over.
LEMMA StaysOver ==
    ASSUME TypeOK, NEW r \in Requests, StepOf(r), job[r].pc = "over"
    PROVE  job'[r].pc = "over" /\ ~JobStep(r)
<1>1. job \in [Requests -> JobRow]
  BY TypeParts DEF TypedJob
<1>2. ~JobStep(r)
  BY DEF JobStep, Receive, TryAccount, Reserve, ReserveRejected, ReserveFails, Return, FinishAttempt, GiveUp,
         Store, Complete, Fail
<1>3. CASE Crash(r)
  BY <1>1, <1>2, <1>3 DEF Crash, JobOf
<1>4. CASE ~Crash(r)
  <2>1. job' = job
    BY <1>2, <1>4 DEF StepOf, RecStep, LookAccepted, StartRecovery, Poll, RecFail, RecStore, RecComplete, RecOnly,
           Closing, PurgeStale, Resolve, InterruptedStored, InterruptedUnknown, InterruptedUnresolved,
           Adopt, ResolveAbsent, ResolveUnverified, Maintenance, InterruptedAdopted, SweepClosed, SweepProbe,
           MaintOnly, Environment, Take, Acknowledge, TaskEnds, Quiet,
           CallerStep, Deliver, Refund, Abandon, CancelRecovery, CloseAbandoned, CallerOnly
  <2> QED
    BY <1>2, <2>1
<1> QED
  BY <1>3, <1>4

\* The caller refunds what is not pending, and keeps to it.
LEMMA Refunds ==
    ASSUME TypeOK, NEW r \in Requests, StepOf(r), caller'[r] = "refunded"
    PROVE  caller[r] = "refunded" \/ Refund(r)
<1>1. caller \in [Requests -> CallerStates]
  BY TypeParts DEF TypedRest
<1>2. CASE CallerStep(r)
  BY <1>1, <1>2 DEF CallerStep, Deliver, Abandon, CancelRecovery, CloseAbandoned
<1>3. CASE JobStep(r) \/ RecStep(r) \/ LookAccepted(r)
  BY <1>3 DEF JobStep, Receive, TryAccount, Reserve, ReserveRejected, ReserveFails, Return, FinishAttempt, GiveUp,
       Store, Complete, Fail, Quiet, RecStep, LookAccepted, StartRecovery, Poll, RecFail, RecStore, RecComplete, RecOnly
<1>4. CASE Closing(r) \/ Environment(r) \/ \E a \in Accounts : Maintenance(r, a)
  BY <1>4 DEF Closing, PurgeStale, Resolve, InterruptedStored, InterruptedUnknown, InterruptedUnresolved,
       Adopt, ResolveAbsent, ResolveUnverified, Maintenance, InterruptedAdopted, SweepClosed, SweepProbe,
       MaintOnly, Environment, Take, Acknowledge, Crash, TaskEnds, Quiet
<1> QED
  BY <1>2, <1>3, <1>4 DEF StepOf

LEMMA ClosedOwn ==
    ASSUME TypeOK, NEW r \in Requests, Sound(r), ClosedOf(r), StepOf(r)
    PROVE  ClosedOf(r)'
<1> SUFFICES ASSUME caller'[r] = "refunded"
             PROVE  event'[r] # "pending" /\ job'[r].pc = "over"
  BY DEF ClosedOf, Pending
<1>1. event[r] # "pending" /\ job[r].pc = "over"
  <2>1. CASE caller[r] = "refunded"
    BY <2>1 DEF ClosedOf, Pending
  <2>2. CASE Refund(r)
    <3>1. job \in [Requests -> JobRow]
      BY TypeParts DEF TypedJob
    <3>2. job[r].pc \in JobLive \cup {"idle", "over"}
      BY <3>1 DEF JobRow
    <3> QED
      BY <2>2, <3>2 DEF Refund, Sound, PhasesOf
  <2> QED
    BY <2>1, <2>2, Refunds
<1> QED
  BY <1>1, Pends, StaysOver

LEMMA ClosedStep ==
    ASSUME TypeOK, AllSound, Closed, Next
    PROVE  Closed'
<1>1. ASSUME NEW r \in Requests, StepOf(r), NEW q \in Requests
      PROVE  ClosedOf(q)'
  <2>1. CASE q = r
    BY <1>1, <2>1, ClosedOwn DEF AllSound, Closed
  <2>2. CASE q # r
    BY <1>1, <2>2, Elsewhere, ClosedElsewhere DEF Closed
  <2> QED
    BY <2>1, <2>2
<1>2. ASSUME SweepSettle \/ \E a \in Accounts : RefreshQuota(a), NEW q \in Requests
      PROVE  ClosedOf(q)'
  <2>1. Same(q)
    BY <1>2, Unmoved DEF SweepSettle, RefreshQuota, MaintOnly
  <2> QED
    BY <2>1, ClosedElsewhere DEF Closed
<1> QED
  BY <1>1, <1>2 DEF Closed, Next, StepOf

\* After a refund the goroutine is over and the event closed: no sweep takes it
\* up, and a recovery that comes to look at it again drops its result.
LEMMA FinalOwn ==
    ASSUME TypeOK, NEW r \in Requests, ClosedOf(r), StepOf(r)
    PROVE  RefundStep(r)
<1> SUFFICES ASSUME caller[r] = "refunded"
             PROVE  /\ Decided(r)' => Decided(r)
                    /\ event'[r] = "success" => event[r] = "success" \/ Decided(r)
  BY DEF RefundStep
<1>1. ~Pending(r) /\ job[r].pc = "over"
  BY DEF ClosedOf
<1>2. ~JobStep(r)
  BY <1>1, StaysOver
<1>3. event \in [Requests -> EventStates] /\ rec \in [Requests -> RecRow]
  BY TypeParts DEF TypedJob
<1>4. CASE RecStep(r) \/ LookAccepted(r)
  <2>1. CASE RecComplete(r) \/ RecFail(r)
    <3>1. rec' = [rec EXCEPT ![r] = NoRec]
      BY <2>1 DEF RecComplete, RecFail
    <3>2. rec'[r].pc = "none"
      BY <1>3, <3>1 DEF NoRec, RecOf
    <3>3. event'[r] = "success" => Decided(r)
      BY <1>3, <2>1 DEF RecComplete, RecFail, Decided
    <3> QED
      BY <3>2, <3>3 DEF Decided
  <2>2. CASE RecStore(r)
    <3>1. event' = event
      BY <2>2 DEF RecStore
    <3>2. rec' = [rec EXCEPT ![r] = NoRec]
      BY <1>1, <2>2 DEF RecStore, StillPending
    <3>3. rec'[r].pc = "none"
      BY <1>3, <3>2 DEF NoRec, RecOf
    <3> QED
      BY <3>1, <3>3 DEF Decided
  <2>3. CASE LookAccepted(r) \/ StartRecovery(r) \/ Poll(r)
    <3>1. event' = event
      BY <2>3 DEF LookAccepted, StartRecovery, Poll
    <3>2. rec'[r].pc # "completing"
      BY <1>3, <2>3 DEF LookAccepted, StartRecovery, Poll, RecGoto, NoRec, RecOf, RecRow
    <3> QED
      BY <3>1, <3>2 DEF Decided
  <2> QED
    BY <1>4, <2>1, <2>2, <2>3 DEF RecStep
<1>5. CASE Closing(r) \/ \E a \in Accounts : Maintenance(r, a)
  <2>1. event'[r] = "success" => event[r] = "success"
    BY <1>1, <1>3, <1>5 DEF Closing, PurgeStale, Resolve, InterruptedStored, InterruptedUnknown,
                InterruptedUnresolved, Adopt, ResolveAbsent, ResolveUnverified, Maintenance, InterruptedAdopted,
                SweepClosed, SweepProbe, Interrupted
  <2>2. rec' = rec \/ CancelAfter(r)
    BY <1>5 DEF Closing, PurgeStale, Resolve, InterruptedStored, InterruptedUnknown,
                InterruptedUnresolved, Adopt, ResolveAbsent, ResolveUnverified, Maintenance, InterruptedAdopted,
                SweepClosed, SweepProbe
  <2>3. rec'[r].pc = rec[r].pc \/ rec'[r].pc = "none"
    BY <1>3, <2>2, Cancels
  <2> QED
    BY <2>1, <2>3 DEF Decided
<1>6. CASE Environment(r)
  <2>1. event' = event
    BY <1>6 DEF Environment, Take, Acknowledge, Crash, TaskEnds, Quiet
  <2>2. rec'[r] = rec[r] \/ rec'[r].pc = "none"
    <3>1. CASE Crash(r)
      BY <1>3, <3>1 DEF Crash, NoRec, RecOf
    <3>2. CASE ~Crash(r)
      BY <1>6, <3>2 DEF Environment, Take, Acknowledge, TaskEnds, Quiet
    <3> QED
      BY <3>1, <3>2
  <2> QED
    BY <2>1, <2>2 DEF Decided
<1>7. CASE CallerStep(r)
  BY <1>3, <1>7 DEF CallerStep, Deliver, Refund, Abandon, CancelRecovery, CloseAbandoned, Decided
<1> QED
  BY <1>2, <1>4, <1>5, <1>6, <1>7 DEF StepOf

-----------------------------------------------------------------------------
(***************************************************************************)
(* The theorems.                                                           *)
(***************************************************************************)

IInv == TypeOK /\ AllSound /\ QuotaLedger

LEMMA Initially == Init => IInv /\ Closed
<1> SUFFICES ASSUME Init PROVE IInv /\ Closed
  OBVIOUS
<1>1. TypeOK
  <2>1. /\ NoAttempt \in AttemptRow /\ JobOf("idle", None, "none") \in JobRow /\ NoRec \in RecRow
        /\ \A a \in Accounts : [remaining |-> Seen[a], reserved |-> 0] \in BucketRow
    BY DispatchAssumption DEF DispatchAssumption, NoAttempt, AttemptRow, AttemptStates, Classes, JobOf, JobRow,
       NoRec, RecOf, RecRow, BucketRow
  <2>2. TypedJob
    BY <2>1 DEF Init, TypedJob, EventStates
  <2>3. TypedRest
    BY DispatchAssumption DEF DispatchAssumption, Init, TypedRest, TaskStates, CallerStates
  <2>4. /\ hold \in [Requests -> [Accounts -> HoldStates]]
        /\ bucket \in [Accounts -> BucketRow]
    BY <2>1 DEF Init, HoldStates
  <2> QED
    BY <2>2, <2>3, <2>4, TypeParts
<1>2. AllSound /\ Closed
  BY DEF Init, AllSound, Sound, WorkingOf, PhasesOf, ChargingOf, AttemptingOf, CompletingOf, Closed,
         ClosedOf, JobOf, NoRec, RecOf, NoAttempt, JobLive, RecLive, Uncharged
<1>3. QuotaLedger
  <2>1. ASSUME NEW a \in Accounts
        PROVE  bucket[a].reserved = 0 /\ {r \in Requests : IsOpen(r, a)} = {}
    BY <2>1 DEF Init, IsOpen, Open
  <2>2. Cardinality({}) = 0
    BY FS_EmptySet
  <2> QED
    BY <2>1, <2>2 DEF QuotaLedger
<1> QED
  BY <1>1, <1>2, <1>3 DEF IInv

LEMMA Inductive == IInv /\ [Next]_vars => IInv'
<1> SUFFICES ASSUME IInv, [Next]_vars PROVE IInv'
  OBVIOUS
<1>1. Working /\ Attempting
  BY DEF IInv, AllSound, Sound, Working, Attempting
<1>2. CASE Next
  BY <1>1, <1>2, TypeStep, SoundStep, LedgerStep DEF IInv
<1>3. CASE UNCHANGED vars
  <2>1. \A q \in Requests : Same(q) /\ hold'[q] = hold[q]
    BY <1>3, Unmoved DEF vars
  <2>2. AllSound'
    BY <2>1, SoundElsewhere DEF IInv, AllSound
  <2>3. TypeOK'
    BY <1>3 DEF vars, IInv, TypeOK
  <2>4. QuotaLedger'
    BY <1>3 DEF vars, IInv, QuotaLedger, IsOpen
  <2> QED
    BY <2>2, <2>3, <2>4 DEF IInv
<1> QED
  BY <1>2, <1>3

LEMMA Invariant == Spec => []IInv
BY Initially, Inductive, PTL DEF Spec

\* TypeOK: rows, goroutines and counters keep their shape; the bucket of an
\* account never goes below zero.
THEOREM TypeCorrect == Spec => []TypeOK
BY Invariant, PTL DEF IInv

\* QuotaLedger: whatever ends a reservation - its goroutine, the sweep, a restart -
\* takes it off the bucket once.
THEOREM LedgerKept == Spec => []QuotaLedger
BY Invariant, PTL DEF IInv

\* ChargedOnce: the accounts that charged for a request are one at most.
THEOREM OneCharge == Spec => []ChargedOnce
<1>1. IInv => ChargedOnce
  <2> SUFFICES ASSUME IInv, NEW r \in Requests
               PROVE  Cardinality({a \in Accounts : upstream[r][a] \notin {"none", "void"}}) <= 1
    BY DEF ChargedOnce
  <2> DEFINE charged == {a \in Accounts : upstream[r][a] \notin {"none", "void"}}
  <2>1. charged \subseteq {job[r].on}
    BY DEF IInv, AllSound, Sound, ChargingOf, Uncharged
  <2>2. IsFiniteSet({job[r].on}) /\ Cardinality({job[r].on}) = 1
    BY FS_Singleton
  <2>3. Cardinality(charged) <= Cardinality({job[r].on})
    BY <2>1, <2>2, FS_Subset
  <2> QED
    BY <2>2, <2>3
<1> QED
  BY <1>1, Invariant, PTL

\* RefundOnlyUncharged: no reservation is given back for a charged request.
THEOREM ReleasedUncharged == Spec => []RefundOnlyUncharged
<1>1. IInv => RefundOnlyUncharged
  BY DEF IInv, AllSound, Sound, AttemptingOf, RefundOnlyUncharged, Uncharged
<1> QED
  BY <1>1, Invariant, PTL

\* DeliveredStored: an event that succeeded has its bytes.
THEOREM SuccessStored == Spec => []DeliveredStored
<1>1. IInv => DeliveredStored
  BY DEF IInv, AllSound, Sound, CompletingOf, DeliveredStored
<1> QED
  BY <1>1, Invariant, PTL

\* RefundFinal: after a refund only a recovery that had already read the event as
\* pending writes a success. That recoveries are cancelled is not needed for it.
THEOREM RefundIsFinal == Spec => RefundFinal
<1>1. IInv /\ Closed /\ [Next]_vars => Closed'
  <2> SUFFICES ASSUME IInv, Closed, [Next]_vars PROVE Closed'
    OBVIOUS
  <2>1. CASE Next
    BY <2>1, ClosedStep DEF IInv
  <2>2. CASE UNCHANGED vars
    BY <2>2 DEF vars, Closed, ClosedOf, Pending
  <2> QED
    BY <2>1, <2>2
<1>2. IInv /\ Closed /\ [Next]_vars => [\A r \in Requests : RefundStep(r)]_vars
  <2> SUFFICES ASSUME IInv, Closed, Next, NEW q \in Requests PROVE RefundStep(q)
    OBVIOUS
  <2>1. ASSUME NEW r \in Requests, StepOf(r), q # r
        PROVE  RefundStep(q)
    BY <2>1, Elsewhere DEF IInv, Same, RefundStep, Decided
  <2>2. CASE StepOf(q)
    BY <2>2, FinalOwn DEF IInv, Closed
  <2>3. CASE SweepSettle \/ \E a \in Accounts : RefreshQuota(a)
    BY <2>3 DEF SweepSettle, RefreshQuota, MaintOnly, RefundStep, Decided
  <2> QED
    BY <2>1, <2>2, <2>3 DEF Next, StepOf
<1>3. Init => Closed
  BY Initially
<1> QED
  BY <1>1, <1>2, <1>3, Invariant, PTL DEF Spec, RefundFinal

=============================================================================
