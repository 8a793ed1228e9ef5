---------------------------- MODULE UserFilesProofs ----------------------------
(***************************************************************************)
(* Theorems about UserFiles for every set of uploads, storage keys and     *)
(* workers, every size and limit and every environment.                    *)
(***************************************************************************)
EXTENDS UserFiles, TotalsProofs

-----------------------------------------------------------------------------
(***************************************************************************)
(* The parts of the transactions.                                          *)
(***************************************************************************)

\* q is d with the uploads of S queued, for later or for now. A row that is
\* there is kept.
Queues(q, S, later, d) ==
    /\ q \in [Uploads -> DeletionRow]
    /\ \A u \in Uploads :
          /\ u \in S /\ d[u].state = "none" =>
                /\ q[u].state = "pending"
                /\ later = "later" => q[u].waits
          /\ u \notin S \/ d[u].state # "none" => q[u] = d[u]

LEMMA QueuedIs ==
    /\ NoDeletion \in DeletionRow /\ NoDeletion.state = "none"
    /\ Queued(TRUE) \in DeletionRow /\ Queued(TRUE).state = "pending" /\ Queued(TRUE).waits
    /\ Queued(FALSE) \in DeletionRow /\ Queued(FALSE).state = "pending"
  BY DEF Queued, NoDeletion, DeletionRow

LEMMA QueueLater ==
    ASSUME NEW S, NEW d \in [Uploads -> DeletionRow]
    PROVE  Queues(Queue(S, TRUE, d), S, "later", d)
  BY QueuedIs DEF Queue, Queues

LEMMA QueueNow ==
    ASSUME NEW S, NEW d \in [Uploads -> DeletionRow]
    PROVE  Queues(Queue(S, FALSE, d), S, "now", d)
  BY QueuedIs DEF Queue, Queues

\* The sweep ends the expired reservations and leaves the others.
LEMMA SweptIs ==
    ASSUME TypeOK
    PROVE  /\ Swept \in [Uploads -> ReservationRow]
           /\ \A u \in Uploads :
                 /\ Swept[u].key = reservation[u].key
                 /\ Swept[u].replaces = reservation[u].replaces
                 /\ Swept[u].reserved = reservation[u].reserved
                 /\ Swept[u].cleanup = reservation[u].cleanup
                 /\ Swept[u].state = IF u \in Expired THEN "gone" ELSE reservation[u].state
<1> \A u \in Uploads : reservation[u] \in ReservationRow
  BY DEF TypeOK
<1> QED
  BY DEF Swept, Sweep, ReservationRow

LEMMA SweptDeletionsIs ==
    ASSUME TypeOK
    PROVE  Queues(SweptDeletions, Expired, "later", deletion)
<1>1. deletion \in [Uploads -> DeletionRow]
  BY DEF TypeOK
<1> QED
  BY <1>1, QueueLater DEF SweptDeletions

\* Refreshing changes whether a file is in use, and not which upload it is.
Refreshes(r, K, f, refs, held) ==
    /\ r \in [Keys -> FileRow]
    /\ \A k \in Keys :
          /\ r[k].upload = f[k].upload
          /\ k \notin K => r[k] = f[k]
          /\ k \in K /\ r[k].upload # None /\ r[k].since = "used" =>
                \/ \E d \in Domains : <<d, k>> \in refs
                \/ \E u \in held : reservation[u].key = k

LEMMA RefreshIs ==
    ASSUME NEW K, NEW f \in [Keys -> FileRow], NEW refs, NEW held
    PROVE  Refreshes(Refresh(K, f, refs, held), K, f, refs, held)
<1> \A k \in Keys : f[k] \in FileRow
  OBVIOUS
<1> QED
  BY DEF Refresh, Refreshes, FileRow

\* What a reservation asks for.
LEMMA ReservedIs ==
    ASSUME TypeOK, NEW u \in Uploads
    PROVE  /\ ReplacesNow(u) \in Uploads \cup {None}
           /\ ReservedBytes(u) \in Nat /\ CleanupBytes(u) \in Nat
           /\ CleanupBytes(u) >= SizeOf[u]
           /\ ReplacesNow(u) # None => /\ CleanupBytes(u) >= SizeOf[ReplacesNow(u)]
                                       /\ ReservedBytes(u) >= SizeOf[u] - SizeOf[ReplacesNow(u)]
           /\ ReplacesNow(u) = None => ReservedBytes(u) = SizeOf[u]
<1>1. ReplacesNow(u) \in Uploads \cup {None}
  BY DEF ReplacesNow, TypeOK
<1>2. SizeOf \in [Uploads -> Nat \ {0}]
  BY FilesAssumption
<1> QED
  BY <1>1, <1>2 DEF ReservedBytes, CleanupBytes

-----------------------------------------------------------------------------
(***************************************************************************)
(* What the transactions leave behind.                                     *)
(***************************************************************************)

\* The reservations of S end, and those of other uploads stay.
Ends(S) ==
    \A v \in Uploads :
        /\ reservation'[v].key = reservation[v].key
        /\ reservation'[v].replaces = reservation[v].replaces
        /\ reservation'[v].reserved = reservation[v].reserved
        /\ reservation'[v].cleanup = reservation[v].cleanup
        /\ reservation'[v].state = IF v \in S THEN "gone" ELSE reservation[v].state

\* The uploads of W are queued to wait for their grace, and those of N for now;
\* what was queued before stays as it is.
Dooms(W, N) ==
    \A v \in Uploads :
        /\ v \in W /\ deletion[v].state = "none" =>
              deletion'[v].state = "pending" /\ deletion'[v].waits
        /\ v \in N \ W /\ deletion[v].state = "none" => deletion'[v].state = "pending"
        /\ v \notin W \cup N \/ deletion[v].state # "none" => deletion'[v] = deletion[v]

\* Files change in whether they are in use only.
SameFiles == \A k \in Keys : file'[k].upload = file[k].upload

Typed == /\ file' \in [Keys -> FileRow]
         /\ reservation' \in [Uploads -> ReservationRow]
         /\ deletion' \in [Uploads -> DeletionRow]

LEMMA SweepShape ==
    ASSUME TypeOK, SweepReservations
    PROVE  Typed /\ Ends(Expired) /\ Dooms(Expired, {}) /\ SameFiles
<1>1. reservation' = Swept /\ deletion' = SweptDeletions
  BY DEF SweepReservations
<1>2. file' = Refresh(KeysOf(Expired), file, ref, Held \ Expired)
  BY DEF SweepReservations
<1>3. file \in [Keys -> FileRow]
  BY DEF TypeOK
<1>4. file' \in [Keys -> FileRow] /\ SameFiles
  BY <1>2, <1>3, RefreshIs DEF SameFiles, Refreshes
<1>5. Ends(Expired)
  BY <1>1, SweptIs DEF Ends
<1>6. deletion' \in [Uploads -> DeletionRow] /\ Dooms(Expired, {})
  <2>1. Queues(deletion', Expired, "later", deletion)
    BY <1>1, SweptDeletionsIs
  <2> QED
    BY <2>1 DEF Dooms, Queues
<1> QED
  BY <1>1, <1>4, <1>5, <1>6, SweptIs DEF Typed

LEMMA CancelShape ==
    ASSUME TypeOK, NEW u \in Uploads, CancelUserFileUploadReservation(u)
    PROVE  Typed /\ Ends({u}) /\ Dooms({u}, {}) /\ SameFiles
<1>1. /\ reservation' = [reservation EXCEPT ![u].state = "gone"]
      /\ deletion' = Queue({u}, TRUE, deletion)
      /\ file' = Refresh({reservation[u].key}, file, ref, Held \ {u})
  BY DEF CancelUserFileUploadReservation, DeletionsAfterCancel, FilesAfterCancel
<1>2. /\ \A v \in Uploads : reservation[v] \in ReservationRow
      /\ deletion \in [Uploads -> DeletionRow]
      /\ file \in [Keys -> FileRow]
  BY DEF TypeOK
<1>3. reservation' \in [Uploads -> ReservationRow] /\ Ends({u})
  BY <1>1, <1>2 DEF TypeOK, Ends, ReservationRow
<1>4. deletion' \in [Uploads -> DeletionRow] /\ Dooms({u}, {})
  <2>1. Queues(deletion', {u}, "later", deletion)
    BY <1>1, <1>2, QueueLater
  <2> QED
    BY <2>1 DEF Dooms, Queues
<1>5. file' \in [Keys -> FileRow] /\ SameFiles
  <2>1. Refreshes(file', {reservation[u].key}, file, ref, Held \ {u})
    BY <1>1, <1>2, RefreshIs
  <2> QED
    BY <2>1 DEF SameFiles, Refreshes
<1> QED
  BY <1>3, <1>4, <1>5 DEF Typed

\* The reservation of a storage key that is made takes the place of the one
\* before.
LEMMA ReserveShape ==
    ASSUME TypeOK, NEW u \in Uploads, ReserveUserFileUpload(u)
    PROVE  LET k == looked[u].key
               over == Expired \cup Superseded(k)
           IN  /\ Typed /\ SameFiles /\ Dooms(over, {})
               /\ k \in Keys /\ u \notin Held
               /\ \A v \in Uploads \ {u} :
                     /\ reservation'[v].key = reservation[v].key
                     /\ reservation'[v].replaces = reservation[v].replaces
                     /\ reservation'[v].reserved = reservation[v].reserved
                     /\ reservation'[v].cleanup = reservation[v].cleanup
                     /\ reservation'[v].state = IF v \in over THEN "gone" ELSE reservation[v].state
               /\ reservation'[u] = [state |-> "held", key |-> k, replaces |-> ReplacesNow(u),
                                     reserved |-> ReservedBytes(u), cleanup |-> CleanupBytes(u)]
<1> DEFINE k == looked[u].key
           over == Expired \cup Superseded(k)
           row == [state |-> "held", key |-> k, replaces |-> ReplacesNow(u),
                   reserved |-> ReservedBytes(u), cleanup |-> CleanupBytes(u)]
           r == [v \in Uploads |-> IF v \in Superseded(k) THEN [Swept[v] EXCEPT !.state = "gone"]
                                   ELSE Swept[v]]
           f == Refresh(KeysOf(Expired), file, ref, Held \ Expired)
<1>1. /\ reservation' = [r EXCEPT ![u] = row]
      /\ deletion' = Queue(Superseded(k), TRUE, SweptDeletions)
      /\ file' = IF Exists(k) THEN [f EXCEPT ![k].since = "used"] ELSE f
      /\ k # None /\ reservation[u].state = "unused"
  BY DEF ReserveUserFileUpload
<1>2. /\ \A v \in Uploads : reservation[v] \in ReservationRow
      /\ file \in [Keys -> FileRow]
      /\ k \in Keys
  BY <1>1 DEF TypeOK
<1>3. row \in ReservationRow
  BY <1>2, ReservedIs DEF ReservationRow
<1>4. /\ r \in [Uploads -> ReservationRow]
      /\ \A v \in Uploads :
            /\ r[v].key = reservation[v].key
            /\ r[v].replaces = reservation[v].replaces
            /\ r[v].reserved = reservation[v].reserved
            /\ r[v].cleanup = reservation[v].cleanup
            /\ r[v].state = IF v \in over THEN "gone" ELSE reservation[v].state
  BY <1>2, SweptIs DEF ReservationRow
<1>5. /\ reservation' \in [Uploads -> ReservationRow]
      /\ \A v \in Uploads \ {u} : reservation'[v] = r[v]
      /\ reservation'[u] = row
  <2> HIDE DEF r, row
  <2> QED BY <1>1, <1>3, <1>4
<1>6. deletion' \in [Uploads -> DeletionRow] /\ Dooms(over, {})
  <2>1. Queues(SweptDeletions, Expired, "later", deletion)
    BY SweptDeletionsIs
  <2>3. SweptDeletions \in [Uploads -> DeletionRow]
    BY <2>1 DEF Queues
  <2>2. Queues(deletion', Superseded(k), "later", SweptDeletions)
    BY <1>1, <2>3, QueueLater
  <2> HIDE DEF k
  <2> QED
    BY <2>1, <2>2 DEF Queues, Dooms
<1>7. file' \in [Keys -> FileRow] /\ SameFiles
  <2>1. Refreshes(f, KeysOf(Expired), file, ref, Held \ Expired)
    BY <1>2, RefreshIs
  <2>2. \A l \in Keys : f[l] \in FileRow
    BY <2>1 DEF Refreshes
  <2> HIDE DEF f
  <2> QED
    BY <1>1, <1>2, <2>1, <2>2 DEF Refreshes, SameFiles, FileRow
<1>8. u \notin Held
  BY <1>1 DEF Held
<1> HIDE DEF row, r, f
<1> QED
  BY <1>2, <1>4, <1>5, <1>6, <1>7, <1>8 DEF Typed, row

\* A reservation knows its storage key.
Named == \A u \in Held : reservation[u].key \in Keys

\* A confirmation puts the upload in the place of the file it replaces, or
\* gives it up.
LEMMA ConfirmShape ==
    ASSUME TypeOK, NEW u \in Uploads, ConfirmUserFileUpload(u), Named
    PROVE  LET k == reservation[u].key
           IN  /\ Typed /\ Ends(Expired \cup {u}) /\ k \in Keys
               /\ u \in Held \ Expired /\ u \in store
               /\ \/ /\ Replaceable(u) /\ RoomFor(u)
                     /\ Dooms(Expired, IF Exists(k) THEN {file[k].upload} ELSE {})
                     /\ file'[k].upload = u
                     /\ \A l \in Keys \ {k} : file'[l].upload = file[l].upload
                  \/ ~Replaceable(u) /\ Dooms(Expired, {u}) /\ SameFiles
<1> DEFINE k == reservation[u].key
           left == Held \ (Expired \cup {u})
           since == IF \E d \in Domains : <<d, k>> \in ref THEN "used" ELSE "idle"
           old == IF Exists(k) THEN {file[k].upload} ELSE {}
           f == Refresh(KeysOf(Expired), file, ref, Held \ Expired)
<1>1. /\ Confirmable(u)
      /\ reservation' = [Swept EXCEPT ![u].state = "gone"]
      /\ \/ /\ Replaceable(u) /\ RoomFor(u)
            /\ file' = [f EXCEPT ![k] = [upload |-> u, since |-> since]]
            /\ deletion' = Queue(old, FALSE, SweptDeletions)
         \/ /\ ~Replaceable(u)
            /\ file' = Refresh({k}, f, ref, left)
            /\ deletion' = Queue({u}, FALSE, SweptDeletions)
  BY DEF ConfirmUserFileUpload
<1>2. /\ u \in Held \ Expired /\ u \in store /\ k \in Keys
      /\ file \in [Keys -> FileRow]
  BY <1>1 DEF Confirmable, Named, TypeOK
<1>3. reservation' \in [Uploads -> ReservationRow] /\ Ends(Expired \cup {u})
  <2>1. \A v \in Uploads : Swept[v] \in ReservationRow
    BY SweptIs
  <2> QED
    BY <1>1, <2>1, SweptIs DEF Ends, ReservationRow
<1>4. /\ Queues(SweptDeletions, Expired, "later", deletion)
      /\ SweptDeletions \in [Uploads -> DeletionRow]
  BY SweptDeletionsIs DEF Queues
<1>5. /\ Refreshes(f, KeysOf(Expired), file, ref, Held \ Expired)
      /\ f \in [Keys -> FileRow]
  <2>1. Refreshes(f, KeysOf(Expired), file, ref, Held \ Expired)
    BY <1>2, RefreshIs
  <2> HIDE DEF f
  <2> QED
    BY <2>1 DEF Refreshes
<1>6. CASE Replaceable(u)
  <2>1. Queues(deletion', old, "now", SweptDeletions)
    <3>1. deletion' = Queue(old, FALSE, SweptDeletions)
      BY <1>1, <1>6
    <3> HIDE DEF old
    <3> QED
      BY <1>4, <3>1, QueueNow
  <2>2. deletion' \in [Uploads -> DeletionRow] /\ Dooms(Expired, old)
    <3> HIDE DEF old
    <3> QED BY <1>4, <2>1 DEF Queues, Dooms
  <2>3. [upload |-> u, since |-> since] \in FileRow
    BY DEF FileRow
  <2>4. /\ file' \in [Keys -> FileRow]
        /\ file'[k].upload = u
        /\ \A l \in Keys \ {k} : file'[l].upload = file[l].upload
    <3> HIDE DEF f, since
    <3> QED BY <1>1, <1>2, <1>5, <1>6, <2>3 DEF Refreshes
  <2>5. RoomFor(u)
    BY <1>1, <1>6
  <2> QED
    BY <1>2, <1>3, <1>6, <2>2, <2>4, <2>5 DEF Typed
<1>7. CASE ~Replaceable(u)
  <2>1. Queues(deletion', {u}, "now", SweptDeletions)
    <3>1. deletion' = Queue({u}, FALSE, SweptDeletions)
      BY <1>1, <1>7
    <3> QED
      BY <1>4, <3>1, QueueNow
  <2>2. deletion' \in [Uploads -> DeletionRow] /\ Dooms(Expired, {u})
    BY <1>4, <2>1 DEF Queues, Dooms
  <2>3. Refreshes(file', {k}, f, ref, left)
    <3>1. file' = Refresh({k}, f, ref, left)
      BY <1>1, <1>7
    <3> HIDE DEF f, left, k
    <3> QED
      BY <1>5, <3>1, RefreshIs
  <2>4. file' \in [Keys -> FileRow] /\ SameFiles
    <3> HIDE DEF f, left
    <3> QED BY <1>5, <2>3 DEF Refreshes, SameFiles
  <2> QED
    BY <1>2, <1>3, <1>7, <2>2, <2>4 DEF Typed
<1> QED
  BY <1>6, <1>7

\* A collection ends the expired reservations and dooms the object of one file.
LEMMA CollectShape ==
    ASSUME TypeOK, NEW k \in Keys, CollectUserFileGarbage(k)
    PROVE  /\ Typed /\ Ends(Expired) /\ Dooms(Expired, {file[k].upload})
           /\ Collectable(k) /\ file'[k].upload = None
           /\ \A l \in Keys \ {k} : file'[l].upload = file[l].upload
<1> DEFINE f == Refresh(KeysOf(Expired), file, ref, Held \ Expired)
<1>1. /\ Collectable(k)
      /\ reservation' = Swept
      /\ deletion' = Queue({file[k].upload}, FALSE, SweptDeletions)
      /\ file' = [f EXCEPT ![k] = NoFile]
  BY DEF CollectUserFileGarbage
<1>2. file \in [Keys -> FileRow]
  BY DEF TypeOK
<1>3. reservation' \in [Uploads -> ReservationRow] /\ Ends(Expired)
  BY <1>1, SweptIs DEF Ends
<1>4. Queues(SweptDeletions, Expired, "later", deletion)
  BY SweptDeletionsIs
<1>5. Queues(deletion', {file[k].upload}, "now", SweptDeletions)
  BY <1>1, <1>4, QueueNow, ZenonT(40) DEF Queues
<1>6. deletion' \in [Uploads -> DeletionRow] /\ Dooms(Expired, {file[k].upload})
  BY <1>4, <1>5 DEF Queues, Dooms
<1>7. Refreshes(f, KeysOf(Expired), file, ref, Held \ Expired)
  BY <1>2, RefreshIs
<1>8. NoFile \in FileRow /\ NoFile.upload = None
  BY DEF NoFile, FileRow
<1>9. /\ file' \in [Keys -> FileRow]
      /\ file'[k].upload = None
      /\ \A l \in Keys \ {k} : file'[l].upload = file[l].upload
  <2> HIDE DEF f
  <2> QED BY <1>1, <1>2, <1>7, <1>8 DEF Refreshes
<1> QED
  BY <1>1, <1>3, <1>6, <1>9 DEF Typed

-----------------------------------------------------------------------------
(***************************************************************************)
(* Types.                                                                  *)
(***************************************************************************)

LEMMA InitTypes == Init => TypeOK /\ Named
<1> SUFFICES ASSUME Init
             PROVE  TypeOK /\ Named
  OBVIOUS
<1>1. NoFile \in FileRow /\ Unused \in ReservationRow /\ Unused.state = "unused"
  BY DEF NoFile, FileRow, Unused, ReservationRow
<1> QED
  BY <1>1, QueuedIs DEF Init, TypeOK, Named, Held

\* Reservations end and are never given another storage key.
LEMMA NamedKept ==
    ASSUME Named, NEW S, Ends(S)
    PROVE  Named'
  BY DEF Named, Ends, Held

LEMMA TypesUpload ==
    ASSUME TypeOK, Named, NEW u \in Uploads, Upload(u)
    PROVE  TypeOK' /\ Named'
<1>1. CASE \E k \in Keys, archiving \in BOOLEAN : Look(u, k, archiving)
  <2>1. PICK k \in Keys, archiving \in BOOLEAN : Look(u, k, archiving)
    BY <1>1
  <2>2. file[k] \in FileRow
    BY DEF TypeOK
  <2>3. looked' \in [Uploads -> [key: Keys \cup {None}, replaces: Uploads \cup {None}]]
    BY <2>1, <2>2 DEF Look, TypeOK, FileRow
  <2> QED
    BY <2>1, <2>3 DEF Look, TypeOK, Named, Held
<1>2. CASE ReserveUserFileUpload(u)
  <2>1. /\ looked' = [looked EXCEPT ![u] = [key |-> None, replaces |-> None]]
        /\ UNCHANGED <<ref, store, putting, clock, holder, linking>>
    BY <1>2 DEF ReserveUserFileUpload
  <2>2. Named'
    <3>1. reservation'[u].key \in Keys
      <4>1. /\ looked[u].key \in Keys
            /\ reservation'[u] = [state |-> "held", key |-> looked[u].key,
                                  replaces |-> ReplacesNow(u), reserved |-> ReservedBytes(u),
                                  cleanup |-> CleanupBytes(u)]
        BY <1>2, ReserveShape
      <4> QED
        BY <4>1
    <3>2. \A v \in Uploads \ {u} :
             /\ reservation'[v].key = reservation[v].key
             /\ reservation'[v].state = "held" => reservation[v].state = "held"
      BY <1>2, ReserveShape
    <3> QED
      BY <3>1, <3>2 DEF Named, Held
  <2>3. Typed
    BY <1>2, ReserveShape
  <2> QED
    BY <2>1, <2>2, <2>3 DEF TypeOK, Typed
<1>3. CASE StartPut(u)
  BY <1>3 DEF StartPut, TypeOK, Named, Held
<1>4. CASE \E ok \in BOOLEAN : EndPut(u, ok)
  BY <1>4 DEF EndPut, TypeOK, Named, Held
<1>5. CASE ConfirmUserFileUpload(u)
  <2>1. UNCHANGED <<ref, store, putting, clock, looked, holder, linking>>
    BY <1>5 DEF ConfirmUserFileUpload
  <2>2. Typed /\ Ends(Expired \cup {u})
    BY <1>5, ConfirmShape
  <2> QED
    BY <2>1, <2>2, NamedKept DEF TypeOK, Typed
<1>6. CASE CancelUserFileUploadReservation(u)
  <2>1. UNCHANGED <<ref, store, putting, clock, looked, holder, linking>>
    BY <1>6 DEF CancelUserFileUploadReservation
  <2>2. Typed /\ Ends({u})
    BY <1>6, CancelShape
  <2> QED
    BY <2>1, <2>2, NamedKept DEF TypeOK, Typed
<1> QED
  BY <1>1, <1>2, <1>3, <1>4, <1>5, <1>6 DEF Upload

LEMMA TypesCollection ==
    ASSUME TypeOK, Named, Collection
    PROVE  TypeOK' /\ Named'
<1>1. UNCHANGED <<ref, store, putting, clock, looked, holder, linking>>
  BY DEF Collection, SweepReservations, CollectUserFileGarbage
<1>2. Typed /\ Ends(Expired)
  BY SweepShape, CollectShape DEF Collection
<1> QED
  BY <1>1, <1>2, NamedKept DEF TypeOK, Typed

LEMMA TypesDeletion ==
    ASSUME TypeOK, Named, NEW w \in Workers, Deletion(w)
    PROVE  TypeOK' /\ Named'
<1>1. \A u \in Uploads : deletion[u] \in DeletionRow
  BY DEF TypeOK
<1>2. CASE \E u \in Uploads : ClaimUserObjectDeletion(w, u)
  <2>1. PICK u \in Uploads : ClaimUserObjectDeletion(w, u)
    BY <1>2
  <2>2. [deletion[u] EXCEPT !.state = "processing", !.owner = w, !.lapsed = FALSE] \in DeletionRow
    BY <1>1 DEF DeletionRow
  <2>3. deletion' \in [Uploads -> DeletionRow] /\ holder' \in [Workers -> Uploads \cup {None}]
    BY <2>1, <2>2 DEF ClaimUserObjectDeletion, TypeOK
  <2> QED
    BY <2>1, <2>3 DEF ClaimUserObjectDeletion, TypeOK, Named, Held
<1>3. CASE DeleteObject(w)
  BY <1>3 DEF DeleteObject, TypeOK, Named, Held
<1>4. CASE \E ok \in BOOLEAN : FinishUserObjectDeletion(w, ok)
  <2>1. PICK ok \in BOOLEAN : FinishUserObjectDeletion(w, ok)
    BY <1>4
  <2>2. (IF ok THEN NoDeletion ELSE Queued(FALSE)) \in DeletionRow
    BY QueuedIs
  <2>3. deletion' \in [Uploads -> DeletionRow]
    BY <2>1, <2>2 DEF FinishUserObjectDeletion, TypeOK
  <2>4. holder' \in [Workers -> Uploads \cup {None}]
    BY <2>1 DEF FinishUserObjectDeletion, TypeOK
  <2> QED
    BY <2>1, <2>3, <2>4 DEF FinishUserObjectDeletion, TypeOK, Named, Held
<1> QED
  BY <1>2, <1>3, <1>4 DEF Deletion

LEMMA TypesReference ==
    ASSUME TypeOK, Named, Reference
    PROVE  TypeOK' /\ Named'
<1>1. file \in [Keys -> FileRow]
  BY DEF TypeOK
<1>2. CASE \E K \in SUBSET Keys : ApplyUserWorkspaceMutations(K)
  <2>1. PICK K \in SUBSET Keys : ApplyUserWorkspaceMutations(K)
    BY <1>2
  <2>2. file' \in [Keys -> FileRow]
    BY <1>1, <2>1, RefreshIs DEF ApplyUserWorkspaceMutations, Refreshes
  <2>3. ref' \subseteq Domains \X Keys
    BY <2>1 DEF ApplyUserWorkspaceMutations, Replaced, Domains, TypeOK
  <2> QED
    BY <2>1, <2>2, <2>3 DEF ApplyUserWorkspaceMutations, TypeOK, Named, Held
<1>3. CASE \E k \in Keys : CheckReference(k)
  BY <1>3 DEF CheckReference, TypeOK, Named, Held
<1>4. CASE SetUserFileReferences
  <2>1. file' \in [Keys -> FileRow]
    BY <1>1, <1>4, RefreshIs DEF SetUserFileReferences, Refreshes
  <2>2. ref' \subseteq Domains \X Keys
    BY <1>4 DEF SetUserFileReferences, Replaced, Domains, TypeOK
  <2> QED
    BY <1>4, <2>1, <2>2 DEF SetUserFileReferences, TypeOK, Named, Held
<1> QED
  BY <1>2, <1>3, <1>4 DEF Reference

LEMMA TypesEnvironment ==
    ASSUME TypeOK, Named, Time \/ Fault
    PROVE  TypeOK' /\ Named'
<1>1. /\ \A u \in Uploads : deletion[u] \in DeletionRow
      /\ \A k \in Keys : file[k] \in FileRow
  BY DEF TypeOK
<1>2. ASSUME NEW u \in Uploads, TypeOK, TicketExpires(u) \/ GraceEnds(u)
      PROVE  TypeOK' /\ Named'
  BY <1>2 DEF TicketExpires, GraceEnds, TypeOK, Named, Held
<1>3. ASSUME NEW u \in Uploads, LeaseLapses(u)
      PROVE  TypeOK' /\ Named'
  BY <1>1, <1>3 DEF LeaseLapses, DeletionRow, TypeOK, Named, Held
<1>4. ASSUME NEW k \in Keys, Age(k)
      PROVE  TypeOK' /\ Named'
  BY <1>1, <1>4 DEF Age, FileRow, TypeOK, Named, Held
<1>5. CASE Fault
  BY <1>5 DEF Fault, Lose, Crash, TypeOK, Named, Held
<1> QED
  BY <1>2, <1>3, <1>4, <1>5 DEF Time

LEMMA StepTypes == TypeOK /\ Named /\ [Next]_vars => TypeOK' /\ Named'
<1> SUFFICES ASSUME TypeOK, Named, [Next]_vars
             PROVE  TypeOK' /\ Named'
  OBVIOUS
<1>1. CASE Next
  BY <1>1, TypesUpload, TypesReference, TypesDeletion, TypesCollection, TypesEnvironment DEF Next
<1>2. CASE UNCHANGED vars
  BY <1>2 DEF vars, TypeOK, Named, Held
<1> QED
  BY <1>1, <1>2

\* Every row keeps its type, and every reservation its storage key.
THEOREM TypeCorrect == Spec => []TypeOK
<1>1. Init => TypeOK /\ Named
  BY InitTypes
<1> QED
  BY <1>1, StepTypes, PTL DEF Spec

-----------------------------------------------------------------------------
(***************************************************************************)
(* The life of an upload: held, then the object of one file, then doomed.  *)
(***************************************************************************)

Lifecycle ==
    /\ \A k, l \in Keys : Exists(k) /\ file[k].upload = file[l].upload => k = l
    /\ \A k \in Keys : Exists(k) => /\ reservation[file[k].upload].state = "gone"
                                    /\ deletion[file[k].upload].state = "none"
    /\ \A u \in Uploads : deletion[u].state # "none" => reservation[u].state = "gone"
    /\ \A w \in Workers : holder[w] # None =>
          /\ reservation[holder[w]].state = "gone"
          /\ \A k \in Keys : file[k].upload # holder[w]

\* What a row holds is an upload or nothing.
LEMMA RowsHoldUploads ==
    ASSUME TypeOK
    PROVE  /\ \A k \in Keys : file[k].upload \in Uploads \cup {None}
           /\ \A w \in Workers : holder[w] \in Uploads \cup {None}
           /\ None \notin Uploads
  BY FilesAssumption DEF TypeOK, FileRow

\* Reservations that end are not the objects of files, and may be doomed.
LEMMA LifecycleEnds ==
    ASSUME TypeOK, Lifecycle, NEW S \in SUBSET Held, NEW W \in SUBSET S, NEW N \in SUBSET S,
           Ends(S), Dooms(W, N), SameFiles, UNCHANGED holder
    PROVE  Lifecycle'
<1>1. \A k \in Keys : file'[k].upload = file[k].upload
  BY DEF SameFiles
<1>2. \A u \in Uploads : reservation[u].state = "gone" => reservation'[u].state = "gone"
  BY DEF Ends
<1>3. \A u \in Uploads : \/ u \in S /\ reservation'[u].state = "gone" /\ reservation[u].state = "held"
                         \/ u \notin S /\ deletion'[u] = deletion[u]
  BY DEF Ends, Dooms, Held
<1> QED
  BY <1>1, <1>2, <1>3, RowsHoldUploads DEF Lifecycle, Exists

LEMMA LifecycleReserve ==
    ASSUME TypeOK, Lifecycle, NEW u \in Uploads, ReserveUserFileUpload(u)
    PROVE  Lifecycle'
<1> DEFINE over == Expired \cup Superseded(looked[u].key)
<1>1. SameFiles /\ Dooms(over, {})
  BY ReserveShape
<1>2. reservation[u].state = "unused" /\ UNCHANGED holder
  BY DEF ReserveUserFileUpload
<1>3. \A v \in Uploads \ {u} :
         reservation'[v].state = IF v \in over THEN "gone" ELSE reservation[v].state
  BY ReserveShape
<1>4. \A v \in Uploads : v \in over => reservation[v].state = "held"
  BY DEF Expired, Superseded, Held
<1> HIDE DEF over
<1>5. \A k \in Keys : file'[k].upload = file[k].upload
  BY <1>1 DEF SameFiles
<1>6. \A v \in Uploads : reservation[v].state = "gone" => reservation'[v].state = "gone"
  BY <1>2, <1>3
<1>7. \A v \in Uploads : \/ v \in over /\ reservation'[v].state = "gone" /\ reservation[v].state = "held"
                         \/ v \notin over /\ deletion'[v] = deletion[v]
  BY <1>1, <1>2, <1>3, <1>4 DEF Dooms
<1> QED
  BY <1>2, <1>5, <1>6, <1>7, RowsHoldUploads DEF Lifecycle, Exists

LEMMA LifecycleConfirm ==
    ASSUME TypeOK, Named, Lifecycle, NEW u \in Uploads, ConfirmUserFileUpload(u)
    PROVE  Lifecycle'
<1> DEFINE k == reservation[u].key
           old == IF Exists(k) THEN {file[k].upload} ELSE {}
<1>1. UNCHANGED holder
  BY DEF ConfirmUserFileUpload
<1>2. Ends(Expired \cup {u}) /\ k \in Keys /\ u \in Held
  BY ConfirmShape
<1>3. Expired \cup {u} \in SUBSET Held
  BY <1>2 DEF Expired
<1>4. CASE Dooms(Expired, {u}) /\ SameFiles
  BY <1>1, <1>2, <1>3, <1>4, LifecycleEnds
<1>5. CASE /\ Dooms(Expired, old)
           /\ file'[k].upload = u
           /\ \A l \in Keys \ {k} : file'[l].upload = file[l].upload
  <2>1. \A v \in Uploads : reservation[v].state = "gone" => reservation'[v].state = "gone"
    BY <1>2 DEF Ends
  <2>2. reservation'[u].state = "gone" /\ reservation[u].state = "held"
    BY <1>2 DEF Ends, Held
  <2>3. \A v \in Uploads :
           \/ v \in Expired /\ reservation'[v].state = "gone" /\ reservation[v].state = "held"
           \/ v \in old /\ v \notin Expired
           \/ deletion'[v] = deletion[v]
    BY <1>2, <1>5 DEF Ends, Dooms, Expired, Held
  <2>4. u \notin Expired
    BY ConfirmShape
  <2>5. deletion'[u] = deletion[u] /\ deletion[u].state = "none"
    <3>1. u \notin old
      BY <1>2, <2>2 DEF Lifecycle
    <3>2. deletion[u].state = "none"
      BY <2>2 DEF Lifecycle
    <3> HIDE DEF old
    <3> QED
      BY <1>5, <2>4, <3>1, <3>2 DEF Dooms
  <2>6. \A l \in Keys : Exists(l) /\ l # k => file[l].upload \notin old
    BY <1>2 DEF Lifecycle
  <2>7. \A v \in old : v \in Uploads /\ reservation'[v].state = "gone"
    BY <1>2, <2>1, RowsHoldUploads DEF Lifecycle, Exists
  <2> HIDE DEF old
  <2>8. \A l \in Keys \ {k} : Exists(l) => /\ reservation'[file[l].upload].state = "gone"
                                           /\ deletion'[file[l].upload].state = "none"
                                           /\ file[l].upload # u
    BY <2>1, <2>2, <2>3, <2>6, RowsHoldUploads DEF Lifecycle, Exists
  <2>9. \A v \in Uploads : deletion'[v].state # "none" => reservation'[v].state = "gone"
    BY <2>1, <2>3, <2>7 DEF Lifecycle
  <2>10. \A w \in Workers : holder[w] # None =>
            /\ reservation'[holder[w]].state = "gone"
            /\ \A l \in Keys : file'[l].upload # holder[w]
    BY <1>2, <1>5, <2>1, <2>2, RowsHoldUploads DEF Lifecycle
  <2>11. \A l, m \in Keys : file'[l].upload # None /\ file'[l].upload = file'[m].upload => l = m
    BY <1>2, <1>5, <2>8, RowsHoldUploads DEF Lifecycle, Exists
  <2> QED
    BY <1>1, <1>2, <1>5, <2>2, <2>5, <2>8, <2>9, <2>10, <2>11 DEF Lifecycle, Exists
<1> QED
  BY <1>4, <1>5, ConfirmShape

LEMMA LifecycleCollect ==
    ASSUME TypeOK, Lifecycle, NEW k \in Keys, CollectUserFileGarbage(k)
    PROVE  Lifecycle'
<1> DEFINE old == {file[k].upload}
<1>1. UNCHANGED holder
  BY DEF CollectUserFileGarbage
<1>2. /\ Ends(Expired) /\ Dooms(Expired, old)
      /\ file'[k].upload = None
      /\ \A l \in Keys \ {k} : file'[l].upload = file[l].upload
      /\ Exists(k)
  BY CollectShape DEF Collectable, Exists
<1>3. \A v \in Uploads : reservation[v].state = "gone" => reservation'[v].state = "gone"
  BY <1>2 DEF Ends
<1>4. \A v \in Uploads :
         \/ v \in Expired /\ reservation'[v].state = "gone" /\ reservation[v].state = "held"
         \/ v \in old /\ v \notin Expired
         \/ deletion'[v] = deletion[v]
  BY <1>2 DEF Ends, Dooms, Expired, Held
<1>5. \A l \in Keys \ {k} : Exists(l) => /\ reservation'[file[l].upload].state = "gone"
                                         /\ deletion'[file[l].upload].state = "none"
  BY <1>2, <1>3, <1>4, RowsHoldUploads DEF Lifecycle, Exists
<1>6. \A v \in Uploads : deletion'[v].state # "none" => reservation'[v].state = "gone"
  BY <1>2, <1>3, <1>4 DEF Lifecycle
<1>7. \A w \in Workers : holder[w] # None =>
         /\ reservation'[holder[w]].state = "gone"
         /\ \A l \in Keys : file'[l].upload # holder[w]
  BY <1>2, <1>3, RowsHoldUploads DEF Lifecycle
<1> QED
  BY <1>1, <1>2, <1>5, <1>6, <1>7 DEF Lifecycle, Exists

\* A deletion worker takes what is doomed, and writes only what it has claimed.
LEMMA LifecycleDeletion ==
    ASSUME TypeOK, Lifecycle, NEW w \in Workers, Deletion(w)
    PROVE  Lifecycle'
<1>1. /\ \A u \in Uploads : deletion[u] \in DeletionRow
      /\ holder \in [Workers -> Uploads \cup {None}]
      /\ deletion \in [Uploads -> DeletionRow]
  BY DEF TypeOK
<1>2. CASE \E u \in Uploads : ClaimUserObjectDeletion(w, u)
  <2>1. PICK u \in Uploads : ClaimUserObjectDeletion(w, u)
    BY <1>2
  <2>2. deletion[u].state # "none" /\ UNCHANGED <<file, reservation>>
    BY <2>1 DEF ClaimUserObjectDeletion
  <2>3. /\ \A v \in Uploads : deletion'[v].state # "none" => deletion[v].state # "none"
        /\ holder' = [holder EXCEPT ![w] = u]
    BY <1>1, <2>1, <2>2 DEF ClaimUserObjectDeletion
  <2> QED
    BY <1>1, <2>2, <2>3, RowsHoldUploads DEF Lifecycle, Exists
<1>3. CASE DeleteObject(w)
  BY <1>3 DEF DeleteObject, Lifecycle, Exists
<1>4. CASE \E ok \in BOOLEAN : FinishUserObjectDeletion(w, ok)
  <2>1. /\ \A v \in Uploads : deletion'[v].state # "none" => deletion[v].state # "none"
        /\ holder' = [holder EXCEPT ![w] = None]
        /\ UNCHANGED <<file, reservation>>
    BY <1>1, <1>4, QueuedIs DEF FinishUserObjectDeletion, MyClaim
  <2> QED
    BY <1>1, <2>1, RowsHoldUploads DEF Lifecycle, Exists
<1> QED
  BY <1>2, <1>3, <1>4 DEF Deletion

\* References and time leave uploads where they are.
LEMMA FilesSame ==
    ASSUME TypeOK, Reference \/ Time
    PROVE  /\ SameFiles
           /\ UNCHANGED <<reservation, store, putting, looked, holder>>
<1>1. file \in [Keys -> FileRow] /\ \A k \in Keys : file[k] \in FileRow
  BY DEF TypeOK
<1>2. ASSUME NEW K, NEW refs, file' = Refresh(K, file, refs, Held)
      PROVE  SameFiles
  <2>1. Refreshes(file', K, file, refs, Held)
    BY <1>1, <1>2, RefreshIs
  <2> QED
    BY <2>1 DEF Refreshes, SameFiles
<1>3. CASE \E K \in SUBSET Keys : ApplyUserWorkspaceMutations(K)
  <2>1. PICK K \in SUBSET Keys : ApplyUserWorkspaceMutations(K)
    BY <1>3
  <2>2. SameFiles
    BY <1>2, <2>1 DEF ApplyUserWorkspaceMutations
  <2> QED
    BY <2>1, <2>2 DEF ApplyUserWorkspaceMutations
<1>4. CASE \E k \in Keys : CheckReference(k)
  BY <1>4 DEF CheckReference, SameFiles
<1>5. CASE SetUserFileReferences
  <2>1. SameFiles
    BY <1>2, <1>5 DEF SetUserFileReferences
  <2> QED
    BY <1>5, <2>1 DEF SetUserFileReferences
<1>6. CASE Time
  BY <1>1, <1>6 DEF Time, TicketExpires, GraceEnds, LeaseLapses, Age, FileRow, SameFiles
<1> QED
  BY <1>3, <1>4, <1>5, <1>6 DEF Reference

LEMMA StatesStay ==
    ASSUME TypeOK, Reference \/ Time
    PROVE  \A u \in Uploads : deletion'[u].state = deletion[u].state
<1>1. \A u \in Uploads : deletion[u] \in DeletionRow
  BY DEF TypeOK
<1>2. CASE UNCHANGED deletion
  BY <1>2
<1>3. ASSUME NEW u \in Uploads, LeaseLapses(u)
      PROVE  \A v \in Uploads : deletion'[v].state = deletion[v].state
  BY <1>1, <1>3 DEF LeaseLapses, TypeOK, DeletionRow
<1> QED
  BY <1>2, <1>3
  DEF Reference, ApplyUserWorkspaceMutations, CheckReference, SetUserFileReferences,
      Time, TicketExpires, GraceEnds, Age

THEOREM LifecycleHolds == Spec => [](TypeOK /\ Named /\ Lifecycle)
<1>1. Init => TypeOK /\ Named /\ Lifecycle
  <2>1. Init => Lifecycle
    BY QueuedIs DEF Init, Lifecycle, Exists, NoFile
  <2> QED
    BY <2>1, InitTypes
<1>2. TypeOK /\ Named /\ Lifecycle /\ [Next]_vars => (TypeOK /\ Named /\ Lifecycle)'
  <2> SUFFICES ASSUME TypeOK, Named, Lifecycle, [Next]_vars
               PROVE  Lifecycle'
    BY StepTypes
  <2>1. ASSUME NEW u \in Uploads, Upload(u)
        PROVE  Lifecycle'
    <3>1. CASE ReserveUserFileUpload(u)
      BY <3>1, LifecycleReserve
    <3>2. CASE ConfirmUserFileUpload(u)
      BY <3>2, LifecycleConfirm
    <3>3. CASE CancelUserFileUploadReservation(u)
      <4>1. UNCHANGED holder /\ {u} \in SUBSET Held
        BY <3>3 DEF CancelUserFileUploadReservation
      <4> QED
        BY <3>3, <4>1, CancelShape, LifecycleEnds
    <3>4. CASE UNCHANGED <<file, reservation, deletion, holder>>
      BY <3>4 DEF Lifecycle, Exists
    <3> QED
      BY <2>1, <3>1, <3>2, <3>3, <3>4 DEF Upload, Look, StartPut, EndPut
  <2>2. ASSUME Collection
        PROVE  Lifecycle'
    <3>1. CASE SweepReservations
      <4>1. UNCHANGED holder /\ Expired \in SUBSET Held
        BY <3>1 DEF SweepReservations, Expired
      <4> QED
        BY <3>1, <4>1, SweepShape, LifecycleEnds
    <3> QED
      BY <2>2, <3>1, LifecycleCollect DEF Collection
  <2>3. ASSUME Reference \/ Time
        PROVE  Lifecycle'
    <3>1. \A u \in Uploads : deletion'[u].state = deletion[u].state
      BY <2>3, StatesStay
    <3> QED
      BY <2>3, <3>1, FilesSame, RowsHoldUploads DEF SameFiles, Lifecycle, Exists
  <2>4. ASSUME Fault
        PROVE  Lifecycle'
    BY <2>4, RowsHoldUploads DEF Fault, Lose, Crash, TypeOK, Lifecycle, Exists
  <2>5. CASE UNCHANGED vars
    BY <2>5 DEF vars, Lifecycle, Exists
  <2> QED
    BY <2>1, <2>2, <2>3, <2>4, <2>5, LifecycleDeletion DEF Next
<1> QED
  BY <1>1, <1>2, PTL DEF Spec

\* The object of a confirmed file or of a live reservation is never queued for
\* deletion nor in the hands of a deletion worker.
THEOREM LiveNotDoomedHolds == Spec => []LiveNotDoomed
<1>1. TypeOK /\ Lifecycle => LiveNotDoomed
  <2> SUFFICES ASSUME TypeOK, Lifecycle, NEW u \in Live \cup Held,
                      u \in Doomed \cup {holder[w] : w \in Workers}
               PROVE  FALSE
    BY DEF LiveNotDoomed
  <2> QED
    BY RowsHoldUploads DEF Lifecycle, Live, Stored, Held, Doomed, Exists
<1> QED
  BY <1>1, LifecycleHolds, PTL

-----------------------------------------------------------------------------
(***************************************************************************)
(* References: what is named exists, and what is in use is used.           *)
(***************************************************************************)

Using(k, refs, held) ==
    \/ \E d \in Domains : <<d, k>> \in refs
    \/ \E u \in held : reservation[u].key = k

Uses(f, refs, held) ==
    \A k \in Keys : f[k].upload # None /\ f[k].since = "used" => Using(k, refs, held)

LEMMA ReferencesAre ==
    References <=> /\ \A k \in KeysNamedBy("document") : Exists(k)
                   /\ Uses(file, ref, Held)
  BY DEF References, Uses, Using, Exists

\* A file that is refreshed is in use when it says so; another one is when no
\* one that used it goes.
LEMMA RefreshUses ==
    ASSUME NEW K, NEW f, NEW r, NEW refs, NEW before, NEW held, NEW old,
           Refreshes(r, K, f, refs, held), Uses(f, before, old),
           \A k \in Keys \ K : Using(k, before, old) => Using(k, refs, held)
    PROVE  Uses(r, refs, held)
<1> SUFFICES ASSUME NEW k \in Keys, r[k].upload # None, r[k].since = "used"
             PROVE  Using(k, refs, held)
  BY DEF Uses
<1>1. CASE k \in K
  BY <1>1 DEF Refreshes, Using
<1>2. CASE k \notin K
  <2>1. r[k] = f[k]
    BY <1>2 DEF Refreshes
  <2> QED
    BY <1>2, <2>1 DEF Uses
<1> QED
  BY <1>1, <1>2

\* What is in use after the expired reservations are swept.
LEMMA SweepUses ==
    ASSUME TypeOK, References
    PROVE  LET f == Refresh(KeysOf(Expired), file, ref, Held \ Expired)
           IN  Refreshes(f, KeysOf(Expired), file, ref, Held \ Expired) /\ Uses(f, ref, Held \ Expired)
<1> DEFINE f == Refresh(KeysOf(Expired), file, ref, Held \ Expired)
<1>1. file \in [Keys -> FileRow]
  BY DEF TypeOK
<1>2. Refreshes(f, KeysOf(Expired), file, ref, Held \ Expired)
  BY <1>1, RefreshIs
<1>3. \A k \in Keys \ KeysOf(Expired) : Using(k, ref, Held) => Using(k, ref, Held \ Expired)
  BY DEF Using, KeysOf
<1>4. Uses(file, ref, Held)
  BY ReferencesAre
<1> HIDE DEF f
<1>5. Uses(f, ref, Held \ Expired)
  BY <1>2, <1>3, <1>4, RefreshUses
<1> QED
  BY <1>2, <1>5 DEF f

\* The primed form of what is in use, where the reservations keep their keys.
LEMMA UsesLater ==
    ASSUME NEW held, Uses(file', ref', held), held \subseteq Held',
           \A u \in held : reservation'[u].key = reservation[u].key
    PROVE  Uses(file, ref, Held)'
  BY DEF Uses, Using

LEMMA ReferencesLater ==
    ASSUME (\A k \in KeysNamedBy("document") : Exists(k))', Uses(file, ref, Held)'
    PROVE  References'
  BY DEF References, Uses, Using, Exists

LEMMA DocumentKept ==
    ASSUME TypeOK, References, ref' = ref,
           \A k \in Keys : \/ file'[k].upload = file[k].upload
                           \/ file'[k].upload # None
                           \/ \A d \in Domains : <<d, k>> \notin ref
    PROVE  (\A k \in KeysNamedBy("document") : Exists(k))'
<1>1. "document" \in Domains
  BY DEF Domains
<1> QED
  BY <1>1 DEF References, KeysNamedBy, Exists

LEMMA ReferencesUpload ==
    ASSUME TypeOK, Named, References, NEW u \in Uploads, Upload(u)
    PROVE  References'
<1> DEFINE f == Refresh(KeysOf(Expired), file, ref, Held \ Expired)
<1>1. /\ Refreshes(f, KeysOf(Expired), file, ref, Held \ Expired)
      /\ Uses(f, ref, Held \ Expired)
  BY SweepUses
<1>2. CASE ReserveUserFileUpload(u)
  <2> DEFINE k == looked[u].key
             over == Expired \cup Superseded(k)
  <2>1. /\ file' = IF Exists(k) THEN [f EXCEPT ![k].since = "used"] ELSE f
        /\ ref' = ref
    BY <1>2 DEF ReserveUserFileUpload
  <2>2. SameFiles /\ k \in Keys /\ u \notin Held
    BY <1>2, ReserveShape
  <2>3. \A v \in Uploads \ {u} :
           /\ reservation'[v].key = reservation[v].key
           /\ reservation'[v].state = IF v \in over THEN "gone" ELSE reservation[v].state
    BY <1>2, ReserveShape
  <2>4. reservation'[u].key = k /\ u \in Held'
    <3>1. reservation'[u] = [state |-> "held", key |-> looked[u].key,
                             replaces |-> ReplacesNow(u), reserved |-> ReservedBytes(u),
                             cleanup |-> CleanupBytes(u)]
      BY <1>2, ReserveShape
    <3> QED
      BY <3>1 DEF Held
  <2>5. Uses(file, ref, Held)'
    <3> SUFFICES ASSUME NEW l \in Keys, file'[l].upload # None, file'[l].since = "used"
                 PROVE  \/ \E d \in Domains : <<d, l>> \in ref'
                        \/ \E v \in Held' : reservation'[v].key = l
      BY DEF Uses, Using
    <3>1. CASE l = k
      BY <2>4, <3>1
    <3>2. CASE l # k
      <4>1. file'[l] = f[l]
        <5>1. f \in [Keys -> FileRow]
          BY <1>1 DEF Refreshes
        <5> HIDE DEF f, k
        <5> QED BY <2>1, <3>2, <5>1
      <4>2. Using(l, ref, Held \ Expired)
        BY <1>1, <4>1 DEF Uses
      <4>3. CASE \E d \in Domains : <<d, l>> \in ref
        BY <2>1, <4>3
      <4>4. ASSUME NEW v \in Held \ Expired, reservation[v].key = l
            PROVE  v \in Held' /\ reservation'[v].key = l
        <5>1. v \in Uploads \ {u} /\ v \notin over
          BY <2>2, <3>2, <4>4 DEF Held, Superseded
        <5> HIDE DEF over, k
        <5> QED BY <2>3, <4>4, <5>1 DEF Held
      <4> QED
        BY <4>2, <4>3, <4>4 DEF Using
    <3> QED
      BY <3>1, <3>2
  <2> QED
    BY <2>1, <2>2, <2>5, DocumentKept, ReferencesAre, ReferencesLater DEF SameFiles
<1>3. CASE ConfirmUserFileUpload(u)
  <2> DEFINE k == reservation[u].key
             left == Held \ (Expired \cup {u})
             since == IF \E d \in Domains : <<d, k>> \in ref THEN "used" ELSE "idle"
  <2>1. ref' = ref
    BY <1>3 DEF ConfirmUserFileUpload
  <2>2. k \in Keys /\ Ends(Expired \cup {u})
    BY <1>3, ConfirmShape
  <2>3. left \subseteq Held' /\ \A v \in left : reservation'[v].key = reservation[v].key
    BY <2>2 DEF Ends, Held
  <2>4. \A l \in Keys : file'[l].upload # file[l].upload => file'[l].upload # None
    BY <1>3, ConfirmShape, FilesAssumption DEF SameFiles
  <2>5. \A l \in Keys \ {k} : Using(l, ref, Held \ Expired) => Using(l, ref, left)
    BY DEF Using
  <2>6. CASE Replaceable(u)
    <3>1. file' = [f EXCEPT ![k] = [upload |-> u, since |-> since]]
      BY <1>3, <2>6 DEF ConfirmUserFileUpload
    <3>2. f \in [Keys -> FileRow]
      BY <1>1 DEF Refreshes
    <3>3. Uses(file', ref, left)
      <4>1. \A l \in Keys \ {k} : file'[l] = f[l]
        <5> HIDE DEF f, k, since
        <5> QED BY <3>1, <3>2
      <4>2. file'[k].since = since
        <5> HIDE DEF f, since
        <5> QED BY <2>2, <3>1, <3>2
      <4>3. since = "used" => Using(k, ref, left)
        BY DEF Using
      <4> HIDE DEF f, k, since, left
      <4> QED
        BY <1>1, <2>5, <4>1, <4>2, <4>3 DEF Uses
    <3> QED
      BY <2>1, <2>3, <2>4, <3>3, DocumentKept, UsesLater, ReferencesLater
  <2>7. CASE ~Replaceable(u)
    <3>1. file' = Refresh({k}, f, ref, left)
      BY <1>3, <2>7 DEF ConfirmUserFileUpload
    <3>2. f \in [Keys -> FileRow]
      BY <1>1 DEF Refreshes
    <3>3. Uses(file', ref, left)
      <4> HIDE DEF f, k, left
      <4>1. Refreshes(file', {k}, f, ref, left)
        BY <3>1, <3>2, RefreshIs
      <4> QED
        BY <1>1, <2>5, <4>1, RefreshUses
    <3> QED
      BY <2>1, <2>3, <2>4, <3>3, DocumentKept, UsesLater, ReferencesLater
  <2> QED
    BY <2>6, <2>7
<1>4. CASE CancelUserFileUploadReservation(u)
  <2> DEFINE K == {reservation[u].key}
             left == Held \ {u}
  <2>1. file' = Refresh(K, file, ref, left) /\ ref' = ref
    BY <1>4 DEF CancelUserFileUploadReservation, FilesAfterCancel
  <2>2. file \in [Keys -> FileRow]
    BY DEF TypeOK
  <2>3. Ends({u}) /\ SameFiles
    BY <1>4, CancelShape
  <2>4. left \subseteq Held' /\ \A v \in left : reservation'[v].key = reservation[v].key
    BY <2>3 DEF Ends, Held
  <2>5. \A l \in Keys \ K : Using(l, ref, Held) => Using(l, ref, left)
    BY DEF Using
  <2>6. Uses(file', ref, left)
    <3> HIDE DEF K, left
    <3>1. Refreshes(file', K, file, ref, left)
      BY <2>1, <2>2, RefreshIs
    <3> QED
      BY <2>5, <3>1, RefreshUses, ReferencesAre
  <2> QED
    BY <2>1, <2>3, <2>4, <2>6, DocumentKept, UsesLater, ReferencesLater DEF SameFiles
<1>5. CASE UNCHANGED <<file, reservation, ref>>
  BY <1>5 DEF References, KeysNamedBy, Exists, Held
<1> QED
  BY <1>2, <1>3, <1>4, <1>5 DEF Upload, Look, StartPut, EndPut

LEMMA ReferencesCollection ==
    ASSUME TypeOK, Named, References, Collection
    PROVE  References'
<1> DEFINE f == Refresh(KeysOf(Expired), file, ref, Held \ Expired)
<1>1. /\ Refreshes(f, KeysOf(Expired), file, ref, Held \ Expired)
      /\ Uses(f, ref, Held \ Expired)
  BY SweepUses
<1>2. Ends(Expired) /\ ref' = ref
  BY SweepShape, CollectShape DEF Collection, SweepReservations, CollectUserFileGarbage
<1>3. /\ Held \ Expired \subseteq Held'
      /\ \A v \in Held \ Expired : reservation'[v].key = reservation[v].key
  BY <1>2 DEF Ends, Held
<1>4. CASE SweepReservations
  <2>1. file' = f
    BY <1>4 DEF SweepReservations
  <2>2. SameFiles
    BY <1>4, SweepShape
  <2> QED
    BY <1>1, <1>2, <1>3, <2>1, <2>2, DocumentKept, UsesLater, ReferencesLater DEF SameFiles
<1>5. ASSUME NEW k \in Keys, CollectUserFileGarbage(k)
      PROVE  References'
  <2>1. file' = [f EXCEPT ![k] = NoFile]
    BY <1>5 DEF CollectUserFileGarbage
  <2>2. /\ file'[k].upload = None
        /\ \A l \in Keys \ {k} : file'[l].upload = file[l].upload
        /\ \A d \in Domains : <<d, k>> \notin ref
    BY <1>5, CollectShape DEF Collectable
  <2>3. Uses(file', ref, Held \ Expired)
    <3>1. f \in [Keys -> FileRow]
      BY <1>1 DEF Refreshes
    <3> HIDE DEF f
    <3>2. \A l \in Keys \ {k} : file'[l] = f[l]
      BY <2>1, <3>1
    <3> QED
      BY <1>1, <2>2, <3>2 DEF Uses
  <2> QED
    BY <1>2, <1>3, <2>2, <2>3, DocumentKept, UsesLater, ReferencesLater
<1> QED
  BY <1>4, <1>5 DEF Collection

\* A domain that names other files gives up the ones it named before.
LEMMA ReplacedUses ==
    ASSUME TypeOK, References, NEW d \in Domains, NEW K \in SUBSET Keys,
           ref' = Replaced(d, K),
           file' = Refresh(KeysNamedBy(d) \cup K, file, ref', Held),
           UNCHANGED reservation
    PROVE  SameFiles /\ Uses(file, ref, Held)'
<1>1. file \in [Keys -> FileRow]
  BY DEF TypeOK
<1>2. Refreshes(file', KeysNamedBy(d) \cup K, file, ref', Held)
  BY <1>1, RefreshIs
<1>3. \A k \in Keys \ (KeysNamedBy(d) \cup K) : Using(k, ref, Held) => Using(k, ref', Held)
  <2> SUFFICES ASSUME NEW k \in Keys \ (KeysNamedBy(d) \cup K), NEW e \in Domains, <<e, k>> \in ref
               PROVE  <<e, k>> \in ref'
    BY DEF Using
  <2>1. e # d
    BY DEF KeysNamedBy
  <2> QED
    BY <2>1 DEF Replaced
<1>4. Uses(file', ref', Held)
  BY <1>2, <1>3, RefreshUses, ReferencesAre
<1> QED
  BY <1>2, <1>4, UsesLater DEF SameFiles, Refreshes, Held

LEMMA ReferencesReference ==
    ASSUME TypeOK, References, Reference
    PROVE  References'
<1>1. CASE \E K \in SUBSET Keys : ApplyUserWorkspaceMutations(K)
  <2>1. PICK K \in SUBSET Keys : ApplyUserWorkspaceMutations(K)
    BY <1>1
  <2>2. SameFiles /\ Uses(file, ref, Held)'
    <3>1. "document" \in Domains
      BY DEF Domains
    <3> QED
      BY <2>1, <3>1, ReplacedUses DEF ApplyUserWorkspaceMutations
  <2>3. (\A k \in KeysNamedBy("document") : Exists(k))'
    <3> SUFFICES ASSUME NEW k \in Keys, <<"document", k>> \in ref'
                 PROVE  file'[k].upload # None
      BY DEF KeysNamedBy, Exists
    <3>1. k \in K
      BY <2>1 DEF ApplyUserWorkspaceMutations, Replaced
    <3> QED
      BY <2>1, <2>2, <3>1 DEF ApplyUserWorkspaceMutations, NamesFiles, Exists, SameFiles
  <2> QED
    BY <2>2, <2>3, ReferencesLater
<1>2. CASE \E k \in Keys : CheckReference(k)
  BY <1>2 DEF CheckReference, References, KeysNamedBy, Exists, Held
<1>3. CASE SetUserFileReferences
  <2>1. linking \in Keys
    BY <1>3 DEF SetUserFileReferences, TypeOK
  <2>2. SameFiles /\ Uses(file, ref, Held)'
    <3>1. "render" \in Domains /\ {linking} \in SUBSET Keys
      BY <2>1 DEF Domains
    <3>2. /\ ref' = Replaced("render", {linking})
          /\ file' = Refresh(KeysNamedBy("render") \cup {linking}, file, ref', Held)
          /\ UNCHANGED reservation
      BY <1>3 DEF SetUserFileReferences
    <3> QED
      BY <3>1, <3>2, ReplacedUses
  <2>3. (\A k \in KeysNamedBy("document") : Exists(k))'
    <3> SUFFICES ASSUME NEW k \in Keys, <<"document", k>> \in ref'
                 PROVE  file'[k].upload # None
      BY DEF KeysNamedBy, Exists
    <3>1. <<"document", k>> \in ref
      BY <1>3 DEF SetUserFileReferences, Replaced
    <3> QED
      BY <2>2, <3>1 DEF References, KeysNamedBy, Exists, SameFiles
  <2> QED
    BY <2>2, <2>3, ReferencesLater
<1> QED
  BY <1>1, <1>2, <1>3 DEF Reference

\* A file the document names exists, and a file that counts as used is used.
THEOREM ReferencesHold == Spec => []References
<1>1. Init => References
  BY DEF Init, References, KeysNamedBy, Exists, NoFile
<1>2. TypeOK /\ Named /\ References /\ [Next]_vars => References'
  <2> SUFFICES ASSUME TypeOK, Named, References, [Next]_vars
               PROVE  References'
    OBVIOUS
  <2>1. CASE UNCHANGED <<file, reservation, ref>>
    BY <2>1 DEF References, KeysNamedBy, Exists, Held
  <2>2. ASSUME NEW k \in Keys, Age(k)
        PROVE  References'
    <3>1. /\ \A l \in Keys : /\ file[l] \in FileRow
                             /\ file'[l].upload = file[l].upload
                             /\ file'[l].since = "used" => file[l].since = "used"
          /\ UNCHANGED <<reservation, ref>>
      BY <2>2 DEF Age, TypeOK, FileRow
    <3> QED
      BY <3>1 DEF References, KeysNamedBy, Exists, Held
  <2>3. ASSUME NEW w \in Workers, Deletion(w)
        PROVE  References'
    BY <2>1, <2>3 DEF Deletion, ClaimUserObjectDeletion, DeleteObject, FinishUserObjectDeletion
  <2>4. ASSUME Time
        PROVE  References'
    BY <2>1, <2>2, <2>4 DEF Time, TicketExpires, GraceEnds, LeaseLapses
  <2>5. ASSUME Fault
        PROVE  References'
    BY <2>1, <2>5 DEF Fault, Lose, Crash
  <2>6. CASE UNCHANGED vars
    BY <2>1, <2>6 DEF vars
  <2> QED
    BY <2>3, <2>4, <2>5, <2>6, ReferencesUpload, ReferencesCollection, ReferencesReference DEF Next
<1> QED
  BY <1>1, <1>2, LifecycleHolds, PTL DEF Spec

-----------------------------------------------------------------------------
(***************************************************************************)
(* Reservations: what each one reserves is enough for its upload and for   *)
(* the file it replaces, which is still there while its ticket is good, for*)
(* no other reservation that has not expired has its storage key.          *)
(***************************************************************************)

Enough(u) ==
    LET r == reservation[u]
    IN  /\ r.cleanup >= SizeOf[u]
        /\ r.replaces = None => r.reserved = SizeOf[u]
        /\ r.replaces # None => /\ r.cleanup >= SizeOf[r.replaces]
                                /\ r.reserved >= SizeOf[u] - SizeOf[r.replaces]

\* The upload has a reservation and its ticket is good.
Good(u) == reservation[u].state = "held" /\ clock[u] = "fresh"

Reservations ==
    /\ \A u \in Uploads : reservation[u].state = "held" => Enough(u)
    /\ \A u, v \in Uploads :
          Good(u) /\ Good(v) /\ reservation[u].key = reservation[v].key => u = v
    /\ \A u \in Uploads : Good(u) /\ reservation[u].replaces # None =>
          file[reservation[u].key].upload = reservation[u].replaces

LEMMA GoodIs == \A u \in Uploads : Good(u) <=> u \in Held \ Expired
  BY DEF Good, Held, Expired

LEMMA ReservationsEnd ==
    ASSUME Reservations, Named, NEW S, Ends(S), UNCHANGED clock,
           \A u \in Uploads : Good(u) /\ u \notin S =>
              file'[reservation[u].key].upload = file[reservation[u].key].upload
    PROVE  Reservations'
<1>1. \A u \in Uploads : reservation'[u].state = "held" => reservation[u].state = "held" /\ u \notin S
  BY DEF Ends
<1>2. \A u \in Uploads : Good(u)' => Good(u) /\ u \notin S
  BY <1>1 DEF Good
<1>3. \A u \in Uploads : Enough(u) => Enough(u)'
  BY DEF Enough, Ends
<1> QED
  BY <1>1, <1>2, <1>3 DEF Reservations, Ends

LEMMA ReservationsReserve ==
    ASSUME TypeOK, Named, Reservations, NEW u \in Uploads, ReserveUserFileUpload(u)
    PROVE  Reservations'
<1> DEFINE k == looked[u].key
           over == Expired \cup Superseded(k)
           row == [state |-> "held", key |-> k, replaces |-> ReplacesNow(u),
                   reserved |-> ReservedBytes(u), cleanup |-> CleanupBytes(u)]
<1>1. /\ SameFiles /\ k \in Keys
      /\ reservation'[u] = row
  BY ReserveShape
<1>2. \A v \in Uploads \ {u} :
         /\ reservation'[v].key = reservation[v].key
         /\ reservation'[v].replaces = reservation[v].replaces
         /\ reservation'[v].reserved = reservation[v].reserved
         /\ reservation'[v].cleanup = reservation[v].cleanup
         /\ reservation'[v].state = IF v \in over THEN "gone" ELSE reservation[v].state
  BY ReserveShape
<1>3. clock' = clock
  BY DEF ReserveUserFileUpload
<1>4. \A v \in Uploads \ {u} : Good(v)' => Good(v) /\ reservation[v].key # k
  BY <1>2, <1>3 DEF Good, Superseded, Held, Expired
<1>5. /\ reservation'[u].key = k
      /\ reservation'[u].replaces = ReplacesNow(u)
      /\ reservation'[u].reserved = ReservedBytes(u)
      /\ reservation'[u].cleanup = CleanupBytes(u)
  BY <1>1
<1>6. Enough(u)'
  BY <1>5, ReservedIs DEF Enough
<1>7. \A v \in Uploads \ {u} : reservation'[v].state = "held" =>
         reservation[v].state = "held" /\ Enough(v)'
  BY <1>2 DEF Enough, Reservations
<1>8. ReplacesNow(u) # None => file[k].upload = ReplacesNow(u)
  BY DEF ReplacesNow
<1>9. \A l \in Keys : file'[l].upload = file[l].upload
  BY <1>1 DEF SameFiles
<1>10. \A v \in Uploads \ {u} : Good(v) => reservation[v].key \in Keys
  BY DEF Good, Named, Held
<1> HIDE DEF over, row
<1> QED
  BY <1>1, <1>2, <1>4, <1>5, <1>6, <1>7, <1>8, <1>9, <1>10 DEF Reservations

LEMMA ReservationsConfirm ==
    ASSUME TypeOK, Named, Reservations, NEW u \in Uploads, ConfirmUserFileUpload(u)
    PROVE  Reservations'
<1>1. Ends(Expired \cup {u}) /\ u \in Held \ Expired
  BY ConfirmShape
<1>2. \A l \in Keys \ {reservation[u].key} : file'[l].upload = file[l].upload
  BY ConfirmShape DEF SameFiles
<1>3. \A v \in Uploads : Good(v) /\ v # u =>
         reservation[v].key \in Keys \ {reservation[u].key}
  BY <1>1, GoodIs DEF Reservations, Named
<1>4. clock' = clock
  BY DEF ConfirmUserFileUpload
<1> QED
  BY <1>1, <1>2, <1>3, <1>4, ReservationsEnd

LEMMA ReservationsCollection ==
    ASSUME TypeOK, Named, Reservations, Collection
    PROVE  Reservations'
<1>1. Ends(Expired) /\ clock' = clock
  BY SweepShape, CollectShape DEF Collection, SweepReservations, CollectUserFileGarbage
<1>2. \A v \in Uploads : Good(v) =>
         file'[reservation[v].key].upload = file[reservation[v].key].upload
  <2>1. \A v \in Uploads : Good(v) => reservation[v].key \in Keys /\ v \in Held \ Expired
    BY GoodIs DEF Named
  <2>2. CASE SweepReservations
    BY <2>1, <2>2, SweepShape DEF SameFiles
  <2>3. ASSUME NEW k \in Keys, CollectUserFileGarbage(k)
        PROVE  \A v \in Uploads : Good(v) =>
                  file'[reservation[v].key].upload = file[reservation[v].key].upload
    <3>1. /\ \A v \in Held \ Expired : reservation[v].key # k
          /\ \A l \in Keys \ {k} : file'[l].upload = file[l].upload
      BY <2>3, CollectShape DEF Collectable
    <3> QED
      BY <2>1, <3>1
  <2> QED
    BY <2>2, <2>3 DEF Collection
<1> QED
  BY <1>1, <1>2, ReservationsEnd

\* Where the reservations and the objects of the files stay, and no ticket
\* becomes good again.
LEMMA ReservationsStay ==
    ASSUME Reservations, Named, SameFiles, UNCHANGED reservation,
           \A u \in Uploads : clock'[u] = "fresh" => clock[u] = "fresh"
    PROVE  Reservations'
<1>1. \A u \in Uploads : Good(u)' => Good(u) /\ reservation[u].key \in Keys
  BY DEF Good, Named, Held
<1>2. \A u \in Uploads : Enough(u) => Enough(u)'
  BY DEF Enough
<1> QED
  BY <1>1, <1>2 DEF Reservations, SameFiles

LEMMA InitReservations == Init => Reservations
  BY DEF Init, Reservations, Good, Unused

THEOREM ReservationsHold == Spec => []Reservations
<1>1. Init => Reservations
  BY InitReservations
<1>2. TypeOK /\ Named /\ Reservations /\ [Next]_vars => Reservations'
  <2> SUFFICES ASSUME TypeOK, Named, Reservations, [Next]_vars
               PROVE  Reservations'
    OBVIOUS
  <2>1. CASE UNCHANGED <<file, reservation, clock>>
    BY <2>1, ReservationsStay DEF SameFiles
  <2>2. ASSUME NEW u \in Uploads, Upload(u)
        PROVE  Reservations'
    <3>1. CASE CancelUserFileUploadReservation(u)
      <4>1. clock' = clock
        BY <3>1 DEF CancelUserFileUploadReservation
      <4>2. \A v \in Uploads : Good(v) => reservation[v].key \in Keys
        BY DEF Good, Named, Held
      <4> QED
        BY <3>1, <4>1, <4>2, CancelShape, ReservationsEnd DEF SameFiles
    <3> QED
      BY <2>1, <2>2, <3>1, ReservationsReserve, ReservationsConfirm
      DEF Upload, Look, StartPut, EndPut
  <2>3. ASSUME Reference \/ Time
        PROVE  Reservations'
    <3>1. SameFiles /\ UNCHANGED reservation
      BY <2>3, FilesSame
    <3>2. \A u \in Uploads : clock'[u] = "fresh" => clock[u] = "fresh"
      BY <2>3 DEF TypeOK, Reference, ApplyUserWorkspaceMutations, CheckReference,
                  SetUserFileReferences, Time, TicketExpires, GraceEnds, LeaseLapses, Age
    <3> QED
      BY <3>1, <3>2, ReservationsStay
  <2>4. ASSUME NEW w \in Workers, Deletion(w)
        PROVE  Reservations'
    BY <2>1, <2>4 DEF Deletion, ClaimUserObjectDeletion, DeleteObject, FinishUserObjectDeletion
  <2>5. ASSUME Fault
        PROVE  Reservations'
    BY <2>1, <2>5 DEF Fault, Lose, Crash
  <2>6. CASE UNCHANGED vars
    BY <2>1, <2>6 DEF vars
  <2> QED
    BY <2>2, <2>3, <2>4, <2>5, <2>6, ReservationsCollection DEF Next
<1> QED
  BY <1>1, <1>2, LifecycleHolds, PTL DEF Spec

-----------------------------------------------------------------------------
(***************************************************************************)
(* The store: every object belongs to something that will delete it.       *)
(***************************************************************************)

\* The object of the upload belongs to a file, a reservation or a deletion.
Owned(u) ==
    \/ \E k \in Keys : file[k].upload = u
    \/ reservation[u].state = "held"
    \/ deletion[u].state # "none"

\* Something waits for the bytes of the upload.
Awaited(u) ==
    \/ reservation[u].state = "held"
    \/ deletion[u].state = "pending" /\ deletion[u].waits

\* Bytes are under way for an upload that something waits for and whose grace
\* has not ended, for the longest upload is over by then.
Bytes ==
    /\ \A u \in store : Owned(u)
    /\ \A u \in putting : Awaited(u) /\ u \notin store /\ clock[u] # "cleanable"

\* What a transaction leaves behind is still owned, when what it ends it dooms.
LEMMA BytesEnd ==
    ASSUME TypeOK, Lifecycle, Bytes, NEW S \in SUBSET Uploads,
           NEW W \in SUBSET S, NEW N,
           \A u \in Uploads : reservation[u].state = "held" /\ u \notin W =>
              reservation'[u].state = "held" \/ u \in S \ W,
           Dooms(W, N), UNCHANGED <<store, putting, clock>>,
           \A u \in S \ W : u \notin putting /\ (u \in store => Owned(u)'),
           \A k \in Keys : \/ file'[k].upload = file[k].upload
                           \/ file[k].upload \in N \cup {None}
    PROVE  Bytes'
<1>1. \A u \in Uploads : deletion[u].state # "none" => deletion'[u] = deletion[u]
  BY DEF Dooms
<1>2. \A u \in W : reservation[u].state = "held" => deletion'[u].state = "pending" /\ deletion'[u].waits
  BY DEF Dooms, Lifecycle
<1>3. ASSUME NEW u \in store
      PROVE  Owned(u)'
  <2>1. u \in Uploads /\ Owned(u)
    BY DEF TypeOK, Bytes
  <2>2. CASE reservation[u].state = "held"
    <3>1. CASE u \in W
      BY <1>2, <2>2, <3>1 DEF Owned
    <3>2. CASE u \notin W
      BY <2>1, <2>2, <3>2 DEF Owned
    <3> QED BY <3>1, <3>2
  <2>3. CASE deletion[u].state # "none"
    BY <1>1, <2>1, <2>3 DEF Owned
  <2>4. ASSUME NEW k \in Keys, file[k].upload = u
        PROVE  Owned(u)'
    <3>1. CASE file'[k].upload = u
      BY <3>1 DEF Owned
    <3>2. CASE file'[k].upload # u
      <4>1. u \in N
        BY <2>1, <2>4, <3>2, RowsHoldUploads
      <4>2. deletion'[u].state # "none"
        BY <1>1, <2>1, <4>1 DEF Dooms
      <4> QED
        BY <4>2 DEF Owned
    <3> QED BY <3>1, <3>2
  <2> QED
    BY <2>1, <2>2, <2>3, <2>4 DEF Owned
<1>4. ASSUME NEW u \in putting
      PROVE  Awaited(u)'
  <2>1. u \in Uploads /\ Awaited(u) /\ u \notin S \ W
    BY DEF TypeOK, Bytes
  <2>2. CASE reservation[u].state = "held"
    BY <1>2, <2>1, <2>2 DEF Awaited
  <2>3. CASE deletion[u].state = "pending" /\ deletion[u].waits
    BY <1>1, <2>1, <2>3 DEF Awaited
  <2> QED
    BY <2>1, <2>2, <2>3 DEF Awaited
<1> QED
  BY <1>3, <1>4 DEF Bytes

LEMMA BytesUpload ==
    ASSUME TypeOK, Named, Lifecycle, Bytes, "late" \notin Env, NEW u \in Uploads, Upload(u)
    PROVE  Bytes'
<1>1. CASE \E k \in Keys, archiving \in BOOLEAN : Look(u, k, archiving)
  BY <1>1 DEF Look, Bytes, Owned, Awaited
<1>2. CASE ReserveUserFileUpload(u)
  <2> DEFINE over == Expired \cup Superseded(looked[u].key)
  <2>1. SameFiles /\ Dooms(over, {}) /\ u \notin Held
    BY <1>2, ReserveShape
  <2>2. \A v \in Uploads \ {u} :
           reservation'[v].state = IF v \in over THEN "gone" ELSE reservation[v].state
    BY <1>2, ReserveShape
  <2>3. UNCHANGED <<store, putting, clock>>
    BY <1>2 DEF ReserveUserFileUpload
  <2>4. over \in SUBSET Uploads
    BY DEF Expired, Superseded, Held
  <2> HIDE DEF over
  <2>5. \A v \in Uploads : reservation[v].state = "held" /\ v \notin over =>
           reservation'[v].state = "held"
    BY <2>1, <2>2 DEF Held
  <2> QED
    BY <2>1, <2>3, <2>4, <2>5, BytesEnd DEF SameFiles
<1>3. CASE StartPut(u)
  BY <1>3 DEF StartPut, Held, Bytes, Owned, Awaited
<1>4. CASE \E ok \in BOOLEAN : EndPut(u, ok)
  BY <1>4 DEF EndPut, Bytes, Owned, Awaited
<1>5. CASE ConfirmUserFileUpload(u)
  <2> DEFINE k == reservation[u].key
             old == IF Exists(k) THEN {file[k].upload} ELSE {}
             S == Expired \cup {u}
  <2>1. /\ Ends(S) /\ k \in Keys
        /\ u \in Held \ Expired /\ u \in store
    BY <1>5, ConfirmShape
  <2>2. UNCHANGED <<store, putting, clock>>
    BY <1>5 DEF ConfirmUserFileUpload
  <2>3. u \notin putting
    BY <2>1 DEF Bytes
  <2>4. \A v \in Uploads : reservation[v].state = "held" /\ v \notin Expired =>
           reservation'[v].state = "held" \/ v \in S \ Expired
    BY <2>1 DEF Ends
  <2>5. S \in SUBSET Uploads /\ Expired \in SUBSET S
    BY DEF Expired, Held
  <2>8. \A v \in S \ Expired : v = u
    OBVIOUS
  <2> HIDE DEF S
  <2>6. CASE Dooms(Expired, {u}) /\ SameFiles
    <3>1. Owned(u)'
      <4>1. deletion[u].state = "none"
        BY <2>1 DEF Lifecycle, Held
      <4> QED
        BY <2>1, <2>6, <4>1 DEF Dooms, Owned
    <3>2. \A v \in S \ Expired : v \notin putting /\ (v \in store => Owned(v)')
      BY <2>3, <2>8, <3>1
    <3>3. \A l \in Keys : file'[l].upload = file[l].upload
      BY <2>6 DEF SameFiles
    <3> QED
      BY <2>2, <2>4, <2>5, <2>6, <3>2, <3>3, BytesEnd
  <2>7. CASE /\ Dooms(Expired, old)
             /\ file'[k].upload = u
             /\ \A l \in Keys \ {k} : file'[l].upload = file[l].upload
    <3>1. Owned(u)'
      BY <2>1, <2>7 DEF Owned
    <3>2. \A l \in Keys : \/ file'[l].upload = file[l].upload
                          \/ file[l].upload \in old \cup {None}
      BY <2>1, <2>7 DEF Exists
    <3>3. \A v \in S \ Expired : v \notin putting /\ (v \in store => Owned(v)')
      BY <2>3, <2>8, <3>1
    <3> HIDE DEF old, k
    <3> QED
      BY <2>2, <2>4, <2>5, <2>7, <3>2, <3>3, BytesEnd
  <2> QED
    BY <1>5, <2>6, <2>7, ConfirmShape
<1>6. CASE CancelUserFileUploadReservation(u)
  <2>1. Ends({u}) /\ Dooms({u}, {}) /\ SameFiles
    BY <1>6, CancelShape
  <2>2. UNCHANGED <<store, putting, clock>>
    BY <1>6 DEF CancelUserFileUploadReservation
  <2>3. \A v \in Uploads : reservation[v].state = "held" /\ v \notin {u} =>
           reservation'[v].state = "held"
    BY <2>1 DEF Ends
  <2> QED
    BY <2>1, <2>2, <2>3, BytesEnd DEF SameFiles
<1> QED
  BY <1>1, <1>2, <1>3, <1>4, <1>5, <1>6 DEF Upload

LEMMA BytesCollection ==
    ASSUME TypeOK, Named, Lifecycle, Bytes, Collection
    PROVE  Bytes'
<1>1. UNCHANGED <<store, putting, clock>>
  BY DEF Collection, SweepReservations, CollectUserFileGarbage
<1>2. Ends(Expired) /\ Expired \in SUBSET Uploads
  BY SweepShape, CollectShape DEF Collection, Expired, Held
<1>3. \A v \in Uploads : reservation[v].state = "held" /\ v \notin Expired =>
         reservation'[v].state = "held"
  BY <1>2 DEF Ends
<1>4. CASE SweepReservations
  BY <1>1, <1>2, <1>3, <1>4, SweepShape, BytesEnd DEF SameFiles
<1>5. ASSUME NEW k \in Keys, CollectUserFileGarbage(k)
      PROVE  Bytes'
  <2>1. /\ Dooms(Expired, {file[k].upload})
        /\ \A l \in Keys \ {k} : file'[l].upload = file[l].upload
    BY <1>5, CollectShape
  <2>2. \A l \in Keys : \/ file'[l].upload = file[l].upload
                        \/ file[l].upload \in {file[k].upload} \cup {None}
    BY <2>1
  <2> QED
    BY <1>1, <1>2, <1>3, <2>1, <2>2, BytesEnd, SMTT(20)
<1> QED
  BY <1>4, <1>5 DEF Collection

LEMMA BytesDeletion ==
    ASSUME TypeOK, Lifecycle, Bytes, NEW w \in Workers, Deletion(w)
    PROVE  Bytes'
<1>1. /\ deletion \in [Uploads -> DeletionRow]
      /\ \A u \in Uploads : deletion[u] \in DeletionRow
      /\ holder[w] \in Uploads \cup {None}
      /\ store \subseteq Uploads /\ putting \subseteq Uploads
  BY DEF TypeOK
<1>2. CASE \E u \in Uploads : ClaimUserObjectDeletion(w, u)
  <2>1. PICK u \in Uploads : ClaimUserObjectDeletion(w, u)
    BY <1>2
  <2>2. /\ \A v \in Uploads \ {u} : deletion'[v] = deletion[v]
        /\ deletion'[u].state # "none"
        /\ UNCHANGED <<file, reservation, store, putting, clock>>
    BY <1>1, <2>1 DEF ClaimUserObjectDeletion, DeletionRow
  <2>3. u \notin putting
    BY <2>1 DEF ClaimUserObjectDeletion, Bytes, Awaited, Lifecycle
  <2> QED
    BY <1>1, <2>2, <2>3 DEF Bytes, Owned, Awaited
<1>3. CASE DeleteObject(w)
  BY <1>3 DEF DeleteObject, Bytes, Owned, Awaited
<1>4. CASE \E ok \in BOOLEAN : FinishUserObjectDeletion(w, ok)
  <2>1. PICK ok \in BOOLEAN : FinishUserObjectDeletion(w, ok)
    BY <1>4
  <2>2. UNCHANGED <<file, reservation, store, putting, clock>>
    BY <2>1 DEF FinishUserObjectDeletion
  <2>3. CASE ~MyClaim(w)
    BY <2>1, <2>2, <2>3 DEF FinishUserObjectDeletion, Bytes, Owned, Awaited
  <2>4. CASE MyClaim(w)
    <3> DEFINE u == holder[w]
    <3>1. u \in Uploads /\ deletion[u].state = "processing"
      BY <2>4 DEF MyClaim
    <3>2. u \notin putting
      BY <3>1 DEF Bytes, Awaited, Lifecycle
    <3>3. \A v \in Uploads \ {u} : deletion'[v] = deletion[v]
      BY <1>1, <2>1, <2>4 DEF FinishUserObjectDeletion
    <3>4. u \in store => deletion'[u].state = "pending"
      BY <1>1, <2>1, <2>4, <3>1, QueuedIs DEF FinishUserObjectDeletion
    <3> HIDE DEF u
    <3> QED
      BY <1>1, <2>2, <3>2, <3>3, <3>4 DEF Bytes, Owned, Awaited
  <2> QED
    BY <2>3, <2>4
<1> QED
  BY <1>2, <1>3, <1>4 DEF Deletion

\* No cancelled, expired, superseded or replaced upload leaves an object that
\* nothing will delete, as long as no upload starts after its ticket expired.
THEOREM NoOrphansHolds == "late" \notin Env => (Spec => []NoOrphans)
<1> SUFFICES ASSUME "late" \notin Env
             PROVE  Spec => []NoOrphans
  OBVIOUS
<1>1. Init => Bytes
  BY DEF Init, Bytes
<1>2. TypeOK /\ Named /\ Lifecycle /\ Bytes /\ [Next]_vars => Bytes'
  <2> SUFFICES ASSUME TypeOK, Named, Lifecycle, Bytes, [Next]_vars
               PROVE  Bytes'
    OBVIOUS
  <2>1. ASSUME Reference
        PROVE  Bytes'
    <3>1. SameFiles /\ UNCHANGED <<reservation, deletion, store, putting, clock>>
      BY <2>1, FilesSame DEF Reference, ApplyUserWorkspaceMutations, CheckReference,
                             SetUserFileReferences
    <3> QED
      BY <3>1 DEF SameFiles, Bytes, Owned, Awaited
  <2>2. ASSUME Time
        PROVE  Bytes'
    <3>1. SameFiles /\ UNCHANGED <<reservation, store, putting>>
      BY <2>2, FilesSame
    <3>2. \A u \in Uploads : /\ deletion'[u].state = deletion[u].state
                             /\ deletion[u].waits => deletion'[u].waits
      BY <2>2 DEF Time, TicketExpires, GraceEnds, LeaseLapses, Age, TypeOK, DeletionRow
    <3>3. \A u \in putting : clock[u] # "cleanable" => clock'[u] # "cleanable"
      BY <2>2 DEF Time, TicketExpires, GraceEnds, LeaseLapses, Age, TypeOK
    <3>4. \A u \in Uploads : (Owned(u) => Owned(u)') /\ (Awaited(u) => Awaited(u)')
      BY <3>1, <3>2 DEF SameFiles, Owned, Awaited
    <3>5. store \subseteq Uploads /\ putting \subseteq Uploads
      BY DEF TypeOK
    <3> QED
      BY <3>1, <3>3, <3>4, <3>5 DEF Bytes
  <2>3. ASSUME Fault
        PROVE  Bytes'
    BY <2>3 DEF Fault, Lose, Crash, Bytes, Owned, Awaited
  <2>4. CASE UNCHANGED vars
    BY <2>4 DEF vars, Bytes, Owned, Awaited
  <2> QED
    BY <2>1, <2>2, <2>3, <2>4, BytesUpload, BytesCollection, BytesDeletion DEF Next
<1>3. TypeOK /\ Bytes => NoOrphans
  BY FilesAssumption DEF TypeOK, Bytes, Owned, Awaited, NoOrphans, Live, Stored, Exists, Held, Doomed
<1> QED
  BY <1>1, <1>2, <1>3, LifecycleHolds, PTL DEF Spec

-----------------------------------------------------------------------------
(***************************************************************************)
(* Quotas.                                                                 *)
(***************************************************************************)

\* The sums are numbers, and a sum splits where its rows do.
LEMMA Sums ==
    ASSUME TypeOK
    PROVE  /\ \A S \in SUBSET Uploads : /\ IsFiniteSet(S) /\ Cardinality(S) \in Nat
                                        /\ ReservedBy(S) \in Nat
                                        /\ CleanupOf(S) \in Nat
                                        /\ BytesOf(S) \in Nat
           /\ \A S, T \in SUBSET Uploads : T \subseteq S =>
                 /\ Cardinality(S) = Cardinality(S \ T) + Cardinality(T)
                 /\ ReservedBy(S) = ReservedBy(S \ T) + ReservedBy(T)
                 /\ CleanupOf(S) = CleanupOf(S \ T) + CleanupOf(T)
                 /\ BytesOf(S) = BytesOf(S \ T) + BytesOf(T)
           /\ \A u \in Uploads : /\ Cardinality({u}) = 1
                                 /\ ReservedBy({u}) = reservation[u].reserved
                                 /\ CleanupOf({u}) = reservation[u].cleanup
                                 /\ BytesOf({u}) = SizeOf[u]
<1> DEFINE res == [u \in Uploads |-> reservation[u].reserved]
           cle == [u \in Uploads |-> reservation[u].cleanup]
<1>1. \A u \in Uploads : res[u] \in Nat /\ cle[u] \in Nat /\ SizeOf[u] \in Nat
  BY FilesAssumption DEF TypeOK, ReservationRow
<1>2. \A S \in SUBSET Uploads : IsFiniteSet(S)
  BY FilesAssumption, FS_Subset
<1> HIDE DEF res, cle
<1>3. ASSUME NEW S \in SUBSET Uploads
      PROVE  /\ Total(S, res) \in Nat /\ Total(S, cle) \in Nat /\ Total(S, SizeOf) \in Nat
             /\ Cardinality(S) \in Nat
  <2>1. \A u \in S : res[u] \in Int /\ cle[u] \in Int /\ SizeOf[u] \in Int
    BY <1>1
  <2>2. IsFiniteSet(S)
    BY <1>2
  <2> QED
    BY <2>1, <2>2, TotalType, FS_CardinalityType
<1>4. ASSUME NEW S \in SUBSET Uploads, NEW T \in SUBSET S
      PROVE  /\ Cardinality(S) = Cardinality(S \ T) + Cardinality(T)
             /\ Total(S, res) = Total(S \ T, res) + Total(T, res)
             /\ Total(S, cle) = Total(S \ T, cle) + Total(T, cle)
             /\ Total(S, SizeOf) = Total(S \ T, SizeOf) + Total(T, SizeOf)
  <2> DEFINE R == S \ T
  <2>1. IsFiniteSet(R) /\ IsFiniteSet(T) /\ R \cap T = {} /\ R \cup T = S
    BY <1>2
  <2>2. \A u \in R \cup T : res[u] \in Int /\ cle[u] \in Int /\ SizeOf[u] \in Int
    BY <1>1
  <2> HIDE DEF R
  <2>3. Total(R \cup T, res) = Total(R, res) + Total(T, res)
    BY <2>1, <2>2, TotalSplit
  <2>4. Total(R \cup T, cle) = Total(R, cle) + Total(T, cle)
    BY <2>1, <2>2, TotalSplit
  <2>5. Total(R \cup T, SizeOf) = Total(R, SizeOf) + Total(T, SizeOf)
    BY <2>1, <2>2, TotalSplit
  <2>6. Cardinality(R) \in Nat /\ Cardinality(T) \in Nat
    BY <2>1, FS_CardinalityType
  <2>7. Cardinality(R \cup T) = Cardinality(R) + Cardinality(T) - Cardinality(R \cap T)
    BY <2>1, FS_Union, Zenon
  <2>8. Cardinality(R \cap T) = 0
    BY <2>1, FS_EmptySet
  <2>9. Cardinality(R \cup T) = Cardinality(R) + Cardinality(T)
    BY <2>6, <2>7, <2>8
  <2> QED
    BY <2>1, <2>3, <2>4, <2>5, <2>9, Zenon DEF R
<1>5. ASSUME NEW u \in Uploads
      PROVE  /\ Total({u}, res) = res[u] /\ Total({u}, cle) = cle[u]
             /\ Total({u}, SizeOf) = SizeOf[u] /\ Cardinality({u}) = 1
  BY <1>1, TotalOne, FS_Singleton
<1>6. \A u \in Uploads : res[u] = reservation[u].reserved /\ cle[u] = reservation[u].cleanup
  BY DEF res, cle
<1>7. \A S : ReservedBy(S) = Total(S, res) /\ CleanupOf(S) = Total(S, cle)
  BY DEF ReservedBy, CleanupOf, res, cle
<1> QED
  BY <1>2, <1>3, <1>4, <1>5, <1>6, <1>7 DEF BytesOf

\* Fewer rows have the smaller sums.
LEMMA SumsLess ==
    ASSUME TypeOK, NEW S \in SUBSET Uploads, NEW T \in SUBSET S
    PROVE  /\ Cardinality(T) <= Cardinality(S)
           /\ ReservedBy(T) <= ReservedBy(S)
           /\ CleanupOf(T) <= CleanupOf(S)
           /\ BytesOf(T) <= BytesOf(S)
<1> DEFINE R == S \ T
<1>1. R \in SUBSET Uploads /\ T \in SUBSET Uploads
  OBVIOUS
<1>2. /\ Cardinality(S) = Cardinality(R) + Cardinality(T)
      /\ ReservedBy(S) = ReservedBy(R) + ReservedBy(T)
      /\ CleanupOf(S) = CleanupOf(R) + CleanupOf(T)
      /\ BytesOf(S) = BytesOf(R) + BytesOf(T)
  BY <1>1, Sums
<1> HIDE DEF R
<1>3. /\ Cardinality(R) \in Nat /\ Cardinality(T) \in Nat
      /\ ReservedBy(R) \in Nat /\ ReservedBy(T) \in Nat
      /\ CleanupOf(R) \in Nat /\ CleanupOf(T) \in Nat
      /\ BytesOf(R) \in Nat /\ BytesOf(T) \in Nat
  BY <1>1, Sums
<1> QED
  BY <1>2, <1>3

LEMMA SumsUnion ==
    ASSUME TypeOK, NEW S \in SUBSET Uploads, NEW T \in SUBSET Uploads
    PROVE  /\ Cardinality(S \cup T) <= Cardinality(S) + Cardinality(T)
           /\ BytesOf(S \cup T) <= BytesOf(S) + BytesOf(T)
<1> DEFINE R == S \cup T
<1>1. R \in SUBSET Uploads /\ R \ S \in SUBSET T /\ S \subseteq R /\ R \ S \in SUBSET Uploads
  OBVIOUS
<1>2. /\ Cardinality(R) = Cardinality(R \ S) + Cardinality(S)
      /\ BytesOf(R) = BytesOf(R \ S) + BytesOf(S)
  <2> HIDE DEF R
  <2> QED BY <1>1, Sums
<1>3. Cardinality(R \ S) <= Cardinality(T) /\ BytesOf(R \ S) <= BytesOf(T)
  <2> HIDE DEF R
  <2> QED BY <1>1, SumsLess
<1> HIDE DEF R
<1>4. /\ Cardinality(R) \in Nat /\ Cardinality(S) \in Nat /\ Cardinality(T) \in Nat
      /\ Cardinality(R \ S) \in Nat
      /\ BytesOf(R) \in Nat /\ BytesOf(S) \in Nat /\ BytesOf(T) \in Nat /\ BytesOf(R \ S) \in Nat
  BY <1>1, Sums
<1> QED
  BY <1>2, <1>3, <1>4 DEF R

\* Sums read the rows they are over.
LEMMA SumsLater ==
    ASSUME NEW S \in SUBSET Uploads,
           \A u \in S : /\ reservation'[u].reserved = reservation[u].reserved
                        /\ reservation'[u].cleanup = reservation[u].cleanup
    PROVE  /\ Total(S, [u \in Uploads |-> reservation'[u].reserved]) = ReservedBy(S)
           /\ Total(S, [u \in Uploads |-> reservation'[u].cleanup]) = CleanupOf(S)
  BY TotalSame DEF ReservedBy, CleanupOf

\* What the objects take that may have to be deleted covers what is reserved
\* for cleaning up, row by row.
LEMMA CleanupCovers ==
    ASSUME TypeOK, Reservations, NEW S \in SUBSET Held
    PROVE  BytesOf(S) <= CleanupOf(S)
<1> DEFINE cle == [u \in Uploads |-> reservation[u].cleanup]
<1>1. S \in SUBSET Uploads /\ IsFiniteSet(S)
  BY FilesAssumption, FS_Subset DEF Held
<1>2. \A u \in S : SizeOf[u] \in Int /\ cle[u] \in Int /\ SizeOf[u] <= cle[u]
  BY <1>1, FilesAssumption DEF TypeOK, ReservationRow, Reservations, Enough, Held
<1>3. CleanupOf(S) = Total(S, cle)
  BY DEF CleanupOf
<1> HIDE DEF cle
<1> QED
  BY <1>1, <1>2, <1>3, TotalMonotone DEF BytesOf

\* What the objects and rows of deletions take, and what may be added to them.
TemporaryFits ==
    /\ CleanupOf(Held) + BytesOf(Doomed) <= Quota
    /\ Cardinality(Held) + Cardinality(Doomed) <= MaxTemporary

\* Reservations that end cover the objects that are queued for deletion.
LEMMA TemporaryEnds ==
    ASSUME TypeOK, TypeOK', TemporaryFits, NEW S \in SUBSET Held, NEW D \in SUBSET Uploads,
           Ends(S), Doomed' \subseteq Doomed \cup D,
           BytesOf(D) <= CleanupOf(S), Cardinality(D) <= Cardinality(S)
    PROVE  TemporaryFits'
<1> DEFINE left == Held \ S
           cle == [u \in Uploads |-> reservation'[u].cleanup]
           more == Doomed \cup D
<1>1. Held' = left
  BY DEF Ends, Held
<1>2. /\ left \in SUBSET Uploads /\ Held \in SUBSET Uploads /\ Doomed \in SUBSET Uploads
      /\ more \in SUBSET Uploads /\ Doomed' \in SUBSET more /\ Doomed' \in SUBSET Uploads
      /\ S \in SUBSET Uploads /\ S \subseteq Held
  BY DEF Held, Doomed
<1>3. CleanupOf(Held)' = CleanupOf(left)
  <2>1. CleanupOf(Held)' = Total(left, cle)
    BY <1>1 DEF CleanupOf
  <2>2. Total(left, cle) = CleanupOf(left)
    BY <1>2, SumsLater DEF Ends
  <2> QED BY <2>1, <2>2
<1> HIDE DEF cle
<1>4. BytesOf(Doomed)' = BytesOf(Doomed')
  BY DEF BytesOf
<1>5. /\ BytesOf(Doomed') <= BytesOf(more) /\ Cardinality(Doomed') <= Cardinality(more)
      /\ BytesOf(more) <= BytesOf(Doomed) + BytesOf(D)
      /\ Cardinality(more) <= Cardinality(Doomed) + Cardinality(D)
  <2>1. BytesOf(Doomed') <= BytesOf(more) /\ Cardinality(Doomed') <= Cardinality(more)
    <3> HIDE DEF more
    <3> QED BY <1>2, SumsLess
  <2> QED
    BY <1>2, <2>1, SumsUnion
<1>6. /\ CleanupOf(Held) = CleanupOf(left) + CleanupOf(S)
      /\ Cardinality(Held) = Cardinality(left) + Cardinality(S)
  BY <1>2, Sums
<1> HIDE DEF left, more
<1>7. /\ CleanupOf(left) \in Nat /\ CleanupOf(S) \in Nat
      /\ BytesOf(Doomed) \in Nat /\ BytesOf(D) \in Nat /\ BytesOf(more) \in Nat
      /\ BytesOf(Doomed') \in Nat
      /\ Cardinality(left) \in Nat /\ Cardinality(S) \in Nat /\ Cardinality(Doomed) \in Nat
      /\ Cardinality(D) \in Nat /\ Cardinality(more) \in Nat /\ Cardinality(Doomed') \in Nat
      /\ Quota \in Nat /\ MaxTemporary \in Nat
  BY <1>2, Sums, FilesAssumption
<1>8. CleanupOf(left) + BytesOf(Doomed') <= Quota
  BY <1>5, <1>6, <1>7 DEF TemporaryFits
<1>9. Cardinality(left) + Cardinality(Doomed') <= MaxTemporary
  BY <1>5, <1>6, <1>7 DEF TemporaryFits
<1>10. (Cardinality(Held) + Cardinality(Doomed))' = Cardinality(left) + Cardinality(Doomed')
  BY <1>1
<1> QED
  BY <1>1, <1>3, <1>4, <1>8, <1>9 DEF TemporaryFits

\* The objects that Dooms queues.
LEMMA DoomedLater ==
    ASSUME NEW W, NEW N, Dooms(W, N)
    PROVE  Doomed' \subseteq Doomed \cup W \cup N
  BY DEF Dooms, Doomed

LEMMA TemporaryUpload ==
    ASSUME TypeOK, TypeOK', Named, Reservations, TemporaryFits, NEW u \in Uploads, Upload(u)
    PROVE  TemporaryFits'
<1>1. CASE ReserveUserFileUpload(u)
  <2> DEFINE k == looked[u].key
             over == Expired \cup Superseded(k)
             others == Others(k)
             doomed == Doomed \cup Expired \cup Superseded(k)
             cle == [v \in Uploads |-> reservation'[v].cleanup]
  <2>1. FitsTemporary(u, k)
    BY <1>1 DEF ReserveUserFileUpload
  <2>2. Dooms(over, {}) /\ u \notin Held
    BY <1>1, ReserveShape
  <2>3. \A v \in Uploads \ {u} :
           /\ reservation'[v].reserved = reservation[v].reserved
           /\ reservation'[v].cleanup = reservation[v].cleanup
           /\ reservation'[v].state = IF v \in over THEN "gone" ELSE reservation[v].state
    BY <1>1, ReserveShape
  <2>4. reservation'[u].state = "held" /\ reservation'[u].cleanup = CleanupBytes(u)
    <3>1. reservation'[u] = [state |-> "held", key |-> looked[u].key,
                             replaces |-> ReplacesNow(u), reserved |-> ReservedBytes(u),
                             cleanup |-> CleanupBytes(u)]
      BY <1>1, ReserveShape
    <3> QED BY <3>1
  <2>5. Held' = others \cup {u} /\ u \notin others /\ others \in SUBSET Uploads
    BY <2>2, <2>3, <2>4 DEF Held, Others, Superseded, Expired
  <2>6. Doomed' \in SUBSET doomed /\ doomed \in SUBSET Uploads
    BY <2>2, DoomedLater DEF Doomed, Expired, Superseded, Held
  <2>7. CleanupOf(Held)' = CleanupOf(others) + CleanupBytes(u)
    <3>1. CleanupOf(Held)' = Total(others \cup {u}, cle)
      BY <2>5 DEF CleanupOf
    <3>2. IsFiniteSet(others) /\ \A v \in Uploads : cle[v] \in Nat
      BY <2>5, Sums DEF TypeOK, ReservationRow
    <3>3. Total(others \cup {u}, cle) = Total(others, cle) + cle[u]
      <4> HIDE DEF others, cle
      <4> QED BY <2>5, <3>2, TotalAdd
    <3>4. Total(others, cle) = CleanupOf(others)
      <4> HIDE DEF others
      <4>1. \A v \in others : v # u /\ v \in Uploads
        BY <2>5
      <4> QED BY <2>3, <2>5, <4>1, SumsLater
    <3>5. cle[u] = CleanupBytes(u)
      BY <2>4
    <3> QED
      BY <3>1, <3>3, <3>4, <3>5
  <2>8. Cardinality(Held') = Cardinality(others) + 1
    <3>1. IsFiniteSet(others)
      BY <2>5, Sums
    <3> HIDE DEF others
    <3> QED BY <2>5, <3>1, FS_AddElement
  <2>9. BytesOf(Doomed)' = BytesOf(Doomed')
    BY DEF BytesOf
  <2>10. BytesOf(Doomed') <= BytesOf(doomed) /\ Cardinality(Doomed') <= Cardinality(doomed)
    <3> HIDE DEF doomed
    <3> QED BY <2>6, SumsLess
  <2>11. /\ Cardinality(others) + Cardinality(doomed) + 1 <= MaxTemporary
         /\ CleanupOf(others) + BytesOf(doomed) + CleanupBytes(u) <= Quota
    BY <2>1 DEF FitsTemporary
  <2> HIDE DEF others, doomed, over, cle, k
  <2>12. /\ CleanupOf(others) \in Nat /\ BytesOf(doomed) \in Nat /\ BytesOf(Doomed') \in Nat
         /\ Cardinality(others) \in Nat /\ Cardinality(doomed) \in Nat
         /\ Cardinality(Doomed') \in Nat /\ CleanupBytes(u) \in Nat
         /\ Quota \in Nat /\ MaxTemporary \in Nat
    BY <2>5, <2>6, Sums, ReservedIs, FilesAssumption
  <2>13. CleanupOf(others) + CleanupBytes(u) + BytesOf(Doomed') <= Quota
    BY <2>10, <2>11, <2>12
  <2>14. Cardinality(Held') + Cardinality(Doomed') <= MaxTemporary
    BY <2>8, <2>10, <2>11, <2>12
  <2> QED
    BY <2>7, <2>9, <2>13, <2>14 DEF TemporaryFits
<1>2. CASE ConfirmUserFileUpload(u)
  <2> DEFINE k == reservation[u].key
             S == Expired \cup {u}
  <2>1. Ends(S) /\ u \in Held /\ u \notin Expired /\ k \in Keys
    BY <1>2, ConfirmShape
  <2>2. \E N \in SUBSET Uploads :
           /\ Dooms(Expired, N)
           /\ Cardinality(N) <= 1 /\ BytesOf(N) <= reservation[u].cleanup
    <3>1. CASE Dooms(Expired, {u})
      <4>1. SizeOf[u] <= reservation[u].cleanup
        BY <2>1 DEF Reservations, Enough, Held
      <4> QED
        BY <3>1, <4>1, Sums
    <3>2. CASE Dooms(Expired, {}) 
      <4>1. Cardinality({}) = 0 /\ BytesOf({}) = 0
        BY FS_EmptySet, TotalEmpty DEF BytesOf
      <4>2. reservation[u].cleanup \in Nat
        BY DEF TypeOK, ReservationRow
      <4> QED
        BY <3>2, <4>1, <4>2
    <3>3. CASE Replaceable(u) /\ Exists(k) /\ Dooms(Expired, {file[k].upload})
      <4>1. file[k].upload \in Uploads /\ reservation[u].replaces = file[k].upload
        BY <2>1, <3>3, RowsHoldUploads DEF Replaceable, Exists
      <4>2. SizeOf[file[k].upload] <= reservation[u].cleanup
        BY <2>1, <4>1, FilesAssumption DEF Reservations, Enough, Held
      <4> QED
        BY <3>3, <4>1, <4>2, Sums
    <3> QED
      BY <1>2, <3>1, <3>2, <3>3, ConfirmShape
  <2>3. PICK N \in SUBSET Uploads :
           /\ Dooms(Expired, N)
           /\ Cardinality(N) <= 1 /\ BytesOf(N) <= reservation[u].cleanup
    BY <2>2
  <2> DEFINE D == Expired \cup N
  <2>4. Doomed' \subseteq Doomed \cup D
    BY <2>3, DoomedLater
  <2>5. /\ S \in SUBSET Held /\ S \in SUBSET Uploads /\ Expired \in SUBSET Held
        /\ Expired \in SUBSET Uploads /\ D \in SUBSET Uploads /\ S \ {u} = Expired
        /\ {u} \subseteq S /\ {u} \in SUBSET Uploads
    BY <2>1 DEF Expired, Held
  <2>6. /\ BytesOf(D) <= BytesOf(Expired) + BytesOf(N)
        /\ Cardinality(D) <= Cardinality(Expired) + Cardinality(N)
    BY <2>5, SumsUnion
  <2> HIDE DEF S, D
  <2>7. /\ CleanupOf(S) = CleanupOf(Expired) + CleanupOf({u})
        /\ Cardinality(S) = Cardinality(Expired) + Cardinality({u})
    <3>1. /\ CleanupOf(S) = CleanupOf(S \ {u}) + CleanupOf({u})
          /\ Cardinality(S) = Cardinality(S \ {u}) + Cardinality({u})
      BY <2>5, Sums
    <3> QED
      BY <2>5, <3>1
  <2>8. CleanupOf({u}) = reservation[u].cleanup /\ Cardinality({u}) = 1
    BY Sums
  <2>9. BytesOf(Expired) <= CleanupOf(Expired)
    BY <2>5, CleanupCovers
  <2>10. /\ BytesOf(D) \in Nat /\ BytesOf(Expired) \in Nat /\ BytesOf(N) \in Nat
         /\ CleanupOf(Expired) \in Nat /\ reservation[u].cleanup \in Nat
         /\ Cardinality(D) \in Nat /\ Cardinality(Expired) \in Nat /\ Cardinality(N) \in Nat
    BY <2>5, Sums DEF TypeOK, ReservationRow
  <2>11. BytesOf(D) <= CleanupOf(S) /\ Cardinality(D) <= Cardinality(S)
    BY <2>3, <2>6, <2>7, <2>8, <2>9, <2>10
  <2> QED
    BY <2>1, <2>4, <2>5, <2>11, TemporaryEnds
<1>3. CASE CancelUserFileUploadReservation(u)
  <2>1. /\ Ends({u}) /\ {u} \in SUBSET Held /\ {u} \in SUBSET Uploads
        /\ Doomed' \subseteq Doomed \cup {u}
    <3>1. Ends({u}) /\ Dooms({u}, {})
      BY <1>3, CancelShape
    <3>2. Doomed' \subseteq Doomed \cup {u} \cup {}
      BY <3>1, DoomedLater
    <3> QED
      BY <1>3, <3>1, <3>2 DEF CancelUserFileUploadReservation
  <2>2. BytesOf({u}) <= CleanupOf({u})
    BY <2>1, CleanupCovers
  <2>3. Cardinality({u}) <= Cardinality({u})
    BY Sums
  <2> QED
    BY <2>1, <2>2, <2>3, TemporaryEnds
<1>4. CASE UNCHANGED <<reservation, deletion>>
  BY <1>4 DEF TemporaryFits, CleanupOf, BytesOf, Held, Doomed
<1> QED
  BY <1>1, <1>2, <1>3, <1>4 DEF Upload, Look, StartPut, EndPut

LEMMA TemporaryCollection ==
    ASSUME TypeOK, TypeOK', Reservations, TemporaryFits, Collection
    PROVE  TemporaryFits'
<1>1. Ends(Expired)
  BY SweepShape, CollectShape DEF Collection
<1>2. Expired \in SUBSET Held /\ Expired \in SUBSET Uploads
  BY DEF Expired, Held
<1>3. CASE SweepReservations
  <2>1. Doomed' \subseteq Doomed \cup Expired \cup {}
    BY <1>3, SweepShape, DoomedLater
  <2>2. BytesOf(Expired) <= CleanupOf(Expired)
    BY <1>2, CleanupCovers
  <2>3. Cardinality(Expired) <= Cardinality(Expired)
    BY <1>2, Sums
  <2> QED
    BY <1>1, <1>2, <2>1, <2>2, <2>3, TemporaryEnds
<1>4. ASSUME NEW k \in Keys, CollectUserFileGarbage(k)
      PROVE  TemporaryFits'
  <2> DEFINE u == file[k].upload
             left == Held \ Expired
             doomed == Doomed \cup Expired
             all == doomed \cup {u}
             cle == [v \in Uploads |-> reservation'[v].cleanup]
  <2>1. u \in Uploads
    BY <1>4, CollectShape, RowsHoldUploads DEF Collectable
  <2>2. /\ CleanupOf(left) + BytesOf(doomed) + SizeOf[u] <= Quota
        /\ Cardinality(left) + Cardinality(doomed) + 1 <= MaxTemporary
    BY <1>4 DEF CollectUserFileGarbage
  <2>3. Dooms(Expired, {u})
    BY <1>4, CollectShape
  <2>4. Doomed' \subseteq Doomed \cup Expired \cup {u}
    <3> HIDE DEF u
    <3> QED BY <2>3, DoomedLater
  <2>5. /\ Doomed' \in SUBSET all /\ all \in SUBSET Uploads /\ doomed \in SUBSET Uploads
        /\ left \in SUBSET Uploads /\ {u} \in SUBSET Uploads /\ Held' = left
        /\ Doomed' \in SUBSET Uploads
    BY <1>1, <1>2, <2>1, <2>4 DEF Doomed, Held, Ends
  <2>6. CleanupOf(Held)' = CleanupOf(left)
    <3>1. CleanupOf(Held)' = Total(left, cle)
      BY <2>5 DEF CleanupOf
    <3>2. Total(left, cle) = CleanupOf(left)
      BY <1>1, <2>5, SumsLater DEF Ends
    <3> QED BY <3>1, <3>2
  <2>7. BytesOf(Doomed)' = BytesOf(Doomed')
    BY DEF BytesOf
  <2>8. BytesOf(Doomed') <= BytesOf(all) /\ Cardinality(Doomed') <= Cardinality(all)
    <3> HIDE DEF all
    <3> QED BY <2>5, SumsLess
  <2>9. /\ BytesOf(all) <= BytesOf(doomed) + BytesOf({u})
        /\ Cardinality(all) <= Cardinality(doomed) + Cardinality({u})
    <3> HIDE DEF doomed, u
    <3> QED BY <2>5, SumsUnion
  <2>10. BytesOf({u}) = SizeOf[u] /\ Cardinality({u}) = 1 /\ SizeOf[u] \in Nat
    <3> HIDE DEF u
    <3> QED BY <2>1, Sums, FilesAssumption
  <2> HIDE DEF u, left, doomed, all, cle
  <2>11. /\ CleanupOf(left) \in Nat /\ BytesOf(doomed) \in Nat /\ BytesOf(all) \in Nat
         /\ BytesOf(Doomed') \in Nat
         /\ Cardinality(left) \in Nat /\ Cardinality(doomed) \in Nat /\ Cardinality(all) \in Nat
         /\ Cardinality(Doomed') \in Nat
         /\ Quota \in Nat /\ MaxTemporary \in Nat
    BY <2>5, Sums, FilesAssumption
  <2>12. CleanupOf(left) + BytesOf(Doomed') <= Quota
    BY <2>2, <2>8, <2>9, <2>10, <2>11
  <2>13. Cardinality(left) + Cardinality(Doomed') <= MaxTemporary
    BY <2>2, <2>8, <2>9, <2>10, <2>11
  <2> QED
    BY <2>5, <2>6, <2>7, <2>12, <2>13 DEF TemporaryFits
<1> QED
  BY <1>3, <1>4 DEF Collection

\* Deletion workers only take deletions away.
LEMMA TemporaryOthers ==
    ASSUME TypeOK, TypeOK', TemporaryFits, UNCHANGED reservation,
           \A u \in Uploads : deletion'[u].state # "none" => deletion[u].state # "none"
    PROVE  TemporaryFits'
<1> DEFINE none == {}
<1>1. Ends(none) /\ Doomed' \subseteq Doomed \cup none /\ none \in SUBSET Held
      /\ none \in SUBSET Uploads
  BY DEF Ends, Doomed
<1>2. BytesOf(none) <= CleanupOf(none)
  <2>1. BytesOf({}) = 0 /\ CleanupOf({}) = 0
    BY TotalEmpty DEF BytesOf, CleanupOf
  <2> QED BY <2>1
<1>3. Cardinality(none) <= Cardinality(none)
  BY <1>1, Sums
<1> HIDE DEF none
<1> QED
  BY <1>1, <1>2, <1>3, TemporaryEnds

\* What is stored and what is reserved for storing.
StorageFits == Used + ReservedBy(Held) <= Quota

LEMMA UsedSums ==
    ASSUME TypeOK
    PROVE  /\ Used \in Nat
           /\ \A k \in Stored :
                 /\ IsFiniteSet(Stored \ {k}) /\ SizeOf[file[k].upload] \in Nat
                 /\ Used = Total(Stored \ {k}, [l \in Stored |-> SizeOf[file[l].upload]])
                             + SizeOf[file[k].upload]
                 /\ Total(Stored \ {k}, [l \in Stored |-> SizeOf[file[l].upload]]) \in Nat
<1> DEFINE size == [l \in Stored |-> SizeOf[file[l].upload]]
<1>1. IsFiniteSet(Stored)
  BY FilesAssumption, FS_Subset DEF Stored
<1>2. \A k \in Stored : size[k] \in Nat /\ size[k] = SizeOf[file[k].upload]
  BY FilesAssumption, RowsHoldUploads DEF Stored, Exists
<1> HIDE DEF size
<1>3. Total(Stored, size) \in Nat
  BY <1>1, <1>2, TotalType
<1>4. ASSUME NEW k \in Stored
      PROVE  /\ IsFiniteSet(Stored \ {k})
             /\ Total(Stored, size) = Total(Stored \ {k}, size) + size[k]
             /\ Total(Stored \ {k}, size) \in Nat
  <2> DEFINE R == Stored \ {k}
  <2>1. IsFiniteSet(R) /\ k \notin R /\ R \cup {k} = Stored
    BY <1>1, FS_Subset
  <2>2. \A l \in R : size[l] \in Int
    BY <1>2
  <2> HIDE DEF R
  <2>3. Total(R \cup {k}, size) = Total(R, size) + size[k]
    BY <1>2, <2>1, <2>2, TotalAdd, ZenonT(40)
  <2>4. Total(R, size) \in Nat
    BY <2>1, <2>2, TotalType
  <2> QED
    BY <2>1, <2>3, <2>4 DEF R
<1> QED
  BY <1>2, <1>3, <1>4 DEF Used, size

LEMMA UsedSumsLater ==
    (TypeOK => \A k \in Stored :
                  /\ SizeOf[file[k].upload] \in Nat
                  /\ Used = Total(Stored \ {k}, [l \in Stored |-> SizeOf[file[l].upload]])
                              + SizeOf[file[k].upload]
                  /\ Total(Stored \ {k}, [l \in Stored |-> SizeOf[file[l].upload]]) \in Nat)'
<1>1. TypeOK => \A k \in Stored :
                   /\ SizeOf[file[k].upload] \in Nat
                   /\ Used = Total(Stored \ {k}, [l \in Stored |-> SizeOf[file[l].upload]])
                               + SizeOf[file[k].upload]
                   /\ Total(Stored \ {k}, [l \in Stored |-> SizeOf[file[l].upload]]) \in Nat
  BY UsedSums
<1> QED
  BY <1>1, PTL

\* Files that stay take what they took.
LEMMA UsedSame ==
    ASSUME SameFiles
    PROVE  Used' = Used
<1>1. Stored' = Stored
  BY DEF SameFiles, Stored, Exists
<1>2. \A k \in Stored : file'[k].upload = file[k].upload
  BY DEF SameFiles, Stored
<1>3. Used' = Total(Stored, [k \in Stored |-> SizeOf[file'[k].upload]])
  BY <1>1 DEF Used
<1>4. [k \in Stored |-> SizeOf[file'[k].upload]] = [k \in Stored |-> SizeOf[file[k].upload]]
  BY <1>2
<1> QED
  BY <1>3, <1>4 DEF Used

\* The sum of the reservations that are left.
LEMMA ReservedLeft ==
    ASSUME TypeOK, NEW S, Ends(S)
    PROVE  /\ ReservedBy(Held)' = ReservedBy(Held \ S)
           /\ ReservedBy(Held \ S) <= ReservedBy(Held)
           /\ ReservedBy(Held \ S) \in Nat /\ ReservedBy(Held) \in Nat
<1> DEFINE left == Held \ S
           res == [u \in Uploads |-> reservation'[u].reserved]
<1>1. Held' = left /\ left \in SUBSET Uploads /\ left \in SUBSET Held /\ Held \in SUBSET Uploads
  BY DEF Ends, Held
<1>2. ReservedBy(Held)' = Total(left, res)
  BY <1>1 DEF ReservedBy
<1>3. Total(left, res) = ReservedBy(left)
  BY <1>1, SumsLater DEF Ends
<1> HIDE DEF res
<1>4. ReservedBy(left) <= ReservedBy(Held) /\ ReservedBy(left) \in Nat /\ ReservedBy(Held) \in Nat
  <2> HIDE DEF left
  <2> QED BY <1>1, SumsLess, Sums
<1> QED
  BY <1>2, <1>3, <1>4

\* Reservations that end where the files stay.
LEMMA StorageEnds ==
    ASSUME TypeOK, StorageFits, NEW S, Ends(S), SameFiles
    PROVE  StorageFits'
<1>1. Used' = Used /\ Used \in Nat /\ Quota \in Nat
  BY UsedSame, UsedSums, FilesAssumption
<1>2. /\ ReservedBy(Held)' = ReservedBy(Held \ S)
      /\ ReservedBy(Held \ S) <= ReservedBy(Held)
      /\ ReservedBy(Held \ S) \in Nat /\ ReservedBy(Held) \in Nat
  BY ReservedLeft
<1>3. Used + ReservedBy(Held \ S) <= Quota
  BY <1>1, <1>2 DEF StorageFits
<1> QED
  BY <1>1, <1>2, <1>3 DEF StorageFits

LEMMA StorageReserve ==
    ASSUME TypeOK, TypeOK', StorageFits, NEW u \in Uploads, ReserveUserFileUpload(u)
    PROVE  StorageFits'
<1> DEFINE k == looked[u].key
           over == Expired \cup Superseded(k)
           others == Others(k)
           res == [v \in Uploads |-> reservation'[v].reserved]
<1>1. Used + ReservedBy(others) + ReservedBytes(u) <= Quota
  BY DEF ReserveUserFileUpload, FitsStorage
<1>2. SameFiles /\ u \notin Held
  BY ReserveShape
<1>3. \A v \in Uploads \ {u} :
         /\ reservation'[v].reserved = reservation[v].reserved
         /\ reservation'[v].cleanup = reservation[v].cleanup
         /\ reservation'[v].state = IF v \in over THEN "gone" ELSE reservation[v].state
  BY ReserveShape
<1>4. reservation'[u].state = "held" /\ reservation'[u].reserved = ReservedBytes(u)
  <2>1. reservation'[u] = [state |-> "held", key |-> looked[u].key,
                           replaces |-> ReplacesNow(u), reserved |-> ReservedBytes(u),
                           cleanup |-> CleanupBytes(u)]
    BY ReserveShape
  <2> QED BY <2>1
<1>5. Held' = others \cup {u} /\ u \notin others /\ others \in SUBSET Uploads
  BY <1>2, <1>3, <1>4 DEF Held, Others, Superseded, Expired
<1>6. ReservedBy(Held)' = ReservedBy(others) + ReservedBytes(u)
  <2>1. ReservedBy(Held)' = Total(others \cup {u}, res)
    BY <1>5 DEF ReservedBy
  <2>2. IsFiniteSet(others) /\ \A v \in Uploads : res[v] \in Nat
    BY <1>5, Sums DEF TypeOK, ReservationRow
  <2>3. Total(others \cup {u}, res) = Total(others, res) + res[u]
    <3> HIDE DEF others, res
    <3> QED BY <1>5, <2>2, TotalAdd
  <2>4. Total(others, res) = ReservedBy(others)
    <3> HIDE DEF others
    <3>1. \A v \in others : v # u /\ v \in Uploads
      BY <1>5
    <3> QED BY <1>3, <1>5, <3>1, SumsLater
  <2>5. res[u] = ReservedBytes(u)
    BY <1>4
  <2> QED
    BY <2>1, <2>3, <2>4, <2>5
<1>7. Used' = Used
  BY <1>2, UsedSame
<1> HIDE DEF others, over, k, res
<1>8. ReservedBy(others) \in Nat /\ Used \in Nat /\ ReservedBytes(u) \in Nat
  BY <1>5, Sums, UsedSums, ReservedIs
<1> QED
  BY <1>1, <1>6, <1>7, <1>8 DEF StorageFits

LEMMA StorageConfirm ==
    ASSUME TypeOK, TypeOK', Named, StorageFits, NEW u \in Uploads, ConfirmUserFileUpload(u)
    PROVE  StorageFits'
<1> DEFINE k == reservation[u].key
           S == Expired \cup {u}
<1>1. Ends(S) /\ k \in Keys
  BY ConfirmShape
<1>2. CASE SameFiles
  BY <1>1, <1>2, StorageEnds
<1>3. CASE /\ RoomFor(u)
           /\ file'[k].upload = u
           /\ \A l \in Keys \ {k} : file'[l].upload = file[l].upload
  <2> DEFINE rest == Stored \ {k}
             size == [l \in Stored |-> SizeOf[file[l].upload]]
             new == [l \in Stored' |-> SizeOf[file'[l].upload]]
             old == IF Exists(k) THEN SizeOf[file[k].upload] ELSE 0
  <2>1. /\ Stored' = rest \cup {k} /\ k \in Stored' /\ Stored' \ {k} = rest /\ k \notin rest
    BY <1>1, <1>3, FilesAssumption DEF Stored, Exists
  <2>2. Total(rest, new) = Total(rest, size)
    <3>1. \A l \in rest : l \in Stored /\ l \in Stored' /\ new[l] = size[l]
      <4>1. \A l \in rest : l \in Stored /\ l \in Stored' /\ file'[l].upload = file[l].upload
        BY <1>3, <2>1 DEF Stored
      <4> HIDE DEF rest
      <4> QED BY <4>1
    <3> HIDE DEF rest, new, size
    <3> QED BY <3>1, TotalSame
  <2>3. Used' = Total(rest, new) + SizeOf[u] /\ Total(rest, new) \in Nat /\ SizeOf[u] \in Nat
    <3>1. \A l \in Stored' : /\ SizeOf[file'[l].upload] \in Nat
                             /\ Used' = Total(Stored' \ {l}, new) + SizeOf[file'[l].upload]
                             /\ Total(Stored' \ {l}, new) \in Nat
      BY UsedSumsLater
    <3>2. /\ SizeOf[file'[k].upload] \in Nat
          /\ Used' = Total(Stored' \ {k}, new) + SizeOf[file'[k].upload]
          /\ Total(Stored' \ {k}, new) \in Nat
      <4> HIDE DEF k, new
      <4> QED BY <2>1, <3>1
    <3> HIDE DEF new, rest
    <3> QED
      BY <1>3, <2>1, <3>2
  <2>4. Used = Total(rest, size) + old /\ old \in Nat
    <3>1. CASE Exists(k)
      <4>1. k \in Stored
        BY <1>1, <3>1 DEF Stored
      <4> QED
        BY <3>1, <4>1, UsedSums
    <3>2. CASE ~Exists(k)
      <4>1. rest = Stored /\ Used = Total(Stored, size)
        BY <3>2 DEF Stored, Used
      <4>2. Total(Stored, size) \in Nat
        BY <4>1, UsedSums
      <4> HIDE DEF size, rest
      <4> QED
        BY <3>2, <4>1, <4>2
    <3> QED
      BY <3>1, <3>2
  <2>5. Used + ReservedBy(Held \ S) + SizeOf[u] - old <= Quota
    BY <1>3 DEF RoomFor
  <2>6. ReservedBy(Held)' = ReservedBy(Held \ S) /\ ReservedBy(Held \ S) \in Nat
    BY <1>1, ReservedLeft
  <2> HIDE DEF S, rest, size, new, old
  <2> QED
    BY <2>2, <2>3, <2>4, <2>5, <2>6, FilesAssumption DEF StorageFits
<1> QED
  BY <1>2, <1>3, ConfirmShape

LEMMA StorageCollection ==
    ASSUME TypeOK, TypeOK', StorageFits, Collection
    PROVE  StorageFits'
<1>1. Ends(Expired)
  BY SweepShape, CollectShape DEF Collection
<1>2. CASE SweepReservations
  BY <1>1, <1>2, SweepShape, StorageEnds
<1>3. ASSUME NEW k \in Keys, CollectUserFileGarbage(k)
      PROVE  StorageFits'
  <2> DEFINE rest == Stored \ {k}
             size == [l \in Stored |-> SizeOf[file[l].upload]]
             new == [l \in Stored' |-> SizeOf[file'[l].upload]]
  <2>1. /\ k \in Stored
        /\ file'[k].upload = None
        /\ \A l \in Keys \ {k} : file'[l].upload = file[l].upload
    BY <1>3, CollectShape DEF Collectable, Stored, Exists
  <2>2. Stored' = rest
    BY <2>1 DEF Stored, Exists
  <2>3. Total(rest, new) = Total(rest, size)
    <3>1. \A l \in rest : new[l] = size[l]
      <4>1. \A l \in rest : l \in Stored /\ l \in Stored' /\ file'[l].upload = file[l].upload
        BY <2>1, <2>2 DEF Stored
      <4> HIDE DEF rest
      <4> QED BY <4>1
    <3> HIDE DEF rest, new, size
    <3> QED BY <3>1, TotalSame
  <2>4. Used' = Total(rest, new)
    BY <2>2 DEF Used
  <2>5. /\ Used = Total(rest, size) + SizeOf[file[k].upload]
        /\ SizeOf[file[k].upload] \in Nat /\ Total(rest, size) \in Nat
    BY <2>1, UsedSums
  <2>6. /\ ReservedBy(Held)' = ReservedBy(Held \ Expired)
        /\ ReservedBy(Held \ Expired) <= ReservedBy(Held)
        /\ ReservedBy(Held \ Expired) \in Nat /\ ReservedBy(Held) \in Nat
    BY <1>1, ReservedLeft
  <2> HIDE DEF rest, size, new
  <2>7. Total(rest, size) + ReservedBy(Held \ Expired) <= Quota
    BY <2>5, <2>6, FilesAssumption DEF StorageFits
  <2> QED
    BY <2>3, <2>4, <2>6, <2>7 DEF StorageFits
<1> QED
  BY <1>2, <1>3 DEF Collection

\* Files and reservations stay within the quota together, and so do the objects
\* that wait for their deletion or may still have to.
THEOREM QuotasHold == Spec => []Quotas
<1>1. Init => TypeOK /\ Reservations /\ StorageFits /\ TemporaryFits
  <2> SUFFICES ASSUME Init
               PROVE  StorageFits /\ TemporaryFits
    BY InitTypes, InitReservations
  <2>1. Held = {} /\ Doomed = {} /\ Stored = {}
    BY QueuedIs DEF Init, Held, Doomed, Stored, Exists, Unused, NoFile
  <2>2. \A f : Total({}, f) = 0
    BY TotalEmpty
  <2>3. Cardinality({}) = 0
    BY FS_EmptySet
  <2> QED
    BY <2>1, <2>2, <2>3, FilesAssumption
    DEF StorageFits, TemporaryFits, Used, ReservedBy, CleanupOf, BytesOf
<1>2. TypeOK /\ Named /\ Reservations /\ StorageFits /\ TemporaryFits /\ [Next]_vars
        => (StorageFits /\ TemporaryFits)'
  <2> SUFFICES ASSUME TypeOK, Named, Reservations, StorageFits, TemporaryFits, [Next]_vars
               PROVE  StorageFits' /\ TemporaryFits'
    OBVIOUS
  <2> TypeOK'
    BY StepTypes
  <2>1. CASE SameFiles /\ UNCHANGED <<reservation, deletion>>
    <3>1. Ends({})
      BY <2>1 DEF Ends
    <3> QED
      BY <2>1, <3>1, StorageEnds, TemporaryOthers
  <2>2. ASSUME NEW u \in Uploads, Upload(u)
        PROVE  StorageFits' /\ TemporaryFits'
    <3>1. CASE CancelUserFileUploadReservation(u)
      BY <2>2, <3>1, CancelShape, StorageEnds, TemporaryUpload
    <3>2. CASE UNCHANGED <<file, reservation, deletion>>
      BY <2>1, <3>2 DEF SameFiles
    <3> QED
      BY <2>2, <3>1, <3>2, StorageReserve, StorageConfirm, TemporaryUpload
      DEF Upload, Look, StartPut, EndPut
  <2>3. ASSUME Reference \/ Time
        PROVE  StorageFits' /\ TemporaryFits'
    <3>1. SameFiles /\ UNCHANGED reservation /\ Ends({})
      BY <2>3, FilesSame DEF Ends
    <3>2. \A u \in Uploads : deletion'[u].state = deletion[u].state
      BY <2>3, StatesStay
    <3> QED
      BY <3>1, <3>2, StorageEnds, TemporaryOthers
  <2>4. ASSUME NEW w \in Workers, Deletion(w)
        PROVE  StorageFits' /\ TemporaryFits'
    <3>1. SameFiles /\ UNCHANGED reservation
      BY <2>4 DEF Deletion, ClaimUserObjectDeletion, DeleteObject, FinishUserObjectDeletion,
                  SameFiles
    <3>2. \A u \in Uploads : deletion'[u].state # "none" => deletion[u].state # "none"
      BY <2>4, QueuedIs
      DEF Deletion, ClaimUserObjectDeletion, DeleteObject, FinishUserObjectDeletion, MyClaim,
          TypeOK, DeletionRow
    <3>3. Ends({})
      BY <3>1 DEF Ends
    <3> QED
      BY <3>1, <3>2, <3>3, StorageEnds, TemporaryOthers
  <2>5. ASSUME Fault
        PROVE  StorageFits' /\ TemporaryFits'
    BY <2>1, <2>5 DEF Fault, Lose, Crash, SameFiles
  <2>6. CASE UNCHANGED vars
    BY <2>1, <2>6 DEF vars, SameFiles
  <2> QED
    BY <2>2, <2>3, <2>4, <2>5, <2>6, StorageCollection, TemporaryCollection DEF Next
<1>3. StorageFits /\ TemporaryFits => Quotas
  BY DEF StorageFits, TemporaryFits, Quotas
<1> QED
  BY <1>1, <1>2, <1>3, LifecycleHolds, ReservationsHold, PTL DEF Spec

\* What was reserved is enough when the upload is confirmed.
THEOREM ReservationHonouredHolds == Spec => []ReservationHonoured
<1>1. TypeOK /\ Named /\ Reservations /\ Quotas => ReservationHonoured
  <2> SUFFICES ASSUME TypeOK, Named, Reservations, Quotas,
                      NEW u \in Held \ Expired, Replaceable(u)
               PROVE  RoomFor(u)
    BY DEF ReservationHonoured
  <2> DEFINE k == reservation[u].key
             rest == Held \ (Expired \cup {u})
             more == rest \cup {u}
             old == IF Exists(k) THEN SizeOf[file[k].upload] ELSE 0
  <2>1. u \in Uploads /\ u \in Held /\ Good(u) /\ k \in Keys
    BY GoodIs DEF Held, Named
  <2>2. ReservedBy(rest) + reservation[u].reserved <= ReservedBy(Held)
    <3>1. /\ more \in SUBSET Uploads /\ {u} \in SUBSET Uploads /\ {u} \subseteq more
          /\ more \ {u} = rest /\ more \in SUBSET Held /\ Held \in SUBSET Uploads
          /\ rest \in SUBSET Uploads
      BY <2>1 DEF Held
    <3> HIDE DEF rest, more
    <3>2. ReservedBy(more) = ReservedBy(more \ {u}) + ReservedBy({u})
      BY <3>1, Sums
    <3>3. ReservedBy({u}) = reservation[u].reserved
      BY <2>1, Sums
    <3>4. ReservedBy(more) <= ReservedBy(Held)
      BY <3>1, SumsLess
    <3> QED
      BY <3>1, <3>2, <3>3, <3>4
  <2>3. reservation[u].reserved >= SizeOf[u] - old
    <3>1. Enough(u) /\ SizeOf[u] \in Nat /\ reservation[u].reserved \in Nat
      BY <2>1, FilesAssumption DEF Reservations, Held, TypeOK, ReservationRow
    <3>2. CASE Exists(k)
      BY <3>1, <3>2 DEF Replaceable, Enough
    <3>3. CASE ~Exists(k)
      <4>1. reservation[u].replaces = None
        BY <2>1, <3>3 DEF Reservations, Exists
      <4> QED
        BY <3>1, <3>3, <4>1 DEF Enough
    <3> QED
      BY <3>2, <3>3
  <2>4. rest \in SUBSET Uploads /\ Held \in SUBSET Uploads
    BY DEF Held
  <2>5. old \in Nat
    BY <2>1, UsedSums DEF Stored
  <2> HIDE DEF rest, old
  <2>6. /\ ReservedBy(rest) \in Nat /\ ReservedBy(Held) \in Nat /\ Used \in Nat
        /\ reservation[u].reserved \in Nat /\ SizeOf[u] \in Nat
    BY <2>1, <2>4, Sums, UsedSums, FilesAssumption DEF TypeOK, ReservationRow
  <2>7. Used + ReservedBy(rest) + SizeOf[u] - old <= Quota
    BY <2>2, <2>3, <2>5, <2>6, FilesAssumption DEF Quotas
  <2> QED
    BY <2>7 DEF RoomFor, rest, old
<1> QED
  BY <1>1, LifecycleHolds, ReservationsHold, QuotasHold, PTL

=============================================================================
