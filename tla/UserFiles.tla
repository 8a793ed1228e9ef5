------------------------------ MODULE UserFiles ------------------------------
(***************************************************************************)
(* The files of one organization: upload reservations, confirmed files,    *)
(* references of business objects to files, the objects in the store, and  *)
(* the deletion queue with its workers (repository/user_workspace.go,      *)
(* service/user_storage.go, user_storage_backend.go).                      *)
(*                                                                         *)
(* An upload is an upload id; its object key is unique, so the upload also *)
(* stands for the object. Every action is one transaction under the lock   *)
(* of the organization, or one access to the store. Abstractions: one      *)
(* user; one document, whose content is the set of files it names; MIME    *)
(* types and the request rate; a retry of a deletion needs no delay.       *)
(***************************************************************************)
EXTENDS Integers, FiniteSets, Totals

CONSTANTS
    Uploads,         \* upload ids, each used once
    Keys,            \* storage keys
    Workers,         \* object deletion workers
    None,
    SizeOf,          \* size of each upload
    Quota,           \* USER_STORAGE_QUOTA_MB
    MaxReservations, \* maxWorkspaceActiveUploadReservationsPerOrganization
    MaxTemporary,    \* maxWorkspaceTemporaryObjectsPerOrganization
    MaxFiles,        \* maxWorkspaceFilesPerOrganization
    Env              \* what the environment may do, see FilesEnv

\* loss:  the store loses an object
\* crash: a deletion worker stops between two steps
\* late:  an upload may start after its ticket expired, or outlast its grace
FilesEnv == {"loss", "crash", "late"}

ASSUME FilesAssumption ==
    /\ IsFiniteSet(Uploads) /\ IsFiniteSet(Keys)
    /\ None \notin Uploads \cup Keys \cup Workers
    /\ SizeOf \in [Uploads -> Nat \ {0}]
    /\ {Quota, MaxReservations, MaxTemporary, MaxFiles} \subseteq Nat
    /\ Env \subseteq FilesEnv

VARIABLES
    file,        \* user_files, by storage key
    reservation, \* user_file_upload_reservations, by upload
    deletion,    \* user_object_deletions, by upload
    ref,         \* user_file_references
    store,       \* objects in the object store
    putting,     \* uploads whose bytes are under way
    clock,       \* has the ticket of an upload, then its grace, run out?
    looked,      \* what a request saw before it reserves
    holder,      \* the row each deletion worker has claimed
    linking      \* the check of a reference that is set without the lock

vars == <<file, reservation, deletion, ref, store, putting, clock, looked, holder, linking>>

(***************************************************************************)
(* Rows                                                                    *)
(***************************************************************************)

\* unreferenced_at of a file is empty ("used"), set ("idle") or before the
\* cutoff of the retention ("old").
FileRow == [upload: Uploads \cup {None}, since: {"used", "idle", "old"}]
NoFile == [upload |-> None, since |-> "used"]

ReservationRow ==
    [state: {"unused", "held", "gone"}, key: Keys \cup {None},
     replaces: Uploads \cup {None}, reserved: Nat, cleanup: Nat]
Unused == [state |-> "unused", key |-> None, replaces |-> None, reserved |-> 0, cleanup |-> 0]

\* A pending row is due when its next_attempt_at has come; after an expired or
\* cancelled reservation that is cleanup_after.
DeletionRow ==
    [state: {"none", "pending", "processing"}, waits: BOOLEAN,
     owner: Workers \cup {None}, lapsed: BOOLEAN]
NoDeletion == [state |-> "none", waits |-> FALSE, owner |-> None, lapsed |-> FALSE]
Queued(waits) == [NoDeletion EXCEPT !.state = "pending", !.waits = waits]

\* The domains that hold references: the document and the result of a render.
Domains == {"document", "render"}

TypeOK ==
    /\ file \in [Keys -> FileRow]
    /\ reservation \in [Uploads -> ReservationRow]
    /\ deletion \in [Uploads -> DeletionRow]
    /\ ref \subseteq Domains \X Keys
    /\ store \subseteq Uploads
    /\ putting \subseteq Uploads
    /\ clock \in [Uploads -> {"fresh", "expired", "cleanable"}]
    /\ looked \in [Uploads -> [key: Keys \cup {None}, replaces: Uploads \cup {None}]]
    /\ holder \in [Workers -> Uploads \cup {None}]
    /\ linking \in Keys \cup {None}

Init ==
    /\ file = [k \in Keys |-> NoFile]
    /\ reservation = [u \in Uploads |-> Unused]
    /\ deletion = [u \in Uploads |-> NoDeletion]
    /\ ref = {}
    /\ store = {}
    /\ putting = {}
    /\ clock = [u \in Uploads |-> "fresh"]
    /\ looked = [u \in Uploads |-> [key |-> None, replaces |-> None]]
    /\ holder = [w \in Workers |-> None]
    /\ linking = None

Exists(k) == file[k].upload # None
Stored == {k \in Keys : Exists(k)}
Held == {u \in Uploads : reservation[u].state = "held"}
Live == {file[k].upload : k \in Stored}
Doomed == {u \in Uploads : deletion[u].state # "none"}
Expired == {u \in Held : clock[u] # "fresh"}

Used == Total(Stored, [k \in Stored |-> SizeOf[file[k].upload]])
ReservedBy(S) == Total(S, [u \in Uploads |-> reservation[u].reserved])
CleanupOf(S) == Total(S, [u \in Uploads |-> reservation[u].cleanup])
BytesOf(S) == Total(S, SizeOf)

(***************************************************************************)
(* Parts of the transactions                                               *)
(***************************************************************************)

\* queueUserObjectDeletion: a row that exists is kept.
Queue(S, waits, d) ==
    [u \in Uploads |-> IF u \in S /\ d[u].state = "none" THEN Queued(waits) ELSE d[u]]

\* expireUserFileUploadReservations, the first thing most transactions do.
Sweep(r) == [u \in Uploads |-> IF u \in Expired THEN [r[u] EXCEPT !.state = "gone"] ELSE r[u]]
Swept == Sweep(reservation)
SweptDeletions == Queue(Expired, TRUE, deletion)
KeysOf(S) == {reservation[u].key : u \in S}

\* refreshUserFileReferenceState: the given keys are in use while a reference or
\* a live reservation names them.
Refresh(K, f, refs, held) ==
    [k \in Keys |->
        IF k \notin K \/ f[k].upload = None THEN f[k]
        ELSE IF \/ \E d \in Domains : <<d, k>> \in refs
                \/ \E u \in held : reservation[u].key = k /\ clock[u] = "fresh"
        THEN [f[k] EXCEPT !.since = "used"]
        ELSE [f[k] EXCEPT !.since = "idle"]]

\* replaceUserFileReferences
Replaced(d, K) == {r \in ref : r[1] # d} \cup ({d} \X K)
KeysNamedBy(d) == {k \in Keys : <<d, k>> \in ref}

(***************************************************************************)
(* Uploads                                                                 *)
(***************************************************************************)

\* Before the transaction the service reads the file and looks its object up in
\* the store. PrepareUserWorkspaceFileUpload asks to replace a file whose object
\* is missing, and ArchiveGeneratedFile also one of another size; it uploads
\* nothing when the file is there as it should be.
Whole(k) == Exists(k) /\ file[k].upload \in store
SameSize(u, k) == Exists(k) /\ SizeOf[file[k].upload] = SizeOf[u]

Look(u, k, archiving) ==
    /\ reservation[u].state = "unused" /\ looked[u].key = None
    /\ archiving => ~(Whole(k) /\ SameSize(u, k))
    /\ looked' = [looked EXCEPT ![u] =
                     [key |-> k,
                      replaces |-> IF Whole(k) /\ ~archiving THEN None ELSE file[k].upload]]
    /\ UNCHANGED <<file, reservation, deletion, ref, store, putting, clock, holder, linking>>

\* The replacement holds only if the file is still the one that was looked at.
\* Mutant: what was looked at is trusted.
ReplacesAsLooked(u) == looked[u].replaces
ReplacesNow(u) ==
    IF file[looked[u].key].upload = looked[u].replaces THEN looked[u].replaces ELSE None
\* Mutant: a smaller replacement reserves less than nothing.
ReservedDifference(u) ==
    SizeOf[u] - (IF ReplacesNow(u) = None THEN 0 ELSE SizeOf[ReplacesNow(u)])
ReservedBytes(u) ==
    IF ReplacesNow(u) = None THEN SizeOf[u]
    ELSE IF SizeOf[u] > SizeOf[ReplacesNow(u)] THEN SizeOf[u] - SizeOf[ReplacesNow(u)] ELSE 0
\* Mutant: the replaced object is forgotten.
CleanupOfNew(u) == SizeOf[u]
CleanupBytes(u) ==
    IF ReplacesNow(u) # None /\ SizeOf[ReplacesNow(u)] > SizeOf[u]
    THEN SizeOf[ReplacesNow(u)] ELSE SizeOf[u]

\* The reservations that are left when the expired ones are swept and the
\* previous one of the same storage key is replaced.
Others(k) == {v \in Held \ Expired : reservation[v].key # k}
Superseded(k) == {v \in Held \ Expired : reservation[v].key = k}
NewFiles(S) == {v \in S : ~Exists(reservation[v].key)}

FitsTemporary(u, k) ==
    LET doomed == Doomed \cup Expired \cup Superseded(k)
    IN  /\ Cardinality(Others(k)) + 1 <= MaxReservations
        /\ Cardinality(Others(k)) + Cardinality(doomed) + 1 <= MaxTemporary
        /\ CleanupOf(Others(k)) + BytesOf(doomed) + CleanupBytes(u) <= Quota
FitsStorage(u, k) ==
    /\ Used + ReservedBy(Others(k)) + ReservedBytes(u) <= Quota
    /\ Cardinality(Stored) + Cardinality(NewFiles(Others(k)))
         + (IF Exists(k) THEN 0 ELSE 1) <= MaxFiles

\* ReserveUserFileUpload
ReserveUserFileUpload(u) ==
    LET k == looked[u].key
        r == [v \in Uploads |-> IF v \in Superseded(k) THEN [Swept[v] EXCEPT !.state = "gone"]
                                ELSE Swept[v]]
    IN  /\ reservation[u].state = "unused" /\ k # None
        /\ FitsTemporary(u, k) /\ FitsStorage(u, k)
        /\ reservation' = [r EXCEPT ![u] =
              [state |-> "held", key |-> k, replaces |-> ReplacesNow(u),
               reserved |-> ReservedBytes(u), cleanup |-> CleanupBytes(u)]]
        /\ looked' = [looked EXCEPT ![u] = [key |-> None, replaces |-> None]]
        /\ deletion' = Queue(Superseded(k), TRUE, SweptDeletions)
        /\ file' = LET f == Refresh(KeysOf(Expired), file, ref, Held \ Expired)
                   IN  IF Exists(k) THEN [f EXCEPT ![k].since = "used"] ELSE f
        /\ UNCHANGED <<ref, store, putting, clock, holder, linking>>

\* The bytes are on their way: to the store itself with the ticket, or through
\* UploadLocalUserWorkspaceFile, which looks for the row of the reservation.
StartPut(u) ==
    /\ u \in Held /\ u \notin putting \cup store
    /\ clock[u] = "fresh" \/ "late" \in Env
    /\ putting' = putting \cup {u}
    /\ UNCHANGED <<file, reservation, deletion, ref, store, clock, looked, holder, linking>>

\* putUserStorageObject: the object appears whole, or not at all.
EndPut(u, ok) ==
    /\ u \in putting
    /\ putting' = putting \ {u}
    /\ store' = IF ok THEN store \cup {u} ELSE store
    /\ UNCHANGED <<file, reservation, deletion, ref, clock, looked, holder, linking>>

\* ConfirmUserFileUpload, which the service calls when the object is there. A
\* file that is not the one to be replaced wins, and the new object goes.
Replaceable(u) ==
    LET r == reservation[u] IN ~Exists(r.key) \/ (r.replaces # None /\ r.replaces = file[r.key].upload)

\* Mutant: the expiry is not checked again.
ConfirmableWhileHeld(u) == u \in Held /\ u \in store
Confirmable(u) == u \in Held \ Expired /\ u \in store
RoomFor(u) ==
    LET k == reservation[u].key
    IN  Used + ReservedBy(Held \ (Expired \cup {u})) + SizeOf[u]
          - (IF Exists(k) THEN SizeOf[file[k].upload] ELSE 0) <= Quota

ConfirmUserFileUpload(u) ==
    LET k == reservation[u].key
        left == Held \ (Expired \cup {u})
        since == IF \E d \in Domains : <<d, k>> \in ref THEN "used" ELSE "idle"
        old == IF Exists(k) THEN {file[k].upload} ELSE {}
        f == Refresh(KeysOf(Expired), file, ref, Held \ Expired)
    IN  /\ Confirmable(u)
        /\ reservation' = [Swept EXCEPT ![u].state = "gone"]
        /\ IF Replaceable(u)
           THEN /\ RoomFor(u)
                /\ file' = [f EXCEPT ![k] = [upload |-> u, since |-> since]]
                /\ deletion' = Queue(old, FALSE, SweptDeletions)
           ELSE /\ file' = Refresh({k}, f, ref, left)
                /\ deletion' = Queue({u}, FALSE, SweptDeletions)
        /\ UNCHANGED <<ref, store, putting, clock, looked, holder, linking>>

\* CancelUserFileUploadReservation: by the client, or by the archiver whose
\* upload failed. Its object goes only when no upload can be under way.
\* Mutants: the file is not refreshed; the object is due at once.
FilesUnchanged(u) == file
DeletionAtOnce(u) == Queue({u}, FALSE, deletion)
FilesAfterCancel(u) == Refresh({reservation[u].key}, file, ref, Held \ {u})
DeletionsAfterCancel(u) == Queue({u}, TRUE, deletion)

CancelUserFileUploadReservation(u) ==
    /\ u \in Held
    /\ reservation' = [reservation EXCEPT ![u].state = "gone"]
    /\ deletion' = DeletionsAfterCancel(u)
    /\ file' = FilesAfterCancel(u)
    /\ UNCHANGED <<ref, store, putting, clock, looked, holder, linking>>

(***************************************************************************)
(* Collection and deletion                                                 *)
(***************************************************************************)

\* CollectUserFileGarbage takes the oldest files that are unreferenced for the
\* retention, as far as the room for pending deletions goes; a file that is too
\* large for the rest of it is passed over. The order is free in the model.
Collectable(k) ==
    /\ file[k].upload # None /\ file[k].since = "old"
    /\ \A d \in Domains : <<d, k>> \notin ref
    /\ \A u \in Held \ Expired : reservation[u].key # k

CollectUserFileGarbage(k) ==
    LET u == file[k].upload
        left == Held \ Expired
        doomed == Doomed \cup Expired
        f == Refresh(KeysOf(Expired), file, ref, left)
    IN  /\ Collectable(k) /\ f[k].since = "old"
        /\ CleanupOf(left) + BytesOf(doomed) + SizeOf[u] <= Quota
        /\ Cardinality(left) + Cardinality(doomed) + 1 <= MaxTemporary
        /\ reservation' = Swept
        /\ deletion' = Queue({u}, FALSE, SweptDeletions)
        /\ file' = [f EXCEPT ![k] = NoFile]
        /\ UNCHANGED <<ref, store, putting, clock, looked, holder, linking>>

\* The same transaction when it only sweeps expired reservations.
SweepReservations ==
    /\ Expired # {}
    /\ reservation' = Swept
    /\ deletion' = SweptDeletions
    /\ file' = Refresh(KeysOf(Expired), file, ref, Held \ Expired)
    /\ UNCHANGED <<ref, store, putting, clock, looked, holder, linking>>

\* ClaimUserObjectDeletion: a row that is due, or whose lease ran out.
ClaimUserObjectDeletion(w, u) ==
    /\ holder[w] = None
    /\ \/ deletion[u].state = "pending" /\ (deletion[u].waits => clock[u] = "cleanable")
       \/ deletion[u].state = "processing" /\ deletion[u].lapsed
    /\ deletion' = [deletion EXCEPT ![u] =
                       [@ EXCEPT !.state = "processing", !.owner = w, !.lapsed = FALSE]]
    /\ holder' = [holder EXCEPT ![w] = u]
    /\ UNCHANGED <<file, reservation, ref, store, putting, clock, looked, linking>>

\* deleteUserStorageObject; an object that is not there counts as deleted.
\* FinishUserObjectDeletion then writes only under the token of the claim.
DeleteObject(w) ==
    /\ holder[w] \in store
    /\ store' = store \ {holder[w]}
    /\ UNCHANGED <<file, reservation, deletion, ref, putting, clock, looked, holder, linking>>

MyClaim(w) ==
    \E u \in Uploads : holder[w] = u /\ deletion[u].state = "processing" /\ deletion[u].owner = w

FinishUserObjectDeletion(w, ok) ==
    /\ holder[w] # None
    /\ ok => holder[w] \notin store
    /\ deletion' = IF ~MyClaim(w) THEN deletion
                   ELSE [deletion EXCEPT ![holder[w]] =
                            IF ok THEN NoDeletion ELSE Queued(FALSE)]
    /\ holder' = [holder EXCEPT ![w] = None]
    /\ UNCHANGED <<file, reservation, ref, store, putting, clock, looked, linking>>

(***************************************************************************)
(* References                                                              *)
(***************************************************************************)

\* ApplyUserWorkspaceMutations for a version of the document that is accepted,
\* whether its content changed or not: the files must exist.
NamesFiles(K) == \A k \in K : Exists(k)

ApplyUserWorkspaceMutations(K) ==
    /\ NamesFiles(K)
    /\ ref' = Replaced("document", K)
    /\ file' = Refresh(KeysNamedBy("document") \cup K, file, ref', Held)
    /\ UNCHANGED <<reservation, deletion, store, putting, clock, looked, holder, linking>>

\* SetUserFileReferences, for the result of a render, does not lock the
\* organization: its check that the file exists and its write are two steps for
\* the transactions that do.
CheckReference(k) ==
    /\ linking = None /\ Exists(k)
    /\ linking' = k
    /\ UNCHANGED <<file, reservation, deletion, ref, store, putting, clock, looked, holder>>

SetUserFileReferences ==
    /\ linking # None
    /\ ref' = Replaced("render", {linking})
    /\ file' = Refresh(KeysNamedBy("render") \cup {linking}, file, ref', Held)
    /\ linking' = None
    /\ UNCHANGED <<reservation, deletion, store, putting, clock, looked, holder>>

(***************************************************************************)
(* Time and faults                                                         *)
(***************************************************************************)

\* The ticket of an upload expires (userFileUploadLifetime), which matters while
\* a row waits for it ...
TicketExpires(u) ==
    /\ u \in Held \/ deletion[u].waits
    /\ clock[u] = "fresh"
    /\ clock' = [clock EXCEPT ![u] = "expired"]
    /\ UNCHANGED <<file, reservation, deletion, ref, store, putting, looked, holder, linking>>

\* ... and then the grace (userFileUploadCleanupGrace), which is as long as the
\* longest upload: one that began before the ticket expired is over by then.
GraceEnds(u) ==
    /\ u \in Held \/ deletion[u].waits
    /\ clock[u] = "expired"
    /\ u \in putting => "late" \in Env
    /\ clock' = [clock EXCEPT ![u] = "cleanable"]
    /\ UNCHANGED <<file, reservation, deletion, ref, store, putting, looked, holder, linking>>

\* The retention of an unreferenced file ends.
Age(k) ==
    /\ file[k].since = "idle"
    /\ file' = [file EXCEPT ![k].since = "old"]
    /\ UNCHANGED <<reservation, deletion, ref, store, putting, clock, looked, holder, linking>>

LeaseLapses(u) ==
    /\ deletion[u].state = "processing" /\ ~deletion[u].lapsed
    /\ deletion' = [deletion EXCEPT ![u].lapsed = TRUE]
    /\ UNCHANGED <<file, reservation, ref, store, putting, clock, looked, holder, linking>>

\* The store loses the object of a file.
Lose(k) ==
    /\ "loss" \in Env /\ Exists(k) /\ file[k].upload \in store
    /\ store' = store \ {file[k].upload}
    /\ UNCHANGED <<file, reservation, deletion, ref, putting, clock, looked, holder, linking>>

Crash(w) ==
    /\ "crash" \in Env /\ holder[w] # None
    /\ holder' = [holder EXCEPT ![w] = None]
    /\ UNCHANGED <<file, reservation, deletion, ref, store, putting, clock, looked, linking>>

Upload(u) ==
    \/ \E k \in Keys, archiving \in BOOLEAN : Look(u, k, archiving)
    \/ ReserveUserFileUpload(u)
    \/ StartPut(u)
    \/ \E ok \in BOOLEAN : EndPut(u, ok)
    \/ ConfirmUserFileUpload(u)
    \/ CancelUserFileUploadReservation(u)

Reference ==
    \/ \E K \in SUBSET Keys : ApplyUserWorkspaceMutations(K)
    \/ \E k \in Keys : CheckReference(k)
    \/ SetUserFileReferences

Deletion(w) ==
    \/ \E u \in Uploads : ClaimUserObjectDeletion(w, u)
    \/ DeleteObject(w)
    \/ \E ok \in BOOLEAN : FinishUserObjectDeletion(w, ok)

Collection ==
    \/ SweepReservations
    \/ \E k \in Keys : CollectUserFileGarbage(k)

Time ==
    \/ \E u \in Uploads : TicketExpires(u) \/ GraceEnds(u) \/ LeaseLapses(u)
    \/ \E k \in Keys : Age(k)

Fault ==
    \/ \E k \in Keys : Lose(k)
    \/ \E w \in Workers : Crash(w)

Next ==
    \/ \E u \in Uploads : Upload(u)
    \/ Reference
    \/ \E w \in Workers : Deletion(w)
    \/ Collection
    \/ Time
    \/ Fault

Spec == Init /\ [][Next]_vars

(***************************************************************************)
(* Properties                                                              *)
(***************************************************************************)

\* The object of a confirmed file or of a live reservation is in no deletion
\* row and in the hands of no deletion worker, not even of one whose lease was
\* taken over: confirming races the sweep of expired reservations, and a
\* replacement queues the old object only.
LiveNotDoomed ==
    (Live \cup Held) \cap (Doomed \cup {holder[w] : w \in Workers}) = {}

\* Every object in the store belongs to a file or a reservation, or is queued
\* for deletion; an upload still under way has a row that waits for it. So no
\* cancelled, expired, superseded or replaced upload leaves an orphan.
NoOrphans ==
    /\ store \subseteq Live \cup Held \cup Doomed
    /\ putting \subseteq Held \cup {u \in Doomed : deletion[u].state = "pending" /\ deletion[u].waits}

\* Files and reservations together stay within the quota of the organization,
\* whatever replacements are under way, and so do the objects that may still have
\* to be deleted, which are limited in number too.
Quotas ==
    /\ Used + ReservedBy(Held) <= Quota
    /\ CleanupOf(Held) + BytesOf(Doomed) <= Quota
    /\ Cardinality(Held) + Cardinality(Doomed) <= MaxTemporary

\* What was reserved is enough: a replacement that reserved only the difference
\* is not refused at its confirmation, although files came and went in between.
ReservationHonoured ==
    \A u \in Held \ Expired : Replaceable(u) => RoomFor(u)

\* A file the document names exists, for collection and replacement leave it
\* alone; and a file counts as used only while something uses it, whichever of
\* the reference, the reservation and its expiry went last, or it would never be
\* collected.
References ==
    /\ \A k \in KeysNamedBy("document") : Exists(k)
    /\ \A k \in Keys :
           Exists(k) /\ file[k].since = "used" =>
               \/ \E d \in Domains : <<d, k>> \in ref
               \/ \E u \in Held : reservation[u].key = k

=============================================================================
