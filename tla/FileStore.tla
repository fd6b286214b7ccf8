------------------------------ MODULE FileStore ------------------------------
(***************************************************************************)
(* The life of uploaded files in the portal app: upload requests store     *)
(* files and announce them in the outbox (upload_view, create_upload_file, *)
(* finalize_batch), an hourly task announces those about to expire         *)
(* (notify_expiring_files), and a periodic task deletes the expired ones   *)
(* (cleanup_expired_upload_files_task).  A file has a row in the database  *)
(* and a blob in the storage, which no transaction covers.                 *)
(*                                                                         *)
(* Files are numbered in the order of their uuid7 keys, which is the order *)
(* of created_at.  Announcements are rows of the outbox: module Outbox     *)
(* says what becomes of them.                                              *)
(***************************************************************************)
EXTENDS Integers, FiniteSets

CONSTANTS
    MaxFiles,  \* how many files are ever uploaded
    Requests,  \* the upload requests, each with a batch of its own
    NoRequest, \* the request of a file that was not uploaded yet, the batch of one in none
    BatchSize, \* BATCH_SIZE of portal.tasks
    MaxFilesPerRequest, \* MAX_FILES_PER_REQUEST of upload_view
    Handled,   \* bound: the files that administrators and mark_file_failed act on
    MaxSaves   \* bound: how many forms are saved

Files == 1 .. MaxFiles

ASSUME StoreAssumption ==
    /\ MaxFiles \in Nat
    /\ NoRequest \notin Requests
    /\ BatchSize \in Nat \ {0}
    /\ MaxFilesPerRequest \in Nat \ {0}
    /\ Handled \subseteq Files
    /\ MaxSaves \in Nat

VARIABLES
    row,       \* UploadFile.status, "absent" while there is no row
    blobs,     \* the files that are in the storage
    age,       \* created_at against the two cutoffs
    batch,     \* UploadBatch.status, "none" while there is no row
    request,   \* the request that uploads a file
    batchOf,   \* UploadFile.batch: the batch of a request, or none
    pc,        \* where each upload request is
    announced, \* the files with a file.stored event
    warned,    \* the files with a file.expiring event
    expiring,  \* what the notification in progress has yet to visit
    cleaning,  \* where the cleanup is
    doomed,    \* `batch_pks` of the cleanup in progress
    visiting,  \* the rows it read again and has yet to visit
    form,      \* the status of a file that an administrator is saving, as read before
    saves,     \* how many forms were opened so far
    faulted    \* history: files that a failed request gave up or an administrator changed

requestVars == <<batch, request, batchOf, pc>>
cleanupVars == <<cleaning, doomed, visiting>>
taskVars    == <<expiring, cleanupVars>>
vars == <<row, blobs, age, requestVars, announced, warned, taskVars, form, saves, faulted>>

TypeOK ==
    /\ row \in [Files -> {"absent", "stored", "failed"}]
    /\ blobs \subseteq Files
    /\ age \in [Files -> {"fresh", "expiring", "expired"}]
    /\ batch \in [Requests -> {"none", "init", "complete", "partial", "failed"}]
    /\ request \in [Files -> Requests \cup {NoRequest}]
    /\ batchOf \in [Files -> Requests \cup {NoRequest}]
    /\ pc \in [Requests -> {"idle", "open", "valid", "invalid", "done"}]
    /\ announced \subseteq Files
    /\ warned \subseteq Files
    /\ expiring \subseteq Files
    /\ doomed \subseteq Files
    /\ visiting \subseteq doomed
    /\ cleaning \in {"idle", "selected", "reading"}
    /\ form \in [Files -> {"closed", "stored", "failed"}]
    /\ saves \in 0 .. MaxSaves
    /\ faulted \subseteq Files

Init ==
    /\ row = [f \in Files |-> "absent"]
    /\ blobs = {}
    /\ age = [f \in Files |-> "fresh"]
    /\ batch = [r \in Requests |-> "none"]
    /\ request = [f \in Files |-> NoRequest]
    /\ batchOf = [f \in Files |-> NoRequest]
    /\ pc = [r \in Requests |-> "idle"]
    /\ announced = {}
    /\ warned = {}
    /\ expiring = {}
    /\ cleaning = "idle"
    /\ doomed = {}
    /\ visiting = {}
    /\ form = [f \in Files |-> "closed"]
    /\ saves = 0
    /\ faulted = {}

IsLive(f) == row[f] # "absent"
Started   == {f \in Files : request[f] # NoRequest}

-----------------------------------------------------------------------------
(* An upload request *)

\* create_batch.
CreateBatch(r) ==
    /\ pc[r] = "idle"
    /\ pc' = [pc EXCEPT ![r] = "open"]
    /\ batch' = [batch EXCEPT ![r] = "init"]
    /\ UNCHANGED <<row, blobs, age, request, batchOf, announced, warned, taskVars, form, saves, faulted>>

\* The file that a request is storing: its blob is there, its row is not yet.
Current(r) == {f \in Files : /\ pc[r] \in {"valid", "invalid"}
                             /\ request[f] = r
                             /\ \A g \in Files : request[g] = r => g <= f}

\* create_upload_file validates the next file of the request, and saving the row
\* begins with writing the blob to the storage.  Invalid files are kept too.
\* upload_view turns a request with too many files away before its batch.
StoreBlob(r, f) ==
    /\ pc[r] = "open"
    /\ Cardinality({g \in Files : request[g] = r}) < MaxFilesPerRequest
    /\ \A g \in Started : g < f
    /\ blobs' = blobs \cup {f}
    /\ request' = [request EXCEPT ![f] = r]
    /\ \E verdict \in {"valid", "invalid"} : pc' = [pc EXCEPT ![r] = verdict]
    /\ UNCHANGED <<row, age, batch, batchOf, announced, warned, taskVars, form, saves, faulted>>

\* Seeded fault: the event is emitted after the commit, and may be lost.
InsertStoredThenEmit(r) ==
    /\ pc[r] = "valid"
    /\ \E f \in Current(r) :
        /\ row' = [row EXCEPT ![f] = "stored"]
        /\ batchOf' = [batchOf EXCEPT ![f] = r]
        /\ announced' \in {announced, announced \cup {f}}
    /\ pc' = [pc EXCEPT ![r] = "open"]
    /\ UNCHANGED <<blobs, age, batch, request, warned, taskVars, form, saves, faulted>>

\* The row of a valid file and its file.stored event commit together.
InsertStored(r) ==
    /\ pc[r] = "valid"
    /\ \E f \in Current(r) :
        /\ row' = [row EXCEPT ![f] = "stored"]
        /\ batchOf' = [batchOf EXCEPT ![f] = r]
        /\ announced' = announced \cup {f}
    /\ pc' = [pc EXCEPT ![r] = "open"]
    /\ UNCHANGED <<blobs, age, batch, request, warned, taskVars, form, saves, faulted>>

\* Seeded fault: the status is not given, and takes the model's default.
InsertFailedDefault(r) ==
    /\ pc[r] = "invalid"
    /\ \E f \in Current(r) :
        /\ row' = [row EXCEPT ![f] = "uploading"]
        /\ batchOf' = [batchOf EXCEPT ![f] = r]
    /\ pc' = [pc EXCEPT ![r] = "open"]
    /\ UNCHANGED <<blobs, age, batch, request, announced, warned, taskVars, form, saves, faulted>>

\* An invalid file gets a failed row and no event.
InsertFailed(r) ==
    /\ pc[r] = "invalid"
    /\ \E f \in Current(r) :
        /\ row' = [row EXCEPT ![f] = "failed"]
        /\ batchOf' = [batchOf EXCEPT ![f] = r]
    /\ pc' = [pc EXCEPT ![r] = "open"]
    /\ UNCHANGED <<blobs, age, batch, request, announced, warned, taskVars, form, saves, faulted>>

Members(r) == {f \in Files : batchOf[f] = r /\ IsLive(f)}

\* Seeded fault: one stored file makes the batch complete.
VerdictAnyStored(r) ==
    IF \E f \in Members(r) : row[f] = "stored" THEN "complete" ELSE "failed"

\* finalize_batch on the statuses of the files the batch has now.
Verdict(r) ==
    LET failures  == {f \in Members(r) : row[f] = "failed"}
        successes == {f \in Members(r) : row[f] = "stored"}
    IN  IF Members(r) = {} THEN "failed"
        ELSE IF failures = {} THEN "complete"
        ELSE IF successes = {} THEN "failed"
        ELSE "partial"

\* A request has at least one file.
FinalizeBatch(r) ==
    /\ pc[r] = "open"
    /\ \E f \in Files : request[f] = r
    /\ batch' = [batch EXCEPT ![r] = Verdict(r)]
    /\ pc' = [pc EXCEPT ![r] = "done"]
    /\ UNCHANGED <<row, blobs, age, request, batchOf, announced, warned, taskVars, form, saves, faulted>>

\* The request dies or an exception ends it: the transaction is rolled back, the
\* blob stays and the batch is never finalized.
RequestFails(r) ==
    /\ pc[r] \in {"open", "valid", "invalid"}
    /\ pc' = [pc EXCEPT ![r] = "done"]
    /\ faulted' = faulted \cup Current(r)
    /\ UNCHANGED <<row, blobs, age, batch, request, batchOf, announced, warned, taskVars, form, saves>>

-----------------------------------------------------------------------------
(* The life of a row *)

\* A file comes within FILE_UPLOAD_EXPIRY_NOTIFY_HOURS of its expiry, then
\* expires; older files do so first, but for those a form has brought back.  An
\* open request is short beside both.
GrowOlder(f) ==
    /\ IsLive(f)
    /\ pc[request[f]] = "done"
    /\ \/ /\ age[f] = "fresh"
          /\ age' = [age EXCEPT ![f] = "expiring"]
       \/ /\ age[f] = "expiring"
          /\ age' = [age EXCEPT ![f] = "expired"]
    /\ \A g \in Files : g < f /\ IsLive(g) /\ {f, g} \cap faulted = {} => age[g] \in {age'[f], "expired"}
    /\ UNCHANGED <<row, blobs, requestVars, announced, warned, taskVars, form, saves, faulted>>

\* mark_file_failed looks at no status.
MarkFileFailed(f) ==
    /\ IsLive(f)
    /\ f \in Handled
    /\ row' = [row EXCEPT ![f] = "failed"]
    /\ UNCHANGED <<blobs, age, requestVars, announced, warned, taskVars, form, saves, faulted>>

\* The administrator deletes the row of a file; its blob stays.
AdminDelete(f) ==
    /\ IsLive(f)
    /\ f \in Handled
    /\ row' = [row EXCEPT ![f] = "absent"]
    /\ batchOf' = [batchOf EXCEPT ![f] = NoRequest]
    /\ faulted' = faulted \cup {f}
    /\ UNCHANGED <<blobs, age, batch, request, pc, announced, warned, taskVars, form, saves>>

\* The administrator saves the change form of a file: the row is read, then
\* written as a whole.
OpenForm(f) ==
    /\ IsLive(f)
    /\ f \in Handled
    /\ form[f] = "closed"
    /\ saves < MaxSaves
    /\ form' = [form EXCEPT ![f] = row[f]]
    /\ saves' = saves + 1
    /\ UNCHANGED <<row, blobs, age, requestVars, announced, warned, taskVars, faulted>>

\* The form writes the status it read, and the batch and the file that the
\* administrator chose, the file as a new blob, of which a cleanup knows nothing
\* that has read the row.  save() of a row that is gone meanwhile inserts it
\* again, and created_at is then the time of the insertion.
SaveForm(f) ==
    /\ form[f] # "closed"
    /\ \E chosen \in {r \in Requests : batch[r] # "none"} \cup {NoRequest}, replaced \in SUBSET {f} :
        /\ batchOf' = [batchOf EXCEPT ![f] = chosen]
        /\ blobs' = blobs \cup replaced
        /\ visiting' = visiting \ replaced
        /\ faulted' = IF IsLive(f) /\ chosen = batchOf[f] THEN faulted \cup replaced
                                                          ELSE faulted \cup {f}
    /\ row' = [row EXCEPT ![f] = form[f]]
    /\ age' = IF IsLive(f) THEN age ELSE [age EXCEPT ![f] = "fresh"]
    /\ form' = [form EXCEPT ![f] = "closed"]
    /\ UNCHANGED <<batch, request, pc, announced, warned, expiring, cleaning, doomed, saves>>

-----------------------------------------------------------------------------
(* notify_expiring_files *)

\* Seeded fault: the query does not look at the status.
StartNotifyAnyStatus ==
    /\ expiring = {}
    /\ expiring' = {f \in Files : IsLive(f) /\ age[f] # "fresh"}
    /\ UNCHANGED <<row, blobs, age, requestVars, announced, warned, cleanupVars, form, saves, faulted>>

\* The query has no upper bound on the age: expired files that are still there
\* are among the expiring ones.
StartNotify ==
    /\ expiring = {}
    /\ expiring' = {f \in Files : row[f] = "stored" /\ age[f] # "fresh"}
    /\ UNCHANGED <<row, blobs, age, requestVars, announced, warned, cleanupVars, form, saves, faulted>>

\* One event per file: the unique constraint refuses a second one, which counts
\* as skipped.  The file is not looked up again.
Notify(f) ==
    /\ f \in expiring
    /\ warned' = warned \cup {f}
    /\ expiring' = expiring \ {f}
    /\ UNCHANGED <<row, blobs, age, requestVars, announced, cleanupVars, form, saves, faulted>>

NotifyFails ==
    /\ expiring # {}
    /\ expiring' = {}
    /\ UNCHANGED <<row, blobs, age, requestVars, announced, warned, cleanupVars, form, saves, faulted>>

-----------------------------------------------------------------------------
(* cleanup_expired_upload_files_task *)

\* Seeded faults: the cutoff of the notification is taken for that of the
\* cleanup; failed files are never cleaned up.
ExpiredTooEarly   == {f \in Files : IsLive(f) /\ age[f] # "fresh"}
ExpiredStoredOnly == {f \in Files : row[f] = "stored" /\ age[f] = "expired"}

Expired == {f \in Files : IsLive(f) /\ age[f] = "expired"}

\* The keys of the oldest expired rows, whatever their status.
SelectExpired ==
    /\ cleaning = "idle"
    /\ Expired # {}
    /\ cleaning' = "selected"
    /\ doomed' = {f \in Expired : Cardinality({g \in Expired : g < f}) < BatchSize}
    /\ visiting' = {}
    /\ UNCHANGED <<row, blobs, age, requestVars, announced, warned, expiring, form, saves, faulted>>

\* The rows of these keys are read, those that are there still.
ReadExpired ==
    /\ cleaning = "selected"
    /\ cleaning' = "reading"
    /\ visiting' = {f \in doomed : IsLive(f)}
    /\ UNCHANGED <<row, blobs, age, requestVars, announced, warned, expiring, doomed, form, saves, faulted>>

\* Seeded fault: an error of the storage is swallowed.
DeleteBlobSwallowed(f) ==
    /\ f \in visiting
    /\ blobs' \in {blobs, blobs \ {f}}
    /\ visiting' = visiting \ {f}
    /\ UNCHANGED <<row, age, requestVars, announced, warned, expiring, cleaning, doomed, form, saves, faulted>>

\* The blobs of the rows go one by one; one that is gone already counts as deleted.
DeleteBlob(f) ==
    /\ f \in visiting
    /\ blobs' = blobs \ {f}
    /\ visiting' = visiting \ {f}
    /\ UNCHANGED <<row, age, requestVars, announced, warned, expiring, cleaning, doomed, form, saves, faulted>>

\* Seeded fault: the rows do not wait for the blobs.
DeleteRowsAnyway ==
    /\ cleaning # "idle"
    /\ cleaning' = "idle"
    /\ row' = [f \in Files |-> IF f \in doomed THEN "absent" ELSE row[f]]
    /\ batchOf' = [f \in Files |-> IF f \in doomed THEN NoRequest ELSE batchOf[f]]
    /\ doomed' = {}
    /\ visiting' = {}
    /\ UNCHANGED <<blobs, age, batch, request, pc, announced, warned, expiring, form, saves, faulted>>

\* Then the rows go, all at once: whatever has one of the keys by now.
DeleteRows ==
    /\ cleaning = "reading"
    /\ visiting = {}
    /\ cleaning' = "idle"
    /\ row' = [f \in Files |-> IF f \in doomed THEN "absent" ELSE row[f]]
    /\ batchOf' = [f \in Files |-> IF f \in doomed THEN NoRequest ELSE batchOf[f]]
    /\ doomed' = {}
    /\ UNCHANGED <<blobs, age, batch, request, pc, announced, warned, expiring, visiting, form, saves, faulted>>

\* The worker dies, or the storage raises something else than FileNotFoundError.
CleanupFails ==
    /\ cleaning # "idle"
    /\ cleaning' = "idle"
    /\ doomed' = {}
    /\ visiting' = {}
    /\ UNCHANGED <<row, blobs, age, requestVars, announced, warned, expiring, form, saves, faulted>>

-----------------------------------------------------------------------------

RequestStep(r) ==
    \/ CreateBatch(r)
    \/ \E f \in Files : StoreBlob(r, f)
    \/ InsertStored(r)
    \/ InsertFailed(r)
    \/ FinalizeBatch(r)

Fault ==
    \/ \E r \in Requests : RequestFails(r)
    \/ NotifyFails
    \/ CleanupFails

Next ==
    \/ \E r \in Requests : RequestStep(r)
    \/ \E f \in Files : GrowOlder(f)
    \/ \E f \in Files : MarkFileFailed(f)
    \/ \E f \in Files : AdminDelete(f)
    \/ \E f \in Files : OpenForm(f)
    \/ \E f \in Files : SaveForm(f)
    \/ StartNotify
    \/ \E f \in Files : Notify(f)
    \/ SelectExpired
    \/ ReadExpired
    \/ \E f \in Files : DeleteBlob(f)
    \/ DeleteRows
    \/ Fault

Spec == Init /\ [][Next]_vars

\* Time passes and beat keeps starting the cleanup, which keeps running.
Fairness ==
    /\ WF_vars(\E f \in Files : GrowOlder(f))
    /\ WF_vars(SelectExpired)
    /\ WF_vars(ReadExpired)
    /\ WF_vars(\E f \in Files : DeleteBlob(f))
    /\ WF_vars(DeleteRows)

FairSpec == Spec /\ Fairness

-----------------------------------------------------------------------------
(* Properties *)

\* A file that has not expired keeps its blob as long as it has a row: the
\* cleanup, which deletes blobs first and may die before it deletes the rows,
\* touches no other file.  Only a row that was deleted and that an administrator's
\* form brings back, as a new one, may have lost its blob or be cleaned up by its
\* old key (cleanup_expired_upload_files_task).
NoLiveFileLosesItsBlob ==
    \A f \in Files : IsLive(f) /\ f \notin blobs => age[f] = "expired" \/ f \in faulted

\* Blobs are left without a row by a request that failed or by an administrator
\* who deleted the row, brought it back or replaced its file, never by a cleanup
\* of files nobody touched, wherever it stops.
OrphansAreFaults ==
    \A f \in blobs : IsLive(f) \/ f \in faulted \/ \E r \in Requests : f \in Current(r)

\* Every stored file has its file.stored event, whenever its request dies
\* (the transaction of create_upload_file).
StoredIsAnnounced == \A f \in Files : row[f] = "stored" => f \in announced

\* No file is announced to expire that was not announced as stored, although the
\* notification reads the status long before it emits (notify_expiring_files).
WarnedWereAnnounced == warned \subseteq announced

\* A complete batch holds no file that failed validation: what is left of it was
\* announced, whatever failed or was deleted meanwhile (finalize_batch).  Later
\* only an administrator can move or bring back a failed file into it.
CompleteBatchIsAnnounced ==
    \A r \in Requests : batch[r] = "complete" => Members(r) \subseteq announced \cup faulted

-----------------------------------------------------------------------------
(* Why the invariants hold: an inductive invariant *)

\* Nothing was written or said of a file but for its blob.
IsNew(f) == row[f] = "absent" /\ age[f] = "fresh" /\ f \notin announced \cup faulted

\* A file that no request has reached has left no trace.
UnstartedAreBlank == \A f \in Files : request[f] = NoRequest => IsNew(f) /\ f \notin blobs

\* The file a request is storing is there in the storage only, and young.
CurrentIsBlobOnly == \A r \in Requests : \A f \in Current(r) : IsNew(f) /\ f \in blobs

\* The cleanup holds keys of files that have expired, unless an administrator has
\* brought one back since.
DoomedAreExpired == \A f \in doomed : age[f] = "expired" \/ f \in faulted

\* Once it has read the rows, the blobs it need not visit any more are gone, but
\* for those an administrator has left or put there.
VisitedAreGone == cleaning = "reading" => \A f \in doomed \ visiting : f \notin blobs \/ f \in faulted

\* The notification holds keys of files that were stored once and grew old.
ExpiringWereAnnounced ==
    \A f \in expiring : f \in announced /\ (age[f] # "fresh" \/ f \in faulted)

\* A finalized batch gets no more files.
CompleteIsDone == \A r \in Requests : batch[r] = "complete" => pc[r] = "done"

\* Files are young while their request is open.
OpenAreFresh == \A f \in Files : request[f] \in Requests /\ pc[request[f]] # "done" => age[f] = "fresh"

\* What an administrator is about to save was once there: it is no file that a
\* request is still storing, and it was announced if it was stored.
FormsAreHarmless ==
    \A f \in Files : form[f] # "closed" => ~IsNew(f) /\ (form[f] = "stored" => f \in announced)

\* The inductive invariant the theorems of FileStoreProofs rest on: what requests
\* and tasks hold in their variables stays true of the tables and the storage
\* until they use it (create_upload_file, cleanup_expired_upload_files_task).
IInv ==
    /\ TypeOK
    /\ NoLiveFileLosesItsBlob
    /\ OrphansAreFaults
    /\ StoredIsAnnounced
    /\ WarnedWereAnnounced
    /\ CompleteBatchIsAnnounced
    /\ UnstartedAreBlank
    /\ CurrentIsBlobOnly
    /\ DoomedAreExpired
    /\ VisitedAreGone
    /\ ExpiringWereAnnounced
    /\ CompleteIsDone
    /\ OpenAreFresh
    /\ FormsAreHarmless

-----------------------------------------------------------------------------
(* The promise *)

\* What a file is to those who upload it and hear of it.
Promise == INSTANCE Custody WITH record <- row, content <- blobs, withdrawn <- faulted

\* Requests, notification, cleanup and forms, which stop anywhere and act on what
\* they read before, do to files only what Custody allows: a file is announced
\* once, with its record; unless an administrator has taken it over, its content
\* goes after its expiry only, and its record after the content (create_upload_file, notify_expiring_files,
\* cleanup_expired_upload_files_task).
ImplementsCustody == Promise!Spec

-----------------------------------------------------------------------------
(* Liveness *)

\* From some time on, nothing fails and no administrator saves a file.
Calm == <>[][~Fault /\ \A f \in Files : ~SaveForm(f)]_vars

\* The cleanup has caught up: no expired file is left, nor its blob.
CaughtUp ==
    \A f \in Files : age[f] = "expired" => ~IsLive(f) /\ (f \notin blobs \/ f \in faulted)

\* Once faults and administrators stop, the cleanup catches up again and again,
\* also when earlier ones were cut short, and older expired files do not starve
\* younger ones (cleanup_expired_upload_files_task).
ExpiredAreDeleted == Calm => []<>CaughtUp
=============================================================================
