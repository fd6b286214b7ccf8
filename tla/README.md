# Doorito: specifications, model checking and proofs

Doorito receives file uploads, keeps the files for a day, and tells other
systems about them through webhooks. It is a Django application with Celery
workers. This directory holds TLA+ specifications of the parts of it that are
concurrent and must survive failure, the TLC configurations that check them,
and proofs of the results that matter most. Paths below are relative to the
repository, which `PROJECT.json` calls `src/`.

## 1. The system

| Component | State | Operations | Code |
|---|---|---|---|
| Transactional outbox | table `outbox_event`; per worker the lists `events`, `endpoints`, `results`; `batch_pks` of a cleanup | `emit_event`, `process_pending_events` (fetch, deliver, update), `cleanup_delivered_events` | `common/services/outbox.py`, `common/tasks.py`, `common/models.py` |
| Webhook delivery | none | `deliver_to_endpoint` | `common/services/webhook.py` |
| Outbox administration | table `webhook_endpoint` | endpoint add, edit, delete; `retry_failed_events` | `common/admin.py` |
| Workers and schedule | the broker's queue, the clock | sweep every 5 min, outbox cleanup every 6 h at :30, file cleanup every 6 h at :00, notification hourly at :00, soft and hard time limits | `boot/settings.py` |
| Upload files and batches | tables `portal_upload_file`, `portal_upload_batch`; the blob storage | `create_batch`, `create_upload_file`, `finalize_batch`, `mark_file_failed`, `upload_view` | `portal/services/uploads.py`, `frontend/views/upload.py` |
| Portal periodic tasks | `batch_pks`, the loop over expiring files | `cleanup_expired_upload_files_task`, `notify_expiring_files` | `portal/tasks.py`, `portal/services/uploads.py` |
| Chunked upload sessions | tables `portal_upload_session`, `portal_upload_part` | `create_upload_session`, `record_upload_part`, `complete_upload_session` | `portal/services/sessions.py` |
| Portal administration | the row in a form | add, change and delete forms | `portal/admin.py` |
| `PortalEventOutbox` | an unused table | none but its admin page | `portal/models.py` |
| Accounts, pages, utilities, scripts | Django's | Django's | `accounts/`, `frontend/`, `common/utils.py`, `scripts/` |

How they interact. An upload request writes the blob of each file, then commits
the row of the file and its `file.stored` event together. The commit sends a
delivery task to the workers; beat sends the same task every five minutes in
case the first one was lost. A worker copies due events in a short transaction,
posts them to the endpoints with no lock held, and writes the results from its
copies in a third step. An hourly task emits `file.expiring` for files about to
expire, one event per file thanks to the unique constraint of the outbox. Two
more periodic tasks delete expired files (blobs first, rows after) and old
delivered or failed events. Sessions fill a file part by part and mark it
stored when they complete. No component sends a message to another: they share
the database, the storage and the task queue.

What makes each of them correct, and what makes it hard:

- **Outbox.** At-least-once delivery, with bounded retries, of everything that
  was committed; no event lost, stranded, or given up early. Hard because locks
  are released before the requests are sent, results are written from stale
  copies, workers and processes die anywhere, dispatches get lost, endpoints
  change during a batch, and the cleanup deletes by keys it read earlier.
- **Chunked sessions.** Counters that agree with the parts, a completion that
  is only reached with enough parts, files and sessions that settle together.
  Hard because a part and its counters commit separately, and because
  handlers of one session interleave with each other, with failure and expiry.
- **Files.** Rows, blobs, events and batches that agree although no
  transaction covers the blob. Hard because requests and tasks can stop between
  any two steps, and because tasks and forms use what they read before.
- **The schedule of files.** Every file deleted in time, announced before, and
  announced once. Hard because three periodic tasks share nothing but the tables
  and their hours, each may run late, and what one remembers another one deletes.
- **The schedule of retries.** Endpoints spared while they fail, and events tried
  in time while their payload is good. Hard because sweeps, the dispatches of other
  events, other workers and interrupted runs all bear on one column.

`PROJECT.json` lists under "hazards" each of these at the line where it bites,
with the properties that cover it or the reason why none does.

## 2. Modules

| Module | What it is |
|---|---|
| `Delivery` | the abstract promise of the outbox: reports on events, without rows, workers or schedules |
| `Outbox` | emission, dispatch, delivery, cleanup and administration of the outbox |
| `OutboxProofs` | the inductive invariant of `Outbox` and its consequences, for all parameters |
| `OutboxRefinement` | `Outbox` implements `Delivery` |
| `RetrySchedule`, `RetryScheduleProofs` | the times of one event: sweeps, delays, overlapping runs, the lifetime of its URL |
| `Assembly` | the abstract promise of a chunked upload: parts and a file, without handlers |
| `ChunkedUpload`, `ChunkedUploadProofs` | the session of one file and its request handlers; they implement `Assembly` |
| `Custody` | the abstract promise of the portal: content, record and announcements of files, without requests, tasks and forms |
| `FileStore`, `FileStoreProofs` | upload requests, batches, expiry notification, cleanup and administration of files |
| `FileStoreRefinement` | `FileStore` implements `Custody` |
| `Sums`, `SumsProofs` | sums over finite sets, and the lemmas about them |
| `ExpirySchedule`, `ExpiryScheduleProofs` | the calendar of notification, file cleanup and outbox cleanup |
| `MC...` | values of the constants and symmetry sets for TLC |

How they fit together: `Outbox` and `FileStore` have the steps and the faults, and
abstract time to an order; `RetrySchedule` and `ExpirySchedule` have the clock, and
abstract a step to what it does to one event or to the rows of files. The
announcements of `FileStore` and `ExpirySchedule` are rows of the outbox, and
what becomes of these is `Outbox`, or in short `Delivery`.

Definitions keep the names of the code where they can. Those called "seeded
faults" in a comment are plausible bugs: `PROJECT.json` pairs each property with
one of them, and the property fails when the fault is put in. No specification
uses them.

### Outbox

An event is its primary key, numbered in creation order (uuid7 keys and
`created_at` grow together). A step is one transaction, one broker or clock
event, or the delivery of one event to its endpoints.

| Action | Code |
|---|---|
| `Emit` | `emit_event` and the commit around it: the unique constraint, the new row, the dispatch that may be lost |
| `Sweep` | the beat entry `deliver-outbox-events-sweep` |
| `RunEmpty`, `Fetch` | phase 1: early return, or lock (skipping locked rows), order newest first, slice, copy |
| `LoadEndpoints` | the commit of phase 1 and the one read of the active endpoints |
| `DeliverEvent` | one turn of the loop of phase 2, with any set of endpoints answering 2xx |
| `SoftTimeLimit` | `SoftTimeLimitExceeded` in the middle of an event, some of its endpoints posted |
| `SaveResults`, `SaveAborts` | phase 3: all results written from the copies, or nothing because a row is gone |
| `Crash` | hard time limit, restart, uncaught exception; the task was acknowledged early and is gone |
| `BackoffElapses`, `RetentionElapses` | the clock passing `next_attempt_at`, and `created_at` plus the retention |
| `SelectTerminal`, `DeleteSelected`, `CleanupCrash` | the two statements of `cleanup_delivered_events`, and a death between them |
| `RetryFailed`, `EditEndpoint` | the administrator |

Times are reduced to what the queries compare: `next_attempt_at` is null, due or
later; `created_at` is before or after a cutoff that moves over the keys. The
history variables `owed`, `acked` and `failures` record, for the properties
only, which endpoints have been subscribed to an event ever since its commit,
which ones accepted it, and how many of its delivery runs failed.

Abstractions: the read of the endpoints is one step with the commit of the
fetch, which is safe because nothing the worker does lies between them; phase 3
is one step, since it is one transaction of writes that read nothing, and a
concurrent fetch that skips the rows it has locked acts like one that ran
before it or after it without them; the dispatch is one step with the commit
(a later dispatch is a `Sweep`); one cleanup runs at a time; `failures` stops at
`MaxAttempts`, and counts over the whole life of an event, so that nothing is said of
attempts after a reset of the administrator; a transaction does not stay open for the
retention period.

### Delivery

An event is reported as none, pending, delivered, failed or forgotten. It may be
reported delivered only when each endpoint it is owed to accepted it, failed only
when its attempts were exhausted, and forgotten, for good, only when one or the
other is so. A report may be taken back (the row of a delivered event may become
pending again, see below), and attempts may be repeated. `Outbox` implements
it with the mapping of `Promise`: a report is the status of the row, "forgotten" once
there is none; `accepted` and `tries` are the history variables `acked` and
`failures`. What this adds to the invariants of `Outbox` is what steps may not do: no phase 3
brings back a row the cleanup has deleted, since `save(update_fields=...)` never
inserts, and nothing else leads out of "forgotten".

### RetrySchedule

One event, and the workers, any of which may take it while others have it. `Tick`
is the clock, `Sweep` beat's entry, `Dispatch` the task sent by the commit of this
or of another event. `Take` is phase 1: the row is copied if it is pending and due.
`Delivered` and `Refused` are phase 3, which writes `attempts + 1` from the copy whatever the
row has become, and `Interrupted` a run that ends without it. `Backoff` and `Jitter` are
the formulas of the code; a jitter is rounded up to a tick. The
constants are those of `boot/settings.py` and `outbox.py`; `QueueDelay` (how long a
sweep that is due waits for its run), `RunTime` (how long a run lasts, at most the soft time
limit) and `MaxMisses` are bounds of the environment. Resets, other events and the cleanup are
left out: they are in `Outbox`. Of the other events one thing is assumed: those that were created
after this one and are due with it fill no batch of 20, since the query takes the newest
first and would pass this one over. A backlog longer than that voids the times, not the
order that `outbox_live_order` shows.

### ChunkedUpload

One file with its session, of which there can be only one. `CreateSession`,
then `RecordPart` and `CountPart` are the two statements of
`record_upload_part` (which has no transaction around it), `BeginComplete` and
`FinishComplete` the check and the writes of `complete_upload_session` (which
has one: the writes commit together, but the count was read before them).
`Crash` stops a handler between its statements. `MarkFileFailed` and `Expire`
are the rest of the system: the deletion of the file cascades to its session. The change form
of a file, which could write `uploading` or `stored` back from an old copy, is in `FileStore`
only: what the properties say of failed and stored files, they say of completions.
Part numbers are those a client may send, not those the session expects, since
the code checks neither. `uncounted` is a history variable: the parts whose
handler died before it updated the counters.

`Assembly` is what this looks like to clients: a part is received by one step
and counted by another, at most once; the file is stored by a single step, when
there are enough parts. `ImplementsAssembly` says that the handlers implement it, with
the counters as they are and `Counted`, the parts neither in flight nor given up, as the
parts counted. It fails if a part is counted twice, a counter moves without a part,
or the two statements of a completion can be told apart from one.

### FileStore

Each request has one batch. `CreateBatch`; for each file `StoreBlob` (validation
and the write of the blob) and `InsertStored` (row and event in one transaction)
or `InsertFailed`; `FinalizeBatch`. `GrowOlder` moves a file from fresh to
expiring to expired, older files first. `StartNotify` and `Notify` are the query
and the loop of `notify_expiring_files`. The cleanup is `SelectExpired` (the keys),
`ReadExpired` (the rows that still have one of these keys), `DeleteBlob` for each of these rows,
and `DeleteRows` for whatever has one of the keys by then: a row that vanishes between the
first two keeps its blob. `RequestFails`, `NotifyFails` and
`CleanupFails` stop each of them anywhere; `MarkFileFailed` and `AdminDelete`
change rows under their feet, and so do `OpenForm` and `SaveForm`, the change form of
a file. It reads the row and writes all of it back later, with the batch and the file that the
administrator chose. If the row is gone, `save()` inserts it again, and as
`created_at` is an `auto_now_add` field (`common/models.py:12`) the row is then
as young as a new one. It has the old key, so a cleanup that read the key before takes it
all the same, and its blob may be gone. A replaced file is a new blob, which a cleanup that has
read the row does not know; the blob it replaces is an orphan that is not tracked.
`announced` and `warned` are the sets of files
with an event in the outbox: what happens to the event is `Outbox`. `request` is the request that
uploads a file, `batchOf` the column. `faulted`
is a history variable: files whose request failed, whose row an administrator
deleted, or which a form moved, replaced or brought back.

`Custody` is what this looks like to those who upload files and hear of them. A
file is received, then stored and announced in one step, or turned down. Its content may go only
after its expiry, and its record, together with others, only after the content; only
a file announced as stored, and not too soon, is announced to expire. Failing requests and
administrators withdraw files, and administrators take them over (`TakeOver`: replaced, moved,
or brought back as young as a new one). Of a file that was withdrawn or taken over only this is
still promised: it is not announced as stored again, and it comes back as stored, or is announced
to expire, only if it was announced before. `Promise` maps it: record and content are the row and the blob,
withdrawn is `faulted`. `ImplementsCustody` adds to the invariants of `FileStore` what steps may not do, whatever the
requests, tasks and forms hold: announce a file a second time as stored, take content
before its time, or a record before its content.

An expiring file is announced once for ever here; in the code the constraint lasts
as long as the row of the event does. `ExpirySchedule` has that.

### ExpirySchedule

Files are stored at once (`Upload`, which also keeps files that fail validation) or through a
session (`BeginUpload`, `CompleteUpload`, which keeps their age). `MarkFileFailed` and
`AdminDelete` happen to any of them at any time: the notification's query looks at the status,
the cleanup's does not, so a stored file that is marked failed is deleted unannounced. Rows that
forms bring back are left to `FileStore`. `StartNotify`/`FinishNotify` and
`StartCleanup`/`FinishCleanup` are a run's query and its effect; a file that is in
both is announced or not depending on which came first. `NextHour` is
`crontab(hour="*/N")`, which starts anew at midnight. `Purge` deletes the
`file.expiring` events past their retention, any part of them, since some may still be
pending: with the row goes the constraint that kept `notify_expiring_files` from
announcing the file again. All comparisons are strict, as in the code. `Delay` bounds how
long after its hour a run has ended; a run that is lost is one that the next one
makes up for, with `Delay` larger by a period. `RateHolds` is an assumption about the environment: no
more uploads per interval of the cleanup than one run of it deletes (1000 in six hours).

## 3. What is checked

| Run | Bounds | Result |
|---|---|---|
| `outbox_race` | 1 event, 2 workers, 2 endpoints, 2 attempts | `TypeOK`, `RowConsistent`, `AtLeastOnce`, `AttemptsAreFailures`, `NoSilentLoss`, `ImplementsDelivery` hold |
| `outbox_batch` | 2 events of 2 types in one batch, 2 workers, 1 endpoint subscribed to one type, 2 attempts | `IInv`, and with it all the above, and `ImplementsDelivery` hold |
| `outbox_live_race` | 1 event, 2 workers, 2 attempts | `EveryEventSettles`, `EveryEventIsPurged` hold |
| `outbox_live_order` | 2 events, batches of 1, 1 worker | the same |
| `outbox_delivered_final` | 1 event, 2 workers | `DeliveredIsFinal` is violated |
| `outbox_cleanup_pending` | 1 event, 1 worker | `CleanupKeepsPending` is violated |
| `retry_shipped` | the settings in minutes, 2 workers, runs of up to four minutes (the soft time limit), 1 missed run | `RefusalsAreSpaced`, `AttemptedInTime`, `SettledInTime`, `UrlIsAlive`, `IInv` hold |
| `chunked_safety` | 3 handlers, part numbers 0 to 3, files of 0, 1 and 3 parts | all invariants, `FailedFileStaysFailed` and `ImplementsAssembly` hold |
| `chunked_complete_final` | 2 handlers | `CompleteIsFinal` is violated |
| `files` | 2 files, 2 requests, cleanup of 1 file per run, 1 file that fails later, is deleted and saved by hand (`Handled`), 1 form (`MaxSaves`) | all invariants, `ImplementsCustody` and `ExpiredAreDeleted` hold |
| `schedule_safety` | 2 files, 1 per batch, a day of 7 ticks with cleanups at 0, 3 and 6, a window of one period, 13 ticks (all cleanups of two days) | `DeletedInTime`, `DeletedWereWarned`, `WarnedOnce`, `IInv` hold |
| `schedule_shipped` | the settings in quarters of an hour, 1 file | `EveryFileIsWarned` is violated |

Why these bounds reach the interesting cases. Every race of the outbox is
between two holders of the same row (two workers, a worker and the cleanup, a
worker and the administrator), so two workers and one event show them; two
attempts are enough for a first, a repeated and a last failure, and two
endpoints for an event accepted by one and refused by the other. A second event
is needed for the things that one event does to another in a batch: the deleted
row that takes back its neighbour's result, the cut in the middle of a batch,
the order of the query; with two types, an endpoint that
wants only one of them (the catch-all list is in the other runs). One delivery task in the queue suffices, as a run takes
whatever is pending; `Enqueued` drops a further one, which the next `Sweep` makes
up for. In the chunked upload the races are between two handlers of one session,
and a third one completes. In `files` a second file must wait for the next run of
the cleanup, or is in a batch with the first; a form, a failure and a deletion of the
older one meet each step of the requests, of the cleanup and of the other file. `schedule_safety` has the
window as long as the period, as shipped, and the retention at the edge of what `WarnedOnce`
assumes, so that each tick counts, and a short last interval of the day. `retry_shipped` has the
settings themselves and the longest runs they allow. The proofs
remove the bounds for the safety properties they cover. The liveness runs of the outbox have
batches of one event: what the rollback of a larger batch does is in the safety properties of
`outbox_batch`.

Deadlock is checked in all runs but those of the chunked upload, where nothing
can happen after the file has expired, and of the two schedules: there the clock
stops at `Horizon`, or when the event has settled.

### Fairness

Weak fairness is assumed of: beat sending the sweep and starting the cleanups,
each worker taking its next step (for the cleanup of files: reading the rows, each blob, the delete), back-off delays and ages passing. Beat and the
workers are daemons, and the clock needs no argument. Nothing is assumed of
programs that emit, of upload requests, administrators or faults. Each worker
step is fair as one action (`WorkerStep`), so a worker goes on whatever phase
it is in.

`EveryEventSettles`, `EveryEventIsPurged` and `ExpiredAreDeleted` are stated for
behaviours in which interruptions (and for the outbox, resets and edits by the
administrator; for files, saves of their forms) stop at some time, in any state they may
have produced. They need it: an event that outlasts the soft time limit on every
run is tried for ever, since an interrupted attempt is not counted, an event can be
reset for ever, and a file can be saved anew after each of its deletions. Then
`ExpiredAreDeleted` says that the cleanup catches up again and again: no expired
file is left with a row, nor with a blob unless a fault had orphaned it.

### How far the settings carry

`retry_shipped` has runs of up to four minutes, the soft time limit, and one run that misses the
event. A signed URL is good for an hour. `Fitting` adds up the worst of each round: with these
settings the first attempts are over after at most 24, 40 and 57 minutes, so the first three are
sure to find the URL valid, and `UrlIsAlive` says this. For the fourth and the fifth (76 and 99
minutes) it makes no promise, and none can be made: the property stated of the fourth attempt, or
of the fifth, is violated in the same instance. So an endpoint that refuses an event three
times may get a dead URL with the next one.

A run of a minute and more outlasts the first delay, so another worker may try the event
twice while the first has it, and the first then sets the attempts back.
The event is tried more often than `max_attempts` then; `SettledInTime` shows that it settles no
later for that. The limit of an hour on the delay is never reached with
five attempts.

`DeletedWereWarned` has the margins at which files are announced. With a window of one period, as
shipped, a file is surely announced only if it outlives its expiry by the delay of a run;
one that the cleanup takes earlier may be missed (`EveryFileIsWarned`, below).

`StoredHasEveryPart` has a condition too: `complete_upload_session` counts parts
and does not look at their numbers, and `record_upload_part` takes any. The
docstring asks for numbers from 1; if a client sends others, a part 0, say, stands in
for one that is missing.

### Disagreements between the code and what it says of itself

1. `DeliveredIsFinal`. Two workers can hold the same event; the one whose
   delivery failed writes `pending` over the `delivered` of the other. The
   lifecycle in `common/models.py:23` has no such transition. At-least-once
   delivery is not harmed, as `AtLeastOnce` and `EveryEventSettles` show: the
   event is posted again.
2. `CleanupKeepsPending`. `cleanup_delivered_events` deletes by keys it read
   before; an event reset by the administrator in between is deleted undelivered.
   `NoSilentLoss` shows the limit of the damage: each endpoint it is owed to
   accepted it, or its attempts had been exhausted once.
3. `CompleteIsFinal`. The handler of the last part sets a session back to
   `in_progress` when another handler counted its part and completed the session
   before it.
4. `EveryFileIsWarned`. The window of the notification is as long as its period,
   so there is no time to spare: a file created just after the hour comes
   into the window just after the last full notification before its expiry; the next
   one starts in the minute in which, at 0, 6, 12 and 18 o'clock, the cleanup starts
   too. `DeletedWereWarned` shows what would be enough: with a window longer than the period by the
   delay of a run, no file that was stored in time is missed.

Smaller ones, not checked: the notification also announces files that have
expired already, since its query has no upper bound (`portal/services/uploads.py:245`, against
the docstring at 227); `common/tasks.py:19` gives `DELIVERY_BATCH_SIZE` as 100,
`common/services/outbox.py:17` as 20.

## 4. What is proved

`OutboxProofs` proves, for any number of events, workers and endpoints, any
types, configurations, batch sizes and numbers of attempts (`CountsAssumption`,
`DataAssumption`), `Spec => []IInv` and from it `TypeOK`, `RowConsistent`,
`AtLeastOnce`, `AttemptsAreFailures` and `NoSilentLoss`. The properties are not
inductive alone, since phase 3 writes a copy whatever the row has become, and the
delete removes a row whatever it has become. What makes both harmless is in the
other conjuncts:

- `CopiesWerePending`: a copy is of a pending, due row with attempts left, whose
  attempts are covered by counted failures. So whatever it overwrites, the result
  is a consistent row, its attempts do not run ahead, and `TypeOK` holds although
  attempts grow.
- `LoadedCoverOwed`: the endpoints a worker loaded include each one that has been
  subscribed ever since; it rests on `OwedAreSubscribed` when they are read, and on
  `owed` only shrinking afterwards.
- `VerdictsAreTrue`: an "ok" was earned from every owed endpoint, an "error" is a
  failure beyond the attempts of the copy. An "ok" stays earned, because `acked`
  grows and `owed` shrinks.
- `DoomedAreSettled`: the cleanup marks only events that were delivered to all they
  are owed to, or exhausted. That is never undone, whatever the row becomes.

There is one lemma per action, and the theorem combines them.

`OutboxRefinement` proves `Spec => ImplementsDelivery` under the same assumptions:
initial states map to initial states, and each action of `Outbox` maps to a step of
`Delivery` or to a stutter. `IInv` is what makes the reports true: a verdict "ok"
was earned (`VerdictsAreTrue`), a last failure exhausts the attempts
(`CopiesWerePending`, `AttemptsAreFailures`), and a row the cleanup deletes was settled
(`DoomedAreSettled`).

`RetryScheduleProofs` proves `Spec => []IInv` for any set of workers and any
settings (`RetryAssumption`), and from it `RefusalsAreSpaced` and `AttemptedInTime`.
The strengthening is `DueIsNear`: either some
worker took the event at most a sweep and its wait after it was due, or the next sweep
is that near, each missed run adding one `Gap`. `PowersAssumption`,
that powers of two are positive numbers, is assumed, since the provers know nothing of
powers; TLC evaluates it.

It also proves `SettledInTime`, the timed form of `EveryEventSettles`: the event is
delivered or given up by the time that its rounds (delay, jitter, gap and run of each
attempt) and a gap for each missed run add up to. No condition on the length of
runs is needed. The strengthening is `RowIsOnTime`: a row with n attempts, and by
`CopiesAreOnTime` each copy of it, is never later than n rounds allow. A stale copy that sets the
attempts back does no harm to it, because the copy was taken when it was early enough for its
own number. `UrlIsAlive` follows for the copies whose rounds fit into the lifetime of the URL
(`Fitting`).

`ChunkedUploadProofs` proves `Spec => []IInv` for any finite sets of handlers and
part numbers, any sizes and any chunk size (`ChunkAssumption`), and from it
`TypeOK`, `CountTracksParts`, `BytesTrackParts`, `StoredHasEnoughParts`, `StoredHasEveryPart` (enough
parts among the expected ones are all of them) and `CompleteSettlesFile`, and the
action property `FailedFileStaysFailed`. The strengthening is
that parts in flight are distinct, present and not given up (`InFlightAreFresh`), so
that each update of the counters moves exactly one part into the counted ones, and
that a check of the parts stays true until its write (`CheckedStillHolds`), since
parts are only removed together with the session. It ends with `Spec => ImplementsAssembly`:
what each action does to `Counted` is a lemma of its own, used for the counters and
for the refinement; the write of a completion is the step `Store` of `Assembly` because
of `CheckedStillHolds`, and the update of a session that was deleted is a stutter.

Sums over sets (the bytes of the counted parts, the rounds of the attempts) are defined in
`Sums` by counting pairs, not by a fold: the fact needed of them, that one more
element adds its value (`TotalOfOneMore`), is then one about cardinalities and needs no
induction. `TotalsAreSums` has TLC compare the definition with the fold of the community
modules on all sets of parts.

`FileStoreProofs` proves `Spec => []IInv` for any number of files, any set of
requests and any batch size of the cleanup (`StoreAssumption`), and from it
`TypeOK`, `NoLiveFileLosesItsBlob`, `OrphansAreFaults`, `StoredIsAnnounced`,
`WarnedWereAnnounced` and `CompleteBatchIsAnnounced`. Requests and tasks act on what
they hold in local variables, so the strengthening says what that still means
for the tables and the storage: the file in progress is in the storage only
(`CurrentIsBlobOnly`); the keys of a cleanup are of expired files, and the blobs of the rows it
read and visited are gone, but for files an administrator has brought back or replaced
(`DoomedAreExpired`, `VisitedAreGone`); what a notification iterates over was announced
(`ExpiringWereAnnounced`); a finalized batch gets no more files from its request
(`CompleteIsDone`); and what an administrator is about to save is no file still being
stored, and was announced if it was stored (`FormsAreHarmless`). The exceptions for `faulted`
files are needed: each of them is what a form that brings a row back can do.

`FileStoreRefinement` proves `Spec => ImplementsCustody` under the same assumptions. Each of the
conjuncts above is what turns one kind of step into a step of `Custody`: a file in
progress is new, so it is stored and announced once (`CurrentIsBlobOnly`); a file no request has
reached is blank (`UnstartedAreBlank`); the blobs of a cleanup go after expiry and its rows
after its blobs, unless the file was taken over (`DoomedAreExpired`,
`VisitedAreGone`); what a notification announces was announced and is not too young
(`ExpiringWereAnnounced`); and the save of a form is a `Correct` if it changes nothing but the
status, a `TakeOver` otherwise (`FormsAreHarmless`).

`ExpiryScheduleProofs` proves `Spec => []IInv` for any settings, delay, horizon and
number of files (`ScheduleAssumption`), and from it `DeletedInTime` and the action property
`DeletedWereWarned` for all of them, and `WarnedOnce` if `MemoryIsLong`.
`DeletedInTime` rests on `Swept`: when a run of the cleanup begins, the files that
expired since the one before fit into its batch (`RateHeld`, at every time in the past), so it takes them
all, and whatever it leaves had not expired. `DeletedWereWarned` rests on `Notified`: a stored file
that a past notification could announce was announced. `WarnedOnce`
rests on `Remembered`: when the outbox forgets an event, its file is past the time
by which `DeletedInTime` has it gone.

Every invariant and every action property that a run checks is proved. Left to TLC
is all liveness, which needs fairness and `ENABLED`, and which attempts the shipped settings
put into `Fitting`.

## 5. Plan

Done: `Outbox`, `ChunkedUpload` and `FileStore` with their proofs, the abstract
promises `Delivery`, `Assembly` and `Custody` with the refinements, and the two clocks,
`ExpirySchedule` and `RetrySchedule`, with theirs. What would come next:

1. `FileStore` and `ChunkedUpload` composed, once a view of the repository calls the session
   service: files stored through a session get no `file.stored` event, and nobody
   says whether they should.
2. A stream of new events under which the newest-first order of the fetch starves old ones, with
   the rate below which it does not.
3. Action properties of the outbox beyond those `Delivery` implies, such as what
   a run may do to rows it did not fetch.

## 6. What is not modelled

Payloads, signatures, headers, error texts and logs; validation of files and
hashes (pure functions of the file); the change forms of the administration but that
of files (those of events, batches, sessions and parts allow values or save old counters
that would make every property of their tables void) and the deletion of batches; two
administrators with a form of the same file, and names of blobs that are used
again; users, sessions and pages, which are Django's; `PortalEventOutbox`, which nothing uses; the
development configuration that runs tasks synchronously in the request. The
database is taken at its word: transactions are atomic, row locks and unique
constraints hold.
