--------------------------- MODULE ExpirySchedule ---------------------------
(***************************************************************************)
(* The clock of the portal app: when uploaded files are announced to       *)
(* expire, deleted, and announced again.  Beat sends the notification      *)
(* every hour, the cleanup of files at the hours that are multiples of     *)
(* CLEANUP_UPLOADS_INTERVAL_HOURS, and the cleanup of the outbox at half   *)
(* past every sixth hour; a worker runs each some time later, and each     *)
(* compares created_at with a cutoff taken from its own clock.  The        *)
(* notification leaves it to the rows of the outbox to tell which files it *)
(* has announced before, and the outbox forgets rows after a while.        *)
(*                                                                         *)
(* FileStore has the details of storing and deleting a file and the forms  *)
(* of administrators, Outbox has those of an event; here a run of a task   *)
(* reads in one step and writes in a later one, and time is counted in     *)
(* ticks.                                                                  *)
(***************************************************************************)
EXTENDS Integers, FiniteSets

CONSTANTS
    MaxFiles,        \* how many files are ever uploaded
    Day,             \* the ticks of a day
    NotifyPeriod,    \* crontab(minute=0): an hour
    CleanupInterval, \* CLEANUP_UPLOADS_INTERVAL_HOURS
    PurgeInterval,   \* crontab(minute=30, hour="*/6"): six hours
    PurgeOffset,     \* ... and its minute
    TTL,             \* FILE_UPLOAD_TTL_HOURS
    NotifyWindow,    \* FILE_UPLOAD_EXPIRY_NOTIFY_HOURS
    Retention,       \* OUTBOX_RETENTION_HOURS
    BatchSize,       \* BATCH_SIZE of portal.tasks
    Delay,           \* bound: how long after its hour a run has ended
    Horizon          \* bound: when the clock stops

Files == 1 .. MaxFiles

ASSUME ScheduleAssumption ==
    /\ MaxFiles \in Nat
    /\ Day \in Nat \ {0}
    /\ NotifyPeriod \in Nat \ {0}
    /\ CleanupInterval \in Nat \ {0}
    /\ PurgeInterval \in Nat \ {0}
    /\ PurgeOffset \in Nat
    /\ NotifyWindow \in Nat
    /\ TTL \in Nat
    /\ NotifyWindow <= TTL
    /\ Retention \in Nat
    /\ BatchSize \in Nat \ {0}
    /\ Delay \in Nat
    /\ Horizon \in Nat

VARIABLES
    now,        \* the clock that beat, workers and rows share
    status,     \* UploadFile.status; "gone" once the cleanup has deleted the row,
                \* "removed" if an administrator has
    born,       \* UploadFile.created_at
    storedAt,   \* history: since when a file is STORED, or was when it expired, or Never
    emittedAt,  \* created_at of the file.expiring event of a file, or Never
    warnings,   \* history: file.expiring events of a file, up to two
    notifyDue,  \* the hour of the next or current notification
    notifying,  \* the notification has read its files
    expiring,   \* ... which are these
    cleanupDue, \* the hour of the next or current cleanup
    midnight,   \* the midnight that follows it
    cleaning,   \* the cleanup has read its keys
    doomed,     \* ... `batch_pks`
    purgeDue    \* the time of the next cleanup of the outbox

fileVars    == <<status, born, storedAt>>
eventVars   == <<emittedAt, warnings>>
notifyVars  == <<notifyDue, notifying, expiring>>
cleanupVars == <<cleanupDue, midnight, cleaning, doomed>>
vars == <<now, fileVars, eventVars, notifyVars, cleanupVars, purgeDue>>

Never == -1

TypeOK ==
    /\ now \in Nat
    /\ status \in [Files -> {"none", "uploading", "stored", "failed", "removed", "gone"}]
    /\ born \in [Files -> Nat \cup {Never}]
    /\ storedAt \in [Files -> Nat \cup {Never}]
    /\ emittedAt \in [Files -> Nat \cup {Never}]
    /\ warnings \in [Files -> 0 .. 2]
    /\ notifyDue \in Nat
    /\ notifying \in BOOLEAN
    /\ expiring \subseteq Files
    /\ cleanupDue \in Nat
    /\ midnight \in Nat
    /\ cleaning \in BOOLEAN
    /\ doomed \subseteq Files
    /\ purgeDue \in Nat

\* Beat starts at midnight with no files.
Init ==
    /\ now = 0
    /\ status = [f \in Files |-> "none"]
    /\ born = [f \in Files |-> Never]
    /\ storedAt = [f \in Files |-> Never]
    /\ emittedAt = [f \in Files |-> Never]
    /\ warnings = [f \in Files |-> 0]
    /\ notifyDue = 0
    /\ notifying = FALSE
    /\ expiring = {}
    /\ cleanupDue = 0
    /\ midnight = Day
    /\ cleaning = FALSE
    /\ doomed = {}
    /\ purgeDue = PurgeOffset

Born   == {f \in Files : status[f] # "none"}
Live   == {f \in Files : status[f] \in {"uploading", "stored", "failed"}}
Stored == {f \in Files : status[f] = "stored"}

-----------------------------------------------------------------------------
(* The clock *)

\* Beat sends each task at its time and a worker has run it Delay later; a run
\* that was lost is one that the next run makes up for.
Tick ==
    /\ now < Horizon
    /\ now < notifyDue + Delay
    /\ now < cleanupDue + Delay
    /\ now < purgeDue + Delay
    /\ now' = now + 1
    /\ UNCHANGED <<fileVars, eventVars, notifyVars, cleanupVars, purgeDue>>

-----------------------------------------------------------------------------
(* Files *)

\* Environment: no more files are uploaded between two cleanups than one of
\* them deletes.
RateHolds ==
    Cardinality({f \in Born : now < born[f] + CleanupInterval + Delay}) < BatchSize

\* Keys are handed out in order.
IsNewest(f) == f \notin Born /\ \A g \in Files : g < f => g \in Born

\* create_upload_file stores a valid file at once, and keeps an invalid one too.
Upload(f) ==
    /\ IsNewest(f)
    /\ RateHolds
    /\ \/ /\ status' = [status EXCEPT ![f] = "stored"]
          /\ storedAt' = [storedAt EXCEPT ![f] = now]
       \/ /\ status' = [status EXCEPT ![f] = "failed"]
          /\ UNCHANGED storedAt
    /\ born' = [born EXCEPT ![f] = now]
    /\ UNCHANGED <<now, eventVars, notifyVars, cleanupVars, purgeDue>>

\* A file whose content will come in parts.
BeginUpload(f) ==
    /\ IsNewest(f)
    /\ RateHolds
    /\ status' = [status EXCEPT ![f] = "uploading"]
    /\ born' = [born EXCEPT ![f] = now]
    /\ UNCHANGED <<now, storedAt, eventVars, notifyVars, cleanupVars, purgeDue>>

\* complete_upload_session stores it, as old as it is.
CompleteUpload(f) ==
    /\ status[f] = "uploading"
    /\ status' = [status EXCEPT ![f] = "stored"]
    /\ storedAt' = [storedAt EXCEPT ![f] = now]
    /\ UNCHANGED <<now, born, eventVars, notifyVars, cleanupVars, purgeDue>>

\* mark_file_failed looks at no status; the file stays until it expires.
MarkFileFailed(f) ==
    /\ f \in Live
    /\ status' = [status EXCEPT ![f] = "failed"]
    /\ storedAt' = [storedAt EXCEPT ![f] = Never]
    /\ UNCHANGED <<now, born, eventVars, notifyVars, cleanupVars, purgeDue>>

AdminDelete(f) ==
    /\ f \in Live
    /\ status' = [status EXCEPT ![f] = "removed"]
    /\ storedAt' = [storedAt EXCEPT ![f] = Never]
    /\ UNCHANGED <<now, born, eventVars, notifyVars, cleanupVars, purgeDue>>

-----------------------------------------------------------------------------
(* notify_expiring_files *)

\* Seeded fault: the notification announces what expires within the window
\* after the TTL.
StartNotifyTooLate ==
    /\ now >= notifyDue
    /\ ~notifying
    /\ notifying' = TRUE
    /\ expiring' = {f \in Stored : born[f] + TTL < now}
    /\ UNCHANGED <<now, fileVars, eventVars, notifyDue, cleanupVars, purgeDue>>

\* created_at < now - (ttl_hours - notify_hours), for stored files.
StartNotify ==
    /\ now >= notifyDue
    /\ ~notifying
    /\ notifying' = TRUE
    /\ expiring' = {f \in Stored : born[f] + TTL - NotifyWindow < now}
    /\ UNCHANGED <<now, fileVars, eventVars, notifyDue, cleanupVars, purgeDue>>

AtMostTwo(n) == IF n < 2 THEN n + 1 ELSE n

\* A file that has a row in the outbox is skipped.  It is not looked up again.
Unwarned == {f \in expiring : emittedAt[f] = Never}

FinishNotify ==
    /\ notifying
    /\ notifying' = FALSE
    /\ expiring' = {}
    /\ emittedAt' = [f \in Files |-> IF f \in Unwarned THEN now ELSE emittedAt[f]]
    /\ warnings' = [f \in Files |-> IF f \in Unwarned THEN AtMostTwo(warnings[f]) ELSE warnings[f]]
    /\ notifyDue' = notifyDue + NotifyPeriod
    /\ UNCHANGED <<now, fileVars, cleanupVars, purgeDue>>

-----------------------------------------------------------------------------
(* cleanup_expired_upload_files_task *)

\* Seeded fault: the cutoff is the one of the notification.
ExpiredTooEarly == {f \in Live : born[f] + TTL - NotifyWindow < now}

Expired == {f \in Live : born[f] + TTL < now}

Oldest(S) == {f \in S : Cardinality({g \in S : g < f}) < BatchSize}

\* The keys of the oldest expired files.
StartCleanup ==
    /\ now >= cleanupDue
    /\ ~cleaning
    /\ cleaning' = TRUE
    /\ doomed' = Oldest(Expired)
    /\ UNCHANGED <<now, fileVars, eventVars, notifyVars, cleanupDue, midnight, purgeDue>>

\* Seeded fault: hour=N, once a day, for hour="*/N".
NextHourOnceADay == midnight

\* hour="*/N" counts from midnight: the last interval of a day may be shorter.
NextHour == IF cleanupDue + CleanupInterval < midnight
            THEN cleanupDue + CleanupInterval
            ELSE midnight

FinishCleanup ==
    /\ cleaning
    /\ cleaning' = FALSE
    /\ doomed' = {}
    /\ status' = [f \in Files |-> IF f \in doomed \cap Live THEN "gone" ELSE status[f]]
    /\ cleanupDue' = NextHour
    /\ midnight' = IF NextHour < midnight THEN midnight ELSE midnight + Day
    /\ UNCHANGED <<now, born, storedAt, eventVars, notifyVars, purgeDue>>

-----------------------------------------------------------------------------
(* cleanup_delivered_events *)

\* Seeded fault: events are deleted whatever their age.
PurgeableTooEarly == {f \in Files : emittedAt[f] # Never /\ emittedAt[f] < now}

\* The file.expiring events past their retention; those still to be delivered
\* stay.
Purgeable == {f \in Files : emittedAt[f] # Never /\ emittedAt[f] + Retention < now}

Purge ==
    /\ now >= purgeDue
    /\ \E terminal \in SUBSET Purgeable :
        emittedAt' = [f \in Files |-> IF f \in terminal THEN Never ELSE emittedAt[f]]
    /\ purgeDue' = purgeDue + PurgeInterval
    /\ UNCHANGED <<now, fileVars, warnings, notifyVars, cleanupVars>>

-----------------------------------------------------------------------------

Next ==
    \/ Tick
    \/ \E f \in Files : Upload(f)
    \/ \E f \in Files : BeginUpload(f)
    \/ \E f \in Files : CompleteUpload(f)
    \/ \E f \in Files : MarkFileFailed(f)
    \/ \E f \in Files : AdminDelete(f)
    \/ StartNotify
    \/ FinishNotify
    \/ StartCleanup
    \/ FinishCleanup
    \/ Purge

Spec == Init /\ [][Next]_vars

-----------------------------------------------------------------------------
(* Properties *)

\* No file stays longer than its TTL, one interval of the cleanup and the delay
\* of a run: neither the calendar, which begins anew at midnight, nor the batch
\* size adds to it (cleanup_expired_upload_files_task).
DeletedInTime ==
    \A f \in Live : now <= born[f] + TTL + CleanupInterval + Delay

\* The cleanup deletes no stored file unannounced, if the file has been stored for
\* a period of the notification and the delay of a run, and has outlived its
\* expiry by as much as these two are longer than the notification window.  With
\* a window of one period, as shipped, that is the delay: a file that the cleanup
\* deletes within the delay of its expiry may never have been announced
\* (notify_expiring_files, cleanup_expired_upload_files_task).
DeletedWereWarned ==
    [][\A f \in Files :
        /\ status[f] = "stored" /\ status'[f] = "gone"
        /\ storedAt[f] + NotifyPeriod + Delay < now
        /\ born[f] + TTL + NotifyPeriod + Delay < now + NotifyWindow
        => warnings[f] > 0]_vars

\* No file is announced twice, although the constraint that prevents it goes
\* with the row of the first event: by then the file is gone.  This takes an
\* outbox that remembers for the window, an interval of the cleanup and two
\* delays (notify_expiring_files, cleanup_delivered_events).
WarnedOnce == \A f \in Files : warnings[f] <= 1

-----------------------------------------------------------------------------
(* Why they hold: an inductive invariant *)

\* No run ends later than Delay after its hour, none begins before it, the
\* next one is at most an interval away, and the next cleanup is today's.
RunsOnTime ==
    /\ now <= notifyDue + Delay
    /\ now <= cleanupDue + Delay
    /\ notifying => notifyDue <= now
    /\ expiring # {} => notifying
    /\ cleaning => cleanupDue <= now
    /\ notifyDue <= now + NotifyPeriod
    /\ cleanupDue <= now + CleanupInterval
    /\ cleanupDue < midnight
    /\ now <= Horizon

\* What the history of a file says of its status.
AgesAreTrue ==
    \A f \in Files :
        /\ f \in expiring => f \in Born
        /\ f \in Born => born[f] \in 0 .. now
        /\ f \notin Born => warnings[f] = 0 /\ emittedAt[f] = Never
        /\ status[f] \notin {"stored", "gone"} => storedAt[f] = Never
        /\ status[f] = "stored" => storedAt[f] \in 0 .. now

\* The rate holds at any time in the past.
BornWithin(t) == {f \in Born : t <= born[f] /\ born[f] < t + CleanupInterval + Delay}

RateHeld == \A t \in 0 - CleanupInterval - TTL .. Horizon : Cardinality(BornWithin(t)) <= BatchSize

\* A file that is there had not expired when the last cleanup began.
Swept ==
    /\ \A f \in Live : cleanupDue <= born[f] + TTL + CleanupInterval
    /\ cleaning => \A f \in Live \ doomed : cleanupDue <= born[f] + TTL
    /\ \A f \in doomed : cleaning /\ f \in Born /\ born[f] + TTL < now

\* A file that could be announced at t.
Ready(f, t) == status[f] = "stored" /\ storedAt[f] < t /\ born[f] + TTL - NotifyWindow < t

\* A file that could be announced by the last notification was.
Notified ==
    /\ \A f \in Files : Ready(f, notifyDue - NotifyPeriod) => warnings[f] > 0
    /\ notifying => \A f \in Files : Ready(f, notifyDue) => warnings[f] > 0 \/ f \in expiring
    /\ \A f \in Files : emittedAt[f] # Never => warnings[f] > 0

\* The outbox forgets that a file was announced only when nothing is left that
\* could announce it again.
Remembered ==
    /\ \A f \in Files : emittedAt[f] # Never => /\ born[f] + TTL - NotifyWindow < emittedAt[f]
                                               /\ emittedAt[f] <= now
                                               /\ warnings[f] > 0
    /\ \A f \in expiring : /\ born[f] + TTL - NotifyWindow < now
                           /\ notifyDue <= born[f] + TTL + CleanupInterval + Delay
    /\ \A f \in Files : warnings[f] > 0 /\ emittedAt[f] = Never =>
            born[f] + TTL + CleanupInterval + 2 * Delay < now

\* What the settings must meet for files to be announced only once.
MemoryIsLong == NotifyWindow + CleanupInterval + 2 * Delay <= Retention

SweepInv == TypeOK /\ RunsOnTime /\ AgesAreTrue /\ RateHeld /\ Swept
OnceInv  == Remembered /\ WarnedOnce

\* The inductive invariant the theorems of ExpiryScheduleProofs rest on: three
\* tasks that share no state but the tables agree because each runs within Delay
\* of its hour (CELERY_BEAT_SCHEDULE).
IInv ==
    /\ SweepInv
    /\ Notified
    /\ MemoryIsLong => OnceInv

-----------------------------------------------------------------------------
(* What the documentation claims *)

\* "Emit file.expiring events for files approaching TTL expiry. Runs hourly"
\* (notify_expiring_files_task): a file that was stored when it was uploaded, and
\* still when the cleanup deleted it, was announced.
EveryFileIsWarned ==
    \A f \in Files : status[f] = "gone" /\ storedAt[f] = born[f] => warnings[f] > 0
=============================================================================
