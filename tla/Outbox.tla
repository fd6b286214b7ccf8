------------------------------- MODULE Outbox -------------------------------
(***************************************************************************)
(* The transactional outbox of the common app: events are committed with   *)
(* the change they announce (emit_event), Celery workers deliver them to   *)
(* the webhook endpoints in three phases that hold no lock in between      *)
(* (process_pending_events), and a periodic task deletes old terminal rows *)
(* (cleanup_delivered_events).  The administrator edits endpoints and      *)
(* resets failed events.                                                   *)
(*                                                                         *)
(* One step is one database transaction, one broker or clock event, or     *)
(* the delivery of one event to its endpoints.  An event is identified     *)
(* with its primary key; keys are numbered in creation order, which is     *)
(* both the order of created_at and, for uuid7 keys, of the key itself.    *)
(***************************************************************************)
EXTENDS Integers, FiniteSets

CONSTANTS
    MaxEvents,        \* how many events are ever created
    Workers,          \* the Celery worker processes
    Endpoints,        \* the primary keys of WebhookEndpoint rows
    Types,            \* the event types
    TypeOf,           \* the type of each event
    KeyOf,            \* the idempotency key of each event
    Configs,          \* the configurations an administrator gives an endpoint
    MaxAttempts,      \* OutboxEvent.max_attempts
    BatchSize,        \* DELIVERY_BATCH_SIZE
    CleanupBatchSize, \* CLEANUP_BATCH_SIZE
    MaxTasks          \* bound: delivery tasks the broker holds at once

Events == 1 .. MaxEvents

\* An endpoint as deliver sees it: is_active, and event_types as a set.  A row
\* that does not exist yet, or was deleted, is an inactive one.
Config   == [active : BOOLEAN, types : SUBSET Types]
Inactive == [active |-> FALSE, types |-> {}]

ASSUME CountsAssumption ==
    /\ MaxEvents \in Nat
    /\ MaxAttempts \in Nat \ {0}
    /\ BatchSize \in Nat \ {0}
    /\ CleanupBatchSize \in Nat \ {0}
    /\ MaxTasks \in Nat \ {0}

ASSUME DataAssumption ==
    /\ TypeOf \in [Events -> Types]
    /\ DOMAIN KeyOf = Events
    /\ Configs \subseteq Config
    /\ Inactive \in Configs

VARIABLES
    outbox,    \* the outbox_event table
    issued,    \* the events whose creation has committed, deleted ones included
    cutoff,    \* events below it are older than the retention period
    endpoints, \* the webhook_endpoint table
    tasks,     \* delivery tasks waiting in the broker
    pc,        \* where each worker is in process_pending_events
    snap,      \* `events`: each worker's copy of the rows it fetched
    loaded,    \* `endpoints`: each worker's copy of the endpoints
    results,   \* `results`: each worker's verdict on the events it delivered
    doomed,    \* `batch_pks` of the cleanup in progress
    owed,      \* history: endpoints subscribed to an event since its commit
    acked,     \* history: endpoints that answered 2xx for an event
    failures   \* history: failed delivery runs of an event, up to MaxAttempts

vars == <<outbox, issued, cutoff, endpoints, tasks, pc, snap, loaded, results,
          doomed, owed, acked, failures>>

workerVars  == <<pc, snap, loaded, results>>
historyVars == <<owed, acked, failures>>

-----------------------------------------------------------------------------
(* Rows *)

\* next_attempt_at is NULL, in the past, or in the future; delivered_at is NULL or not.
Row == [status        : {"absent", "pending", "delivered", "failed"},
        attempts      : 0 .. MaxAttempts,
        nextAttemptAt : {"null", "due", "later"},
        deliveredAt   : {"null", "set"}]

NoRow  == [status |-> "absent", attempts |-> 0,
           nextAttemptAt |-> "null", deliveredAt |-> "null"]

\* What emit_event inserts: next_attempt_at is now.
NewRow == [status |-> "pending", attempts |-> 0,
           nextAttemptAt |-> "due", deliveredAt |-> "null"]

IsLive(e)     == outbox[e].status # "absent"
IsPending(e)  == outbox[e].status = "pending"
IsTerminal(e) == outbox[e].status \in {"delivered", "failed"}

\* An active endpoint with no event types matches every event.
Matches(c, e) == c.active /\ (c.types = {} \/ TypeOf[e] \in c.types)

Subscribed(e) == {p \in Endpoints : Matches(endpoints[p], e)}

\* The n newest and the n oldest members of a set of events: a slice of a
\* queryset ordered by -created_at, and of one ordered by pk.
Newest(D, n) == {e \in D : Cardinality({d \in D : d > e}) < n}
Oldest(D, n) == {e \in D : Cardinality({d \in D : d < e}) < n}

TypeOK ==
    /\ outbox \in [Events -> Row]
    /\ issued \subseteq Events
    /\ cutoff \in 1 .. MaxEvents + 1
    /\ endpoints \in [Endpoints -> Configs]
    /\ tasks \in 0 .. MaxTasks
    /\ pc \in [Workers -> {"idle", "fetched", "delivering", "saving"}]
    /\ snap \in [Workers -> [Events -> Row]]
    /\ loaded \in [Workers -> [Endpoints -> Configs]]
    /\ results \in [Workers -> [Events -> {"none", "ok", "error"}]]
    /\ doomed \subseteq Events
    /\ owed \in [Events -> SUBSET Endpoints]
    /\ acked \in [Events -> SUBSET Endpoints]
    /\ failures \in [Events -> 0 .. MaxAttempts]

NoBatch   == [e \in Events |-> NoRow]
NoResults == [e \in Events |-> "none"]
NoConfigs == [p \in Endpoints |-> Inactive]

Init ==
    /\ outbox = NoBatch
    /\ issued = {}
    /\ cutoff = 1
    /\ endpoints \in [Endpoints -> Configs]
    /\ tasks = 0
    /\ pc = [w \in Workers |-> "idle"]
    /\ snap = [w \in Workers |-> NoBatch]
    /\ loaded = [w \in Workers |-> NoConfigs]
    /\ results = [w \in Workers |-> NoResults]
    /\ doomed = {}
    /\ owed = [e \in Events |-> {}]
    /\ acked = [e \in Events |-> {}]
    /\ failures = [e \in Events |-> 0]

-----------------------------------------------------------------------------
(* Emission and dispatch *)

\* A task sent to a full broker is one of those already there: a run takes
\* whatever is pending, so how many tasks wait beyond MaxTasks tells nothing.
Enqueued == IF tasks < MaxTasks THEN tasks + 1 ELSE tasks

\* The transaction that called emit_event commits.  The unique constraint
\* refuses a (type, key) that a row already has.  The task dispatched on
\* commit may be lost: safe_dispatch swallows the error of a broker that is
\* down, and the process may stop between the commit and the dispatch.  A
\* transaction does not stay open for the retention period.
Emit(e) ==
    /\ e \notin issued
    /\ e >= cutoff
    /\ \A d \in Events : IsLive(d) => <<TypeOf[d], KeyOf[d]>> # <<TypeOf[e], KeyOf[e]>>
    /\ outbox' = [outbox EXCEPT ![e] = NewRow]
    /\ issued' = issued \cup {e}
    /\ tasks' \in {tasks, Enqueued}
    /\ owed' = [owed EXCEPT ![e] = Subscribed(e)]
    /\ UNCHANGED <<cutoff, endpoints, workerVars, doomed, acked, failures>>

\* Seeded fault: the beat schedule has no entry for the delivery task.
SweepNotScheduled == FALSE /\ UNCHANGED vars

\* celery-beat sends the delivery task every five minutes.
Sweep ==
    /\ tasks < MaxTasks
    /\ tasks' = Enqueued
    /\ UNCHANGED <<outbox, issued, cutoff, endpoints, workerVars, doomed, historyVars>>

-----------------------------------------------------------------------------
(* process_pending_events *)

\* Rows another worker has locked: it is still in its fetch transaction.
Locked == {e \in Events : \E w \in Workers : pc[w] = "fetched" /\ snap[w][e] # NoRow}

Due == {e \in Events : IsPending(e) /\ outbox[e].nextAttemptAt = "due"}

\* The early return: nothing is due, or others have locked all of it.
RunEmpty(w) ==
    /\ pc[w] = "idle"
    /\ tasks > 0
    /\ Due \subseteq Locked
    /\ tasks' = tasks - 1
    /\ UNCHANGED <<outbox, issued, cutoff, endpoints, workerVars, doomed, historyVars>>

\* Phase 1: lock and copy the newest due rows, skipping the locked ones.
Fetch(w) ==
    LET batch == Newest(Due \ Locked, BatchSize) IN
    /\ pc[w] = "idle"
    /\ tasks > 0
    /\ batch # {}
    /\ tasks' = tasks - 1
    /\ pc' = [pc EXCEPT ![w] = "fetched"]
    /\ snap' = [snap EXCEPT ![w] = [e \in Events |-> IF e \in batch THEN outbox[e] ELSE NoRow]]
    /\ UNCHANGED <<outbox, issued, cutoff, endpoints, loaded, results, doomed, historyVars>>

\* The fetch transaction commits, which releases its locks, and the active
\* endpoints are read, once for the batch.
LoadEndpoints(w) ==
    /\ pc[w] = "fetched"
    /\ pc' = [pc EXCEPT ![w] = "delivering"]
    /\ loaded' = [loaded EXCEPT ![w] = endpoints]
    /\ UNCHANGED <<outbox, issued, cutoff, endpoints, tasks, snap, results, doomed, historyVars>>

\* Seeded fault: the matching endpoints are found once, for the newest event.
MatchingOnce(w, e) ==
    {p \in Endpoints : \E d \in Events : /\ snap[w][d] # NoRow
                                        /\ \A f \in Events : snap[w][f] # NoRow => f <= d
                                        /\ Matches(loaded[w][p], d)}

Matching(w, e) == {p \in Endpoints : Matches(loaded[w][p], e)}

\* The events of the batch that have no result yet, and the next of them: the
\* loop follows the order of the query, newest first.
Remaining(w) == {e \in Events : snap[w][e] # NoRow /\ results[w][e] = "none"}
IsNext(w, e) == e \in Remaining(w) /\ \A d \in Remaining(w) : d <= e

\* Seeded fault: one endpoint that answers is enough.
AllOkIfAny(w, e, ok) == ok # {} \/ Matching(w, e) = {}

\* all_ok: every matching endpoint answered 2xx, or none matches.
AllOk(w, e, ok) == ok = Matching(w, e)

CountedFailure(e) == IF failures[e] < MaxAttempts THEN failures[e] + 1 ELSE failures[e]

\* Phase 2, one turn of the loop: the event is posted to every matching
\* endpoint, and the endpoints of ok answer 2xx.
DeliverEvent(w, e) ==
    /\ pc[w] = "delivering"
    /\ IsNext(w, e)
    /\ \E ok \in SUBSET Matching(w, e) :
        /\ acked' = [acked EXCEPT ![e] = @ \cup ok]
        /\ results' = [results EXCEPT ![w][e] = IF AllOk(w, e, ok) THEN "ok" ELSE "error"]
        /\ failures' = [failures EXCEPT ![e] = IF AllOk(w, e, ok) THEN @ ELSE CountedFailure(e)]
    /\ pc' = [pc EXCEPT ![w] = IF Remaining(w) = {e} THEN "saving" ELSE "delivering"]
    /\ UNCHANGED <<outbox, issued, cutoff, endpoints, tasks, snap, loaded, doomed, owed>>

\* Phase 2 stops in the middle of an event that some of its endpoints have
\* already accepted.
Interrupted(w) ==
    \E e \in Events : /\ IsNext(w, e)
                      /\ \E ok \in SUBSET Matching(w, e) : acked' = [acked EXCEPT ![e] = @ \cup ok]

\* The soft time limit ends phase 2: what was processed is saved, the event
\* in flight has no result.
SoftTimeLimit(w) ==
    /\ pc[w] = "delivering"
    /\ Interrupted(w)
    /\ pc' = [pc EXCEPT ![w] = "saving"]
    /\ UNCHANGED <<outbox, issued, cutoff, endpoints, tasks, snap, loaded, results, doomed,
                   owed, failures>>

\* Seeded faults: max_attempts compared with >, and attempts not incremented.
AfterAttemptOneMore(r, verdict) ==
    IF verdict = "ok"
    THEN [r EXCEPT !.status = "delivered", !.attempts = @ + 1,
                   !.nextAttemptAt = "null", !.deliveredAt = "set"]
    ELSE IF r.attempts + 1 > MaxAttempts
    THEN [r EXCEPT !.status = "failed", !.attempts = @ + 1, !.nextAttemptAt = "null"]
    ELSE [r EXCEPT !.attempts = @ + 1, !.nextAttemptAt = "later"]

AfterAttemptUncounted(r, verdict) ==
    IF verdict = "ok"
    THEN [r EXCEPT !.status = "delivered", !.nextAttemptAt = "null", !.deliveredAt = "set"]
    ELSE [r EXCEPT !.nextAttemptAt = "later"]

\* Phase 3 changes the copy of the row taken in phase 1, not the row.
AfterAttempt(r, verdict) ==
    IF verdict = "ok"
    THEN [status |-> "delivered", attempts |-> r.attempts + 1,
          nextAttemptAt |-> "null", deliveredAt |-> "set"]
    ELSE IF r.attempts + 1 >= MaxAttempts
    THEN [r EXCEPT !.status = "failed", !.attempts = @ + 1, !.nextAttemptAt = "null"]
    ELSE [r EXCEPT !.attempts = @ + 1, !.nextAttemptAt = "later"]

\* Seeded fault: an event the soft time limit cut off counts as attempted.
ProcessedWholeBatch(w) == {e \in Events : snap[w][e] # NoRow}

Processed(w) == {e \in Events : results[w][e] # "none"}

\* The worker forgets its batch: process_pending_events returns or dies.
Forget(w) ==
    /\ pc' = [pc EXCEPT ![w] = "idle"]
    /\ snap' = [snap EXCEPT ![w] = NoBatch]
    /\ loaded' = [loaded EXCEPT ![w] = NoConfigs]
    /\ results' = [results EXCEPT ![w] = NoResults]

\* Seeded fault: a save() that inserts the row again when it is gone.
SaveResultsUpsert(w) ==
    /\ pc[w] = "saving"
    /\ outbox' = [e \in Events |-> IF e \in Processed(w)
                                   THEN AfterAttempt(snap[w][e], results[w][e])
                                   ELSE outbox[e]]
    /\ Forget(w)
    /\ UNCHANGED <<issued, cutoff, endpoints, tasks, doomed, historyVars>>

\* Phase 3: save(update_fields=...) writes every field of the lifecycle from
\* the copy, whatever the row has become since.
SaveResults(w) ==
    /\ pc[w] = "saving"
    /\ \A e \in Processed(w) : IsLive(e)
    /\ outbox' = [e \in Events |-> IF e \in Processed(w)
                                   THEN AfterAttempt(snap[w][e], results[w][e])
                                   ELSE outbox[e]]
    /\ Forget(w)
    /\ UNCHANGED <<issued, cutoff, endpoints, tasks, doomed, historyVars>>

\* A row of the batch was deleted: save() updates no row and raises, and the
\* transaction takes the results of the other events back with it.
SaveAborts(w) ==
    /\ pc[w] = "saving"
    /\ \E e \in Processed(w) : ~IsLive(e)
    /\ Forget(w)
    /\ UNCHANGED <<outbox, issued, cutoff, endpoints, tasks, doomed, historyVars>>

\* The worker is killed (hard time limit, restart), or an exception that
\* neither deliver_to_endpoint nor phase 2 catches ends the task.  The task
\* was acknowledged when it was received, so it is not delivered again.
Crash(w) ==
    /\ pc[w] # "idle"
    /\ Forget(w)
    /\ \/ pc[w] = "delivering" /\ Interrupted(w)
       \/ UNCHANGED acked
    /\ UNCHANGED <<outbox, issued, cutoff, endpoints, tasks, doomed, owed, failures>>

\* The back-off delay of an event has passed.
BackoffElapses(e) ==
    /\ outbox[e].nextAttemptAt = "later"
    /\ outbox' = [outbox EXCEPT ![e].nextAttemptAt = "due"]
    /\ UNCHANGED <<issued, cutoff, endpoints, tasks, workerVars, doomed, historyVars>>

-----------------------------------------------------------------------------
(* cleanup_delivered_events *)

\* Time passes the retention period of one more event.
RetentionElapses ==
    /\ cutoff <= MaxEvents
    /\ cutoff' = cutoff + 1
    /\ UNCHANGED <<outbox, issued, endpoints, tasks, workerVars, doomed, historyVars>>

\* Seeded faults: the filter on the status is lost, or misses FAILED.
PurgeableAnyStatus == {e \in Events : IsLive(e) /\ e < cutoff}
PurgeableDeliveredOnly == {e \in Events : outbox[e].status = "delivered" /\ e < cutoff}

Purgeable == {e \in Events : IsTerminal(e) /\ e < cutoff}

\* The cleanup reads the keys of the oldest terminal rows ...
SelectTerminal ==
    /\ doomed = {}
    /\ Purgeable # {}
    /\ doomed' = Oldest(Purgeable, CleanupBatchSize)
    /\ UNCHANGED <<outbox, issued, cutoff, endpoints, tasks, workerVars, historyVars>>

\* ... and deletes the rows with those keys in a later statement.
DeleteSelected ==
    /\ doomed # {}
    /\ outbox' = [e \in Events |-> IF e \in doomed THEN NoRow ELSE outbox[e]]
    /\ doomed' = {}
    /\ UNCHANGED <<issued, cutoff, endpoints, tasks, workerVars, historyVars>>

CleanupCrash ==
    /\ doomed # {}
    /\ doomed' = {}
    /\ UNCHANGED <<outbox, issued, cutoff, endpoints, tasks, workerVars, historyVars>>

-----------------------------------------------------------------------------
(* The administrator *)

\* Seeded fault: the event is not scheduled again.
RetryFailedUnscheduled(S) ==
    /\ S # {}
    /\ \A e \in S : outbox[e].status = "failed"
    /\ outbox' = [e \in Events |-> IF e \in S
                                   THEN [outbox[e] EXCEPT !.status = "pending", !.attempts = 0]
                                   ELSE outbox[e]]
    /\ UNCHANGED <<issued, cutoff, endpoints, tasks, workerVars, doomed, historyVars>>

\* The admin action on a selection S of rows: one UPDATE of the failed ones.
RetryFailed(S) ==
    /\ S # {}
    /\ \A e \in S : outbox[e].status = "failed"
    /\ outbox' = [e \in Events |->
                    IF e \in S
                    THEN [outbox[e] EXCEPT !.status = "pending", !.attempts = 0,
                                           !.nextAttemptAt = "due"]
                    ELSE outbox[e]]
    /\ UNCHANGED <<issued, cutoff, endpoints, tasks, workerVars, doomed, historyVars>>

\* An endpoint is added, edited, disabled or deleted.
EditEndpoint(p, c) ==
    /\ c # endpoints[p]
    /\ endpoints' = [endpoints EXCEPT ![p] = c]
    /\ owed' = [e \in Events |-> IF Matches(c, e) THEN owed[e] ELSE owed[e] \ {p}]
    /\ UNCHANGED <<outbox, issued, cutoff, tasks, workerVars, doomed, acked, failures>>

-----------------------------------------------------------------------------

WorkerStep(w) ==
    \/ RunEmpty(w)
    \/ Fetch(w)
    \/ LoadEndpoints(w)
    \/ \E e \in Events : DeliverEvent(w, e)
    \/ SaveResults(w)
    \/ SaveAborts(w)

Interruption ==
    \/ \E w \in Workers : SoftTimeLimit(w)
    \/ \E w \in Workers : Crash(w)
    \/ CleanupCrash

Administration ==
    \/ \E S \in SUBSET Events : RetryFailed(S)
    \/ \E p \in Endpoints, c \in Configs : EditEndpoint(p, c)

Next ==
    \/ \E e \in Events : Emit(e)
    \/ Sweep
    \/ \E w \in Workers : WorkerStep(w)
    \/ \E e \in Events : BackoffElapses(e)
    \/ RetentionElapses
    \/ SelectTerminal
    \/ DeleteSelected
    \/ Interruption
    \/ Administration

Spec == Init /\ [][Next]_vars

\* Beat keeps sending its tasks, workers keep working, clocks keep running.
\* Nothing is owed by the programs that emit, by administrators or by faults.
Fairness ==
    /\ WF_vars(Sweep)
    /\ \A w \in Workers : WF_vars(WorkerStep(w))
    /\ \A e \in Events : WF_vars(BackoffElapses(e))
    /\ WF_vars(RetentionElapses)
    /\ WF_vars(SelectTerminal)
    /\ WF_vars(DeleteSelected)

FairSpec == Spec /\ Fairness

-----------------------------------------------------------------------------
(* Safety *)

\* The fields of a row agree whatever stale copy was written last: a pending
\* event always has a time for its next attempt (no event is stranded) and has
\* attempts left, a failed one has none, and delivered_at belongs to delivered
\* rows (phase 3 of process_pending_events, retry_failed_events).
RowConsistent ==
    \A e \in Events :
        /\ IsPending(e) <=> outbox[e].nextAttemptAt # "null"
        /\ outbox[e].deliveredAt = "set" <=> outbox[e].status = "delivered"
        /\ IsPending(e) => outbox[e].attempts < MaxAttempts
        /\ outbox[e].status = "failed" => outbox[e].attempts = MaxAttempts

\* At-least-once delivery: when an event is marked delivered, every endpoint
\* that has been subscribed to it since its commit has accepted it, whatever
\* was edited, interrupted or processed twice in between.
AtLeastOnce ==
    \A e \in Events : outbox[e].status = "delivered" => owed[e] \subseteq acked[e]

\* The attempts of an event never run ahead of its failed deliveries: the soft
\* time limit, a crash or a lost result costs an event no attempt, and an event
\* given up as failed was really tried max_attempts times.
AttemptsAreFailures ==
    \A e \in Events : outbox[e].status \in {"pending", "failed"} => outbox[e].attempts <= failures[e]

\* An event leaves the table only after every endpoint it was owed to accepted
\* it or its attempts were exhausted (cleanup_delivered_events).
NoSilentLoss ==
    \A e \in issued : ~IsLive(e) => \/ owed[e] \subseteq acked[e]
                                   \/ failures[e] = MaxAttempts

-----------------------------------------------------------------------------
(* Why the safety properties hold: an inductive invariant *)

\* An event the outbox may forget.
Settled(e) == owed[e] \subseteq acked[e] \/ failures[e] = MaxAttempts

UnissuedAbsent == \A e \in Events : e \notin issued => outbox[e] = NoRow

\* A copy is a due row as some worker once saw it, and its failures are counted.
CopiesWerePending ==
    \A w \in Workers, e \in Events : snap[w][e] # NoRow =>
        /\ e \in issued
        /\ snap[w][e].status = "pending"
        /\ snap[w][e].nextAttemptAt = "due"
        /\ snap[w][e].deliveredAt = "null"
        /\ snap[w][e].attempts < MaxAttempts
        /\ snap[w][e].attempts <= failures[e]

\* A verdict is about an event of the batch and tells what really happened.
VerdictsAreTrue ==
    \A w \in Workers, e \in Events :
        /\ results[w][e] # "none" => /\ pc[w] \in {"delivering", "saving"}
                                    /\ snap[w][e] # NoRow
        /\ results[w][e] = "ok" => owed[e] \subseteq acked[e]
        /\ results[w][e] = "error" => snap[w][e].attempts < failures[e]

\* owed is what its name says, and the endpoints a worker loaded include it.
OwedAreSubscribed == \A e \in Events : owed[e] \subseteq Subscribed(e)

LoadedCoverOwed ==
    \A w \in Workers, e \in Events :
        pc[w] = "delivering" /\ snap[w][e] # NoRow => owed[e] \subseteq Matching(w, e)

\* The cleanup only ever marks events that may be forgotten.
DoomedAreSettled == \A e \in doomed : e \in issued /\ Settled(e)

\* The inductive invariant the theorems of OutboxProofs rest on: with it, a
\* phase 3 that writes stale copies and a delete that does not look again still
\* keep every promise above (process_pending_events, cleanup_delivered_events).
IInv ==
    /\ TypeOK
    /\ RowConsistent
    /\ AtLeastOnce
    /\ AttemptsAreFailures
    /\ NoSilentLoss
    /\ UnissuedAbsent
    /\ CopiesWerePending
    /\ VerdictsAreTrue
    /\ OwedAreSubscribed
    /\ LoadedCoverOwed
    /\ DoomedAreSettled

-----------------------------------------------------------------------------
(* What the documentation claims and the interleavings refute *)

\* "pending -> delivered (success)" is the last transition of a delivered event
\* (lifecycle of OutboxEvent): a delivered row stays so until it is deleted.
DeliveredIsFinal ==
    [][\A e \in Events : outbox[e].status = "delivered"
                            => outbox'[e].status \in {"delivered", "absent"}]_vars

\* "Delete terminal outbox events": cleanup_delivered_events removes no event
\* that is still to be delivered.
CleanupKeepsPending ==
    [][\A e \in Events : IsPending(e) => outbox'[e] # NoRow]_vars

-----------------------------------------------------------------------------
(* Liveness *)

\* From some time on, nothing is interrupted and nobody resets or edits.
Calm == <>[][~Interruption /\ ~Administration]_vars

\* Once the faults and the administration stop, every committed event reaches a
\* terminal state and keeps it, also when its dispatch was lost, its worker died
\* or its row was reset by a stale worker: the sweep retries it, newer events
\* do not starve it, and its attempts run out.
EveryEventSettles ==
    Calm => \A e \in Events : e \in issued ~> [](~IsPending(e))

\* Once the faults and the administration stop, the cleanup catches up with
\* every event older than the retention period.
EveryEventIsPurged ==
    Calm => \A e \in Events : e \in issued ~> [](~IsLive(e))
-----------------------------------------------------------------------------
(* What the outbox implements *)

\* What a row, or the lack of one, says of an event.
Reported(e) ==
    IF e \notin issued THEN "none"
    ELSE IF IsLive(e) THEN outbox[e].status
    ELSE "forgotten"

Promise == INSTANCE Delivery WITH
    MaxTries <- MaxAttempts,
    status   <- [e \in Events |-> Reported(e)],
    accepted <- acked,
    tries    <- failures

\* The outbox keeps the promise of Delivery at every step: each transaction of a
\* worker, the cleanup or an administrator is one of its steps or invisible, so
\* that in particular no phase 3 brings back a row the cleanup has deleted
\* (save(update_fields=...) in process_pending_events).
ImplementsDelivery == Promise!Spec
=============================================================================
