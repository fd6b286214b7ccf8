---------------------------- MODULE RetrySchedule ----------------------------
(***************************************************************************)
(* The clock of the outbox: when one event is tried, and tried again, from *)
(* its commit to its last attempt.  Beat sends a run of the delivery task  *)
(* every SweepInterval, the commits of events send more at any time, and a *)
(* run takes the event if next_attempt_at has come, also while other runs  *)
(* have it.  A refusal puts next_attempt_at off, by a delay that doubles   *)
(* up to a limit and some jitter.  The payload was written at the commit:  *)
(* what it refers to, a signed URL of the file, is good for UrlLifetime.   *)
(*                                                                         *)
(* Outbox has what this leaves out: other events and their endpoints, the  *)
(* resets, and the cleanup.  Time is counted in ticks.                     *)
(***************************************************************************)
EXTENDS Integers, Sums

CONSTANTS
    Workers,       \* the workers
    SweepInterval, \* OUTBOX_SWEEP_INTERVAL_MINUTES
    QueueDelay,    \* bound: from the time a sweep is due to its run
    RunTime,       \* bound: how long a run takes, at most the soft time limit
    BaseDelay,     \* the first delay: a minute
    MaxDelay,      \* the limit of the delays: an hour
    JitterPart,    \* the jitter is at most a tenth of the delay
    MaxAttempts,   \* OutboxEvent.max_attempts
    MaxMisses,     \* bound: how many runs take the event and do not save it
    UrlLifetime    \* AWS_QUERYSTRING_EXPIRE

ASSUME RetryAssumption ==
    /\ SweepInterval \in Nat \ {0}
    /\ QueueDelay \in Nat
    /\ RunTime \in Nat
    /\ BaseDelay \in Nat
    /\ MaxDelay \in Nat
    /\ JitterPart \in Nat \ {0}
    /\ MaxAttempts \in Nat \ {0}
    /\ MaxMisses \in Nat
    /\ UrlLifetime \in Nat

\* A fact of arithmetic, which TLC evaluates and the provers do not know.
ASSUME PowersAssumption == \A n \in 1 .. MaxAttempts : 2 ^ (n - 1) \in Nat \ {0}

VARIABLES
    now,         \* the time since the commit
    status,      \* OutboxEvent.status
    attempts,    \* OutboxEvent.attempts
    nextAttempt, \* OutboxEvent.next_attempt_at
    savedAt,     \* history: when the last attempt was saved, or the event was
    misses,      \* history: the runs that took the event and did not save it
    sweepDue,    \* when the next sweep is due
    heldSince,   \* when each worker took the event that it has, or Never
    copied       \* the attempts in its copy

eventVars  == <<status, attempts, nextAttempt, savedAt>>
workerVars == <<heldSince, copied>>
vars == <<now, eventVars, misses, sweepDue, workerVars>>

Never   == -1
Holders == {w \in Workers : heldSince[w] # Never}

TypeOK ==
    /\ now \in Nat
    /\ status \in {"pending", "delivered", "failed"}
    /\ attempts \in 0 .. MaxAttempts
    /\ status = "pending" => attempts < MaxAttempts
    /\ nextAttempt \in Nat
    /\ savedAt \in 0 .. now
    /\ misses \in 0 .. MaxMisses
    /\ sweepDue \in Nat
    /\ heldSince \in [Workers -> Nat \cup {Never}]
    /\ copied \in [Workers -> 0 .. MaxAttempts - 1]

\* emit_event: the event is due at once, some time before the next sweep.
Init ==
    /\ now = 0
    /\ status = "pending"
    /\ attempts = 0
    /\ nextAttempt = 0
    /\ savedAt = 0
    /\ misses = 0
    /\ sweepDue \in 0 .. SweepInterval
    /\ heldSince = [w \in Workers |-> Never]
    /\ copied = [w \in Workers |-> 0]

-----------------------------------------------------------------------------

\* min(60 * 2 ** (n - 1), 3600): the delay after the n-th attempt.
Backoff(n) ==
    LET doubled == BaseDelay * 2 ^ (n - 1)
    IN  IF doubled < MaxDelay THEN doubled ELSE MaxDelay

\* The delay after the last attempt, if there was one.
Delay(n) == IF n = 0 THEN 0 ELSE Backoff(n)

\* uniform(0, delay * 0.1), at most.
Jitter(delay) == (delay + JitterPart - 1) \div JitterPart

\* A run ends in time, and a sweep that is due waits for QueueDelay at most.
\* The time after the event has settled for good is of no interest.
Tick ==
    /\ status = "pending" \/ Holders # {}
    /\ now < sweepDue + QueueDelay
    /\ \A w \in Holders : now < heldSince[w] + RunTime
    /\ now' = now + 1
    /\ UNCHANGED <<eventVars, misses, sweepDue, workerVars>>

\* status = PENDING and next_attempt_at <= now.
IsDue == status = "pending" /\ nextAttempt <= now

\* Phase 1 of process_pending_events, in a run that takes the event.
Take(w) ==
    /\ IsDue
    /\ w \notin Holders
    /\ heldSince' = [heldSince EXCEPT ![w] = now]
    /\ copied' = [copied EXCEPT ![w] = attempts]
    /\ UNCHANGED <<now, eventVars, misses>>

\* A sweep finds the event, unless it is not due, or locked by a run that takes
\* or saves it.  Assumed of the other events: those that were created after this one
\* and are due with it fill no batch, which would hide it ([:BATCH_SIZE], newest
\* first).
Sweep ==
    /\ sweepDue <= now
    /\ sweepDue' = sweepDue + SweepInterval
    /\ \/ \E w \in Workers : Take(w)
       \/ /\ ~IsDue \/ Holders # {}
          /\ UNCHANGED <<now, eventVars, misses, workerVars>>

\* The dispatch on the commit of this event, if it was not lost, or of another.
Dispatch(w) == Take(w) /\ UNCHANGED sweepDue

\* The run of a worker is over.
Leave(w) ==
    /\ w \in Holders
    /\ heldSince' = [heldSince EXCEPT ![w] = Never]
    /\ copied' = [copied EXCEPT ![w] = 0]
    /\ UNCHANGED <<now, sweepDue>>

\* Seeded fault: an interrupted event is put off like a refused one.
InterruptedPutsOff(w) ==
    /\ Leave(w)
    /\ misses < MaxMisses
    /\ misses' = misses + 1
    /\ nextAttempt' = now + Backoff(attempts + 1)
    /\ UNCHANGED <<status, attempts, savedAt>>

\* The soft time limit comes before the end of the event, or the worker dies.
Interrupted(w) ==
    /\ Leave(w)
    /\ misses < MaxMisses
    /\ misses' = misses + 1
    /\ UNCHANGED eventVars

\* Phase 3 writes from the copy, whatever the row has become.
Delivered(w) ==
    /\ Leave(w)
    /\ status' = "delivered"
    /\ attempts' = copied[w] + 1
    /\ savedAt' = now
    /\ UNCHANGED <<nextAttempt, misses>>

\* Seeded faults: the delay is taken before the attempt is counted; the attempts are
\* not among the fields that are saved.
RefusedTooSoon(w) ==
    /\ Leave(w)
    /\ attempts' = copied[w] + 1
    /\ savedAt' = now
    /\ IF attempts' < MaxAttempts
       THEN status' = "pending" /\ nextAttempt' = now + Delay(copied[w])
       ELSE status' = "failed" /\ UNCHANGED nextAttempt
    /\ UNCHANGED misses

RefusedUncounted(w) ==
    /\ Leave(w)
    /\ savedAt' = now
    /\ IF copied[w] + 1 < MaxAttempts
       THEN /\ status' = "pending"
            /\ \E jitter \in 0 .. Jitter(Backoff(copied[w] + 1)) :
                nextAttempt' = now + Backoff(copied[w] + 1) + jitter
       ELSE status' = "failed" /\ UNCHANGED nextAttempt
    /\ UNCHANGED <<attempts, misses>>

\* An endpoint refuses the event: it is put off, or given up.
Refused(w) ==
    /\ Leave(w)
    /\ attempts' = copied[w] + 1
    /\ savedAt' = now
    /\ IF attempts' < MaxAttempts
       THEN /\ status' = "pending"
            /\ \E jitter \in 0 .. Jitter(Backoff(attempts')) :
                nextAttempt' = now + Backoff(attempts') + jitter
       ELSE status' = "failed" /\ UNCHANGED nextAttempt
    /\ UNCHANGED misses

Next ==
    \/ Tick
    \/ Sweep
    \/ \E w \in Workers : Dispatch(w)
    \/ \E w \in Workers : Interrupted(w)
    \/ \E w \in Workers : Delivered(w)
    \/ \E w \in Workers : Refused(w)

Spec == Init /\ [][Next]_vars

-----------------------------------------------------------------------------
(* Properties *)

\* What passes at most between a time the event could be taken and the end of
\* the run that takes it.
Gap == SweepInterval + QueueDelay + RunTime

\* No run takes the event before the delay that its refusals have earned it has
\* passed since the last one was saved, whatever sends runs: only one that had
\* it already can call the endpoints within the delay (process_pending_events).
RefusalsAreSpaced ==
    \A w \in Holders : heldSince[w] <= savedAt \/ savedAt + Delay(attempts) <= heldSince[w]

\* An attempt is saved within its delay, the jitter and a gap since the last one,
\* and a gap more for each run that missed it: no combination of lost dispatches,
\* overlapping and interrupted runs adds to that (process_pending_events).
AttemptedInTime ==
    status = "pending" =>
        now <= savedAt + Delay(attempts) + Jitter(Delay(attempts)) + (misses + 1) * Gap

\* From the n-th attempt to the end of the runs that make the next one, at most.
Round == [n \in 0 .. MaxAttempts - 1 |-> Delay(n) + Jitter(Delay(n)) + Gap + RunTime]

\* By when n attempts are saved, if no run misses the event.
SavedBy(n) == Total(Round, 0 .. n - 1)

\* The event is delivered or given up within the rounds of its attempts, and a gap
\* for each run that missed it, even if stale copies set its attempts back:
\* retries neither stall nor go on (process_pending_events).
SettledInTime == status = "pending" => now <= SavedBy(MaxAttempts) + misses * Gap

\* The numbers of earlier attempts with which an attempt is surely over before the
\* URL expires.
Fitting == {n \in 0 .. MaxAttempts - 1 : SavedBy(n + 1) + MaxMisses * Gap <= UrlLifetime}

\* Every attempt whose rounds fit into the lifetime of a signed URL finds the URL of
\* the payload valid until its end, also if the worker that makes it has a stale
\* copy, or had it while another set the attempts back (process_pending_events,
\* AWS_QUERYSTRING_EXPIRE).  With the settings of the repository these are the first
\* three attempts of five, if one run misses the event: the others may be too late.
UrlIsAlive == \A w \in Holders : copied[w] \in Fitting => now <= UrlLifetime

-----------------------------------------------------------------------------
(* Why they hold: an inductive invariant *)

\* Sweeps keep coming, and runs keep ending.
RunsKeepComing ==
    /\ now <= sweepDue + QueueDelay
    /\ sweepDue <= now + SweepInterval
    /\ \A w \in Holders : heldSince[w] <= now /\ now <= heldSince[w] + RunTime

\* An event that was due at time t was taken soon after, or the sweep that takes it
\* is near.
TakenSoon(t) ==
    \/ sweepDue <= t + misses * Gap + SweepInterval
    \/ \E w \in Holders : heldSince[w] <= t + misses * Gap + SweepInterval + QueueDelay

DueIsNear == status = "pending" => TakenSoon(nextAttempt)

DelayIsRespected ==
    status = "pending" =>
        /\ savedAt + Delay(attempts) <= nextAttempt
        /\ nextAttempt <= savedAt + Delay(attempts) + Jitter(Delay(attempts))

\* When the attempt after the n-th is due, at the latest.
DueBy(n) == SavedBy(n) + Delay(n) + Jitter(Delay(n))

\* The row is as late as its number of attempts allows, whatever its history, and so
\* is each copy.
RowIsOnTime ==
    status = "pending" =>
        nextAttempt <= DueBy(attempts) + misses * Gap /\ TakenSoon(DueBy(attempts))

CopiesAreOnTime ==
    \A w \in Holders : heldSince[w] <= DueBy(copied[w]) + misses * Gap + Gap

\* The inductive invariant of the clock of the outbox (process_pending_events).
IInv ==
    /\ TypeOK
    /\ RunsKeepComing
    /\ DueIsNear
    /\ DelayIsRespected
    /\ RefusalsAreSpaced
    /\ RowIsOnTime
    /\ CopiesAreOnTime
=============================================================================
