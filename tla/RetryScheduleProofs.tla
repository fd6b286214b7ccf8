------------------------ MODULE RetryScheduleProofs ------------------------
(***************************************************************************)
(* What RetrySchedule promises for any number of workers, any interval of  *)
(* the sweep, any delays, any number of attempts and of runs that miss the *)
(* event.  The argument is the inductive invariant IInv of that module.    *)
(***************************************************************************)
EXTENDS RetrySchedule, SumsProofs

-----------------------------------------------------------------------------
(* Delays *)

\* A delay is a number.
LEMMA BackoffIsNat ==
    ASSUME NEW n \in 1 .. MaxAttempts
    PROVE  Backoff(n) \in Nat
<1>1. 2 ^ (n - 1) \in Nat \ {0}
    BY PowersAssumption
<1>2. ASSUME NEW power \in Nat \ {0} PROVE BaseDelay * power \in Nat
    BY <1>2, RetryAssumption
<1>3. BaseDelay * 2 ^ (n - 1) \in Nat
    BY <1>1, <1>2
<1> QED BY <1>3, RetryAssumption DEF Backoff

LEMMA JitterIsNat == ASSUME NEW delay \in Nat PROVE Jitter(delay) \in Nat
BY RetryAssumption DEF Jitter

LEMMA DelayIsNat ==
    ASSUME NEW n \in 0 .. MaxAttempts
    PROVE  /\ Delay(n) \in Nat
           /\ Jitter(Delay(n)) \in Nat
<1>1. Delay(n) \in Nat
    BY BackoffIsNat, RetryAssumption DEF Delay
<1> QED BY <1>1, JitterIsNat

\* One more run that misses the event is one more gap.
LEMMA OneGapMore ==
    ASSUME NEW n \in Nat
    PROVE  /\ Gap \in Nat
           /\ n * Gap \in Nat
           /\ (n + 1) * Gap = n * Gap + Gap
<1>1. ASSUME NEW g \in Nat PROVE n * g \in Nat /\ (n + 1) * g = n * g + g
    BY <1>1
<1>2. Gap \in Nat
    BY RetryAssumption DEF Gap
<1> QED BY <1>1, <1>2

\* The rounds add up.
LEMMA RoundsAddUp ==
    ASSUME NEW n \in 0 .. MaxAttempts
    PROVE  /\ SavedBy(n) \in Nat
           /\ DueBy(n) \in Nat /\ SavedBy(n) <= DueBy(n)
           /\ SavedBy(n) <= SavedBy(MaxAttempts)
           /\ n < MaxAttempts => SavedBy(n + 1) = DueBy(n) + Gap + RunTime
<1>1. MaxAttempts \in Nat /\ n \in Nat /\ n <= MaxAttempts
    BY RetryAssumption
<1> DEFINE S == 0 .. MaxAttempts - 1
<1>2. IsFiniteSet(S)
    BY <1>1, FS_Interval
<1>3. Round \in [S -> Nat]
    <2> SUFFICES ASSUME NEW k \in S PROVE Delay(k) + Jitter(Delay(k)) + Gap + RunTime \in Nat
        BY DEF Round
    <2>1. Delay(k) \in Nat /\ Jitter(Delay(k)) \in Nat
        BY <1>1, DelayIsNat
    <2> QED BY <2>1, RetryAssumption DEF Gap
<1>4. SavedBy(n) \in Nat
    BY <1>1, <1>2, <1>3, TotalIsNat DEF SavedBy
<1>5. SavedBy(n) <= SavedBy(MaxAttempts)
    BY <1>1, <1>2, <1>3, TotalIsMonotone DEF SavedBy
<1>6. DueBy(n) \in Nat /\ SavedBy(n) <= DueBy(n)
    BY <1>4, DelayIsNat DEF DueBy
<1>7. ASSUME n < MaxAttempts
      PROVE  SavedBy(n + 1) = DueBy(n) + Gap + RunTime
    <2>1. 0 .. (n + 1) - 1 = (0 .. n - 1) \cup {n} /\ n \notin 0 .. n - 1
        BY <1>1
    <2>2. 0 .. n - 1 \in SUBSET S /\ n \in S
        BY <1>1, <1>7
    <2>3. Total(Round, (0 .. n - 1) \cup {n}) = Total(Round, 0 .. n - 1) + Round[n]
        <3> DEFINE T == 0 .. n - 1
        <3>1. T \in SUBSET S /\ n \in S /\ n \notin T
            BY <2>1, <2>2
        <3> HIDE DEF T, S
        <3>2. Total(Round, T \cup {n}) = Total(Round, T) + Round[n]
            BY <1>2, <1>3, <3>1, TotalOfOneMore
        <3> QED BY <3>2 DEF T
    <2>4. Round[n] = Delay(n) + Jitter(Delay(n)) + Gap + RunTime
        BY <2>2 DEF Round
    <2>5. Delay(n) \in Nat /\ Jitter(Delay(n)) \in Nat /\ Gap \in Nat /\ RunTime \in Nat
        BY DelayIsNat, RetryAssumption DEF Gap
    <2>6. SavedBy(n + 1) = SavedBy(n) + Round[n]
        BY <2>1, <2>3 DEF SavedBy
    <2> QED BY <1>4, <2>4, <2>5, <2>6 DEF DueBy
<1> QED BY <1>4, <1>5, <1>6, <1>7

\* A copy is of a row with an attempt left.
LEMMA CopiedNumbers ==
    ASSUME TypeOK, NEW w \in Holders
    PROVE  /\ copied[w] \in Nat /\ copied[w] + 1 \in 1 .. MaxAttempts
           /\ DueBy(copied[w]) \in Nat /\ SavedBy(copied[w] + 1) \in Nat
           /\ SavedBy(copied[w] + 1) = DueBy(copied[w]) + Gap + RunTime
           /\ SavedBy(copied[w] + 1) <= SavedBy(MaxAttempts)
<1>1. copied[w] \in 0 .. MaxAttempts - 1 /\ MaxAttempts \in Nat
    BY RetryAssumption DEF TypeOK, Holders
<1>2. copied[w] \in 0 .. MaxAttempts /\ copied[w] + 1 \in 0 .. MaxAttempts /\ copied[w] < MaxAttempts
    BY <1>1
<1> QED BY <1>1, <1>2, RoundsAddUp

\* The numbers of a state.
LEMMA Numbers ==
    ASSUME TypeOK
    PROVE  /\ now \in Nat /\ nextAttempt \in Nat /\ savedAt \in Nat /\ savedAt <= now
           /\ sweepDue \in Nat /\ misses \in Nat /\ misses * Gap \in Nat
           /\ (misses + 1) * Gap = misses * Gap + Gap
           /\ SweepInterval \in Nat /\ QueueDelay \in Nat /\ RunTime \in Nat
           /\ \A w \in Holders : heldSince[w] \in Nat
           /\ Delay(attempts) \in Nat /\ Jitter(Delay(attempts)) \in Nat
           /\ Gap \in Nat /\ DueBy(attempts) \in Nat
<1>1. misses \in Nat
    BY RetryAssumption DEF TypeOK
<1>2. misses * Gap \in Nat /\ (misses + 1) * Gap = misses * Gap + Gap
    BY <1>1, OneGapMore
<1>3. attempts \in 0 .. MaxAttempts
    BY DEF TypeOK
<1>4. Gap \in Nat /\ DueBy(attempts) \in Nat
    BY <1>1, <1>3, OneGapMore, RoundsAddUp
<1> QED BY <1>1, <1>2, <1>3, <1>4, DelayIsNat, RetryAssumption DEF TypeOK, Holders

-----------------------------------------------------------------------------
(* The initial states and the steps *)

LEMMA InitIInv == Init => IInv
<1> SUFFICES ASSUME Init PROVE IInv
    OBVIOUS
<1> USE DEF Init
<1>1. TypeOK
    BY RetryAssumption DEF TypeOK
<1>2. Holders = {}
    BY DEF Holders, Never
<1>3. RunsKeepComing /\ RefusalsAreSpaced
    BY <1>2, RetryAssumption DEF RunsKeepComing, RefusalsAreSpaced
<1>4. DueIsNear /\ RowIsOnTime /\ CopiesAreOnTime
    BY <1>1, <1>2, Numbers DEF DueIsNear, RowIsOnTime, CopiesAreOnTime, TakenSoon
<1>5. DelayIsRespected
    <2>1. Delay(0) = 0 /\ Jitter(0) \in Nat
        BY JitterIsNat DEF Delay
    <2> QED BY <2>1 DEF DelayIsRespected
<1> QED BY <1>1, <1>3, <1>4, <1>5 DEF IInv

LEMMA TickIInv == ASSUME IInv, Tick PROVE IInv'
<1> USE DEF IInv, Tick, eventVars, workerVars
<1>1. TypeOK' /\ Holders' = Holders
    BY DEF TypeOK, Holders
<1>2. RunsKeepComing'
    BY <1>1, Numbers DEF RunsKeepComing
<1>3. DelayIsRespected' /\ RefusalsAreSpaced'
    BY <1>1 DEF DelayIsRespected, RefusalsAreSpaced
<1>4. DueIsNear' /\ RowIsOnTime' /\ CopiesAreOnTime'
    BY <1>1 DEF DueIsNear, RowIsOnTime, CopiesAreOnTime, TakenSoon
<1> QED BY <1>1, <1>2, <1>3, <1>4

\* What a worker takes is due, and as the other copies are.
LEMMA TakeKeeps ==
    ASSUME IInv, NEW w \in Workers, Take(w)
    PROVE  /\ heldSince' \in [Workers -> Nat \cup {Never}]
           /\ copied' \in [Workers -> 0 .. MaxAttempts - 1]
           /\ Holders' = Holders \cup {w} /\ heldSince'[w] = now
           /\ \A v \in Holders : heldSince'[v] = heldSince[v]
           /\ RefusalsAreSpaced' /\ DelayIsRespected' /\ CopiesAreOnTime'
<1> USE DEF IInv, Take, eventVars
<1>1. /\ heldSince' = [heldSince EXCEPT ![w] = now] /\ copied' = [copied EXCEPT ![w] = attempts]
      /\ heldSince \in [Workers -> Nat \cup {Never}] /\ copied \in [Workers -> 0 .. MaxAttempts - 1]
      /\ now \in Nat /\ attempts \in 0 .. MaxAttempts - 1
    BY RetryAssumption DEF TypeOK, IsDue
<1>2. /\ heldSince' \in [Workers -> Nat \cup {Never}] /\ copied' \in [Workers -> 0 .. MaxAttempts - 1]
      /\ heldSince'[w] = now /\ copied'[w] = attempts
      /\ \A v \in Workers : v # w => heldSince'[v] = heldSince[v] /\ copied'[v] = copied[v]
    BY <1>1
<1>3. Holders' = Holders \cup {w}
    BY <1>1, <1>2 DEF Holders, Never
<1>4. DelayIsRespected'
    BY DEF DelayIsRespected
<1>5. savedAt + Delay(attempts) <= now
    BY Numbers DEF DelayIsRespected, IsDue
<1>6. RefusalsAreSpaced'
    BY <1>2, <1>3, <1>5 DEF RefusalsAreSpaced
<1>7. CopiesAreOnTime'
    <2>1. now <= DueBy(attempts) + misses * Gap + Gap
        <3>1. TakenSoon(DueBy(attempts))
            BY DEF RowIsOnTime, IsDue
        <3> QED BY <3>1, Numbers DEF TakenSoon, RunsKeepComing, Gap
    <2>2. \A v \in Holders : v # w /\ v \in Workers
        BY DEF Holders
    <2> QED BY <1>2, <1>3, <2>1, <2>2 DEF CopiesAreOnTime
<1> QED BY <1>2, <1>3, <1>4, <1>6, <1>7 DEF Holders

\* A sweep that is due takes the event, finds it taken, or comes too early.
LEMMA SweepIInv == ASSUME IInv, Sweep PROVE IInv'
<1> USE DEF IInv, Sweep
<1>1. CASE \E w \in Workers : Take(w)
    <2> USE DEF Take, eventVars
    <2>1. PICK w \in Workers : Take(w)
        BY <1>1
    <2>2. /\ heldSince' \in [Workers -> Nat \cup {Never}]
          /\ copied' \in [Workers -> 0 .. MaxAttempts - 1]
          /\ Holders' = Holders \cup {w} /\ heldSince'[w] = now
          /\ \A v \in Holders : heldSince'[v] = heldSince[v]
          /\ RefusalsAreSpaced' /\ DelayIsRespected' /\ CopiesAreOnTime'
        BY <2>1, TakeKeeps
    <2>3. TypeOK'
        BY <2>1, <2>2, RetryAssumption DEF TypeOK
    <2>4. RunsKeepComing'
        BY <2>1, <2>2, Numbers DEF RunsKeepComing
    <2>5. ASSUME NEW t \in Nat, TakenSoon(t) PROVE TakenSoon(t)'
        BY <2>1, <2>2, <2>5, Numbers DEF TakenSoon, RunsKeepComing
    <2>6. DueIsNear' /\ RowIsOnTime'
        BY <2>1, <2>5, Numbers DEF DueIsNear, RowIsOnTime, TakenSoon
    <2> QED BY <2>2, <2>3, <2>4, <2>6
<1>2. CASE ~(\E w \in Workers : Take(w))
    <2> USE <1>2 DEF eventVars, workerVars
    <2>1. TypeOK' /\ Holders' = Holders
        BY RetryAssumption DEF TypeOK, Holders
    <2>2. RunsKeepComing'
        BY <2>1, Numbers DEF RunsKeepComing
    <2>3. ASSUME NEW t \in Nat, status = "pending", TakenSoon(t), nextAttempt <= t + misses * Gap
          PROVE  TakenSoon(t)'
        <3>1. CASE ~IsDue
            BY <2>3, <3>1, Numbers DEF TakenSoon, IsDue, RunsKeepComing
        <3>2. CASE Holders # {}
            BY <2>1, <2>3, <3>2, Numbers DEF TakenSoon, RunsKeepComing
        <3> QED BY <3>1, <3>2
    <2>4. DueIsNear' /\ RowIsOnTime'
        BY <2>3, Numbers DEF DueIsNear, RowIsOnTime, TakenSoon
    <2>5. DelayIsRespected' /\ RefusalsAreSpaced' /\ CopiesAreOnTime'
        BY <2>1 DEF DelayIsRespected, RefusalsAreSpaced, CopiesAreOnTime
    <2> QED BY <2>1, <2>2, <2>4, <2>5
<1> QED BY <1>1, <1>2

LEMMA DispatchIInv == ASSUME IInv, NEW w \in Workers, Dispatch(w) PROVE IInv'
<1> USE DEF IInv, Dispatch, Take, eventVars
<1>1. /\ heldSince' \in [Workers -> Nat \cup {Never}]
      /\ copied' \in [Workers -> 0 .. MaxAttempts - 1]
      /\ Holders' = Holders \cup {w} /\ heldSince'[w] = now
      /\ \A v \in Holders : heldSince'[v] = heldSince[v]
      /\ RefusalsAreSpaced' /\ DelayIsRespected' /\ CopiesAreOnTime'
    BY TakeKeeps
<1>2. TypeOK'
    BY <1>1 DEF TypeOK
<1>3. RunsKeepComing'
    BY <1>1, Numbers DEF RunsKeepComing
<1>4. DueIsNear' /\ RowIsOnTime'
    BY <1>1 DEF DueIsNear, RowIsOnTime, TakenSoon
<1> QED BY <1>1, <1>2, <1>3, <1>4

\* What a worker leaves to the others.
LEMMA LeaveKeeps ==
    ASSUME TypeOK, NEW w \in Workers, Leave(w)
    PROVE  /\ heldSince' \in [Workers -> Nat \cup {Never}]
           /\ copied' \in [Workers -> 0 .. MaxAttempts - 1]
           /\ Holders' = Holders \ {w}
           /\ \A v \in Holders' : heldSince'[v] = heldSince[v] /\ copied'[v] = copied[v]
<1> USE DEF Leave
<1>1. heldSince \in [Workers -> Nat \cup {Never}] /\ copied \in [Workers -> 0 .. MaxAttempts - 1]
    BY DEF TypeOK
<1>2. /\ heldSince' \in [Workers -> Nat \cup {Never}] /\ copied' \in [Workers -> 0 .. MaxAttempts - 1]
      /\ heldSince'[w] = Never
      /\ \A v \in Workers : v # w => heldSince'[v] = heldSince[v] /\ copied'[v] = copied[v]
    BY <1>1, RetryAssumption
<1> QED BY <1>2 DEF Holders

\* The next sweep, or another worker, makes up for an interrupted run.
LEMMA InterruptedIInv == ASSUME IInv, NEW w \in Workers, Interrupted(w) PROVE IInv'
<1> USE DEF IInv, Interrupted, eventVars
<1>1. /\ heldSince' \in [Workers -> Nat \cup {Never}]
      /\ copied' \in [Workers -> 0 .. MaxAttempts - 1]
      /\ Holders' = Holders \ {w}
      /\ \A v \in Holders' : heldSince'[v] = heldSince[v] /\ copied'[v] = copied[v]
    BY LeaveKeeps
<1>2. UNCHANGED <<now, sweepDue>> /\ w \in Holders
    BY DEF Leave
<1>3. TypeOK'
    BY <1>1, <1>2, RetryAssumption DEF TypeOK
<1>4. RunsKeepComing'
    BY <1>1, <1>2 DEF RunsKeepComing
<1>5. misses' * Gap = misses * Gap + Gap
    BY Numbers
<1>6. ASSUME NEW t \in Nat, TakenSoon(t) PROVE sweepDue' <= t + misses' * Gap + SweepInterval
    <2>1. CASE sweepDue <= t + misses * Gap + SweepInterval
        BY <1>2, <1>5, <2>1, Numbers
    <2>2. CASE \E v \in Holders : heldSince[v] <= t + misses * Gap + SweepInterval + QueueDelay
        <3>1. now <= t + misses * Gap + Gap
            BY <2>2, Numbers DEF RunsKeepComing, Gap
        <3> QED BY <1>2, <1>5, <3>1, Numbers DEF RunsKeepComing
    <2> QED BY <1>6, <2>1, <2>2 DEF TakenSoon
<1>7. DueIsNear' /\ RowIsOnTime'
    BY <1>5, <1>6, Numbers DEF DueIsNear, RowIsOnTime, TakenSoon
<1>8. CopiesAreOnTime'
    <2> SUFFICES ASSUME NEW v \in Holders'
                 PROVE  heldSince'[v] <= DueBy(copied'[v]) + misses' * Gap + Gap
        BY DEF CopiesAreOnTime
    <2>1. v \in Holders /\ heldSince'[v] = heldSince[v] /\ copied'[v] = copied[v]
        BY <1>1
    <2> QED BY <1>5, <2>1, Numbers, CopiedNumbers DEF CopiesAreOnTime
<1>9. DelayIsRespected' /\ RefusalsAreSpaced'
    BY <1>1 DEF DelayIsRespected, RefusalsAreSpaced
<1> QED BY <1>3, <1>4, <1>7, <1>8, <1>9

\* An attempt is saved: the event settles, or is put off by its new delay.
LEMMA SavedIInv ==
    ASSUME IInv, NEW w \in Workers, Delivered(w) \/ Refused(w)
    PROVE  IInv'
<1> USE DEF IInv
<1>1. /\ Leave(w) /\ w \in Holders
      /\ attempts' = copied[w] + 1 /\ savedAt' = now
      /\ UNCHANGED <<now, misses, sweepDue>>
    BY DEF Delivered, Refused, Leave
<1>2. /\ heldSince' \in [Workers -> Nat \cup {Never}]
      /\ copied' \in [Workers -> 0 .. MaxAttempts - 1]
      /\ Holders' = Holders \ {w}
      /\ \A v \in Holders' : heldSince'[v] = heldSince[v] /\ copied'[v] = copied[v]
    BY <1>1, LeaveKeeps
<1>3. attempts' \in 1 .. MaxAttempts
    BY <1>1, RetryAssumption DEF TypeOK
<1>4. Backoff(attempts') \in Nat /\ Jitter(Backoff(attempts')) \in Nat
    BY <1>3, BackoffIsNat, JitterIsNat
<1>5. Delay(attempts') = Backoff(attempts')
    BY <1>3 DEF Delay
<1>6. RunsKeepComing' /\ RefusalsAreSpaced'
    BY <1>1, <1>2 DEF RunsKeepComing, RefusalsAreSpaced
<1>7. CopiesAreOnTime'
    BY <1>1, <1>2 DEF CopiesAreOnTime
<1>8. now <= SavedBy(attempts') + misses * Gap
    <2>1. heldSince[w] <= DueBy(copied[w]) + misses * Gap + Gap /\ now <= heldSince[w] + RunTime
        BY <1>1 DEF CopiesAreOnTime, RunsKeepComing
    <2> QED BY <1>1, <2>1, Numbers, CopiedNumbers
<1>9. CASE status' = "pending"
    <2>1. PICK jitter \in 0 .. Jitter(Backoff(attempts')) :
            nextAttempt' = now + Backoff(attempts') + jitter /\ attempts' < MaxAttempts
        BY <1>9 DEF Delivered, Refused
    <2>2. nextAttempt' \in Nat /\ now <= nextAttempt'
        BY <1>4, <2>1, Numbers
    <2>3. TypeOK'
        BY <1>1, <1>2, <1>3, <1>9, <2>1, <2>2 DEF TypeOK
    <2>4. sweepDue <= nextAttempt' + misses * Gap + SweepInterval
        BY <2>2, Numbers DEF RunsKeepComing
    <2>5. DueIsNear'
        BY <1>1, <2>4 DEF DueIsNear, TakenSoon
    <2>6. DelayIsRespected'
        BY <1>1, <1>4, <1>5, <2>1, Numbers DEF DelayIsRespected
    <2>7. SavedBy(attempts') \in Nat /\ DueBy(attempts') = SavedBy(attempts') + Delay(attempts') + Jitter(Delay(attempts'))
        BY <1>3, RoundsAddUp, RetryAssumption DEF DueBy
    <2>8. nextAttempt' <= DueBy(attempts') + misses * Gap
        BY <1>4, <1>5, <1>8, <2>1, <2>7, Numbers
    <2>9. sweepDue <= DueBy(attempts') + misses * Gap + SweepInterval
        BY <1>4, <1>5, <1>8, <2>7, Numbers DEF RunsKeepComing
    <2>10. RowIsOnTime'
        BY <1>1, <2>8, <2>9 DEF RowIsOnTime, TakenSoon
    <2> QED BY <1>6, <1>7, <2>3, <2>5, <2>6, <2>10
<1>10. CASE status' # "pending"
    <2>1. nextAttempt' = nextAttempt /\ status' \in {"delivered", "failed"}
        BY <1>10 DEF Delivered, Refused
    <2>2. TypeOK'
        BY <1>1, <1>2, <1>3, <1>10, <2>1 DEF TypeOK
    <2>3. DueIsNear' /\ DelayIsRespected' /\ RowIsOnTime'
        BY <1>10 DEF DueIsNear, DelayIsRespected, RowIsOnTime
    <2> QED BY <1>6, <1>7, <2>2, <2>3
<1> QED BY <1>9, <1>10

LEMMA UnchangedIInv == ASSUME IInv, UNCHANGED vars PROVE IInv'
<1> USE DEF IInv, vars, eventVars, workerVars
<1>1. TypeOK' /\ Holders' = Holders
    BY DEF TypeOK, Holders
<1>2. RunsKeepComing' /\ DueIsNear' /\ DelayIsRespected' /\ RowIsOnTime'
    BY <1>1 DEF RunsKeepComing, DueIsNear, DelayIsRespected, RowIsOnTime, TakenSoon
<1>3. RefusalsAreSpaced' /\ CopiesAreOnTime'
    BY <1>1 DEF RefusalsAreSpaced, CopiesAreOnTime
<1> QED BY <1>1, <1>2, <1>3

-----------------------------------------------------------------------------
(* The theorems *)

\* The inductive invariant holds whatever dispatches, sweeps, interruptions and
\* refusals come in which order, to any number of workers.
THEOREM RetryInvariant == Spec => []IInv
<1>1. IInv /\ [Next]_vars => IInv'
    BY TickIInv, SweepIInv, DispatchIInv, InterruptedIInv, SavedIInv, UnchangedIInv DEF Next
<1> QED BY <1>1, InitIInv, PTL DEF Spec

\* No run takes the event within the delay its refusals have earned it.
THEOREM RetryRefusalsAreSpaced == Spec => []RefusalsAreSpaced
<1>1. IInv => RefusalsAreSpaced
    BY DEF IInv
<1> QED BY <1>1, RetryInvariant, PTL

\* The next attempt is saved within the delay, the jitter, a gap for each run
\* that missed the event and one for the run that does not.
THEOREM RetryAttemptedInTime == Spec => []AttemptedInTime
<1>1. ASSUME IInv, status = "pending"
      PROVE  now <= savedAt + Delay(attempts) + Jitter(Delay(attempts)) + (misses + 1) * Gap
    <2> USE <1>1 DEF IInv
    <2>1. now <= nextAttempt + misses * Gap + Gap
        <3>1. CASE sweepDue <= nextAttempt + misses * Gap + SweepInterval
            BY <3>1, Numbers DEF RunsKeepComing, Gap
        <3>2. CASE \E v \in Holders :
                    heldSince[v] <= nextAttempt + misses * Gap + SweepInterval + QueueDelay
            BY <3>2, Numbers DEF RunsKeepComing, Gap
        <3> QED BY <3>1, <3>2 DEF DueIsNear, TakenSoon
    <2>2. nextAttempt <= savedAt + Delay(attempts) + Jitter(Delay(attempts))
        BY DEF DelayIsRespected
    <2> QED BY <2>1, <2>2, Numbers, OneGapMore
<1>2. IInv => AttemptedInTime
    BY <1>1 DEF AttemptedInTime
<1> QED BY <1>2, RetryInvariant, PTL

\* The event is delivered or given up within the rounds of its attempts, and a gap
\* for each run that misses it, for any number of workers and length of runs.
THEOREM RetrySettledInTime == Spec => []SettledInTime
<1>1. ASSUME IInv, status = "pending"
      PROVE  now <= SavedBy(MaxAttempts) + misses * Gap
    <2> USE <1>1 DEF IInv
    <2>1. now <= DueBy(attempts) + misses * Gap + Gap
        <3>1. TakenSoon(DueBy(attempts))
            BY DEF RowIsOnTime
        <3> QED BY <3>1, Numbers DEF TakenSoon, RunsKeepComing, Gap
    <2>2. attempts \in 0 .. MaxAttempts /\ attempts < MaxAttempts /\ attempts + 1 \in 0 .. MaxAttempts
        BY RetryAssumption DEF TypeOK
    <2>3. /\ SavedBy(attempts + 1) = DueBy(attempts) + Gap + RunTime
          /\ SavedBy(attempts + 1) <= SavedBy(MaxAttempts)
          /\ SavedBy(attempts + 1) \in Nat /\ SavedBy(MaxAttempts) \in Nat
        BY <2>2, RoundsAddUp, RetryAssumption
    <2> QED BY <2>1, <2>3, Numbers
<1>2. IInv => SettledInTime
    BY <1>1 DEF SettledInTime
<1> QED BY <1>2, RetryInvariant, PTL

\* An attempt whose rounds fit into the lifetime of a URL finds it valid until the
\* run is over, the attempts of workers with stale copies too.
THEOREM RetryUrlIsAlive == Spec => []UrlIsAlive
<1>1. ASSUME IInv, NEW w \in Holders, copied[w] \in Fitting PROVE now <= UrlLifetime
    <2> USE <1>1 DEF IInv
    <2>1. heldSince[w] <= DueBy(copied[w]) + misses * Gap + Gap /\ now <= heldSince[w] + RunTime
        BY DEF CopiesAreOnTime, RunsKeepComing
    <2>2. now <= SavedBy(copied[w] + 1) + misses * Gap
        BY <2>1, Numbers, CopiedNumbers
    <2>3. misses * Gap <= MaxMisses * Gap /\ MaxMisses * Gap \in Nat
        <3>1. ASSUME NEW m \in Nat, NEW n \in Nat, m <= n, NEW g \in Nat
              PROVE  m * g <= n * g /\ n * g \in Nat
            <4>1. (n - m) * g >= 0
                BY <3>1
            <4>2. n * g = m * g + (n - m) * g
                BY <3>1
            <4> QED BY <3>1, <4>1, <4>2
        <3>2. misses \in Nat /\ MaxMisses \in Nat /\ misses <= MaxMisses
            BY RetryAssumption DEF TypeOK
        <3> QED BY <3>1, <3>2, Numbers
    <2>4. SavedBy(copied[w] + 1) + MaxMisses * Gap <= UrlLifetime
        BY <1>1 DEF Fitting
    <2> QED BY <2>2, <2>3, <2>4, Numbers, CopiedNumbers, RetryAssumption
<1>2. IInv => UrlIsAlive
    BY <1>1 DEF UrlIsAlive
<1> QED BY <1>2, RetryInvariant, PTL
=============================================================================
