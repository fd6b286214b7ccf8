------------------------ MODULE ExpiryScheduleProofs ------------------------
(***************************************************************************)
(* What ExpirySchedule promises for any settings, any number of files and  *)
(* any delay: when files are deleted and which of them are announced       *)
(* before, whatever the settings, and how long the outbox must remember    *)
(* for none to be announced twice.                                         *)
(***************************************************************************)
EXTENDS ExpirySchedule, FiniteSetTheorems, TLAPS

-----------------------------------------------------------------------------
(* Sets of files *)

LEMMA FilesFinite ==
    /\ IsFiniteSet(Files)
    /\ \A S \in SUBSET Files : IsFiniteSet(S) /\ Cardinality(S) \in Nat
<1>1. IsFiniteSet(Files)
    BY FS_Interval, ScheduleAssumption DEF Files
<1>2. ASSUME NEW S \in SUBSET Files PROVE IsFiniteSet(S) /\ Cardinality(S) \in Nat
    BY <1>1, FS_Subset, FS_CardinalityType
<1> QED BY <1>1, <1>2

\* A batch takes all of a set that is no larger than the batch.
LEMMA SmallSetIsTaken ==
    ASSUME NEW S \in SUBSET Files, Cardinality(S) <= BatchSize
    PROVE  Oldest(S) = S
<1> SUFFICES ASSUME NEW f \in S PROVE Cardinality({g \in S : g < f}) < BatchSize
    BY DEF Oldest
<1> DEFINE below == {g \in S : g < f}
<1>1. f \notin below /\ f \in Int
    BY ScheduleAssumption DEF Files
<1>2. IsFiniteSet(S) /\ IsFiniteSet(below) /\ Cardinality(S) \in Nat /\ Cardinality(below) \in Nat
    BY FilesFinite
<1>3. Cardinality(below) <= Cardinality(S) /\ (Cardinality(below) = Cardinality(S) => below = S)
    BY <1>2, FS_Subset
<1>4. Cardinality(below) < Cardinality(S)
    BY <1>1, <1>2, <1>3
<1> QED BY <1>2, <1>4, ScheduleAssumption

-----------------------------------------------------------------------------
(* The initial state *)

LEMMA InitIInv == Init => IInv
<1> SUFFICES ASSUME Init PROVE IInv
    OBVIOUS
<1> USE ScheduleAssumption DEF Init
<1>1. TypeOK
    <2>1. /\ now \in Nat /\ notifyDue \in Nat /\ cleanupDue \in Nat
          /\ midnight \in Nat /\ purgeDue \in Nat
          /\ expiring \subseteq Files /\ doomed \subseteq Files
        OBVIOUS
    <2>2. notifying \in BOOLEAN /\ cleaning \in BOOLEAN
        OBVIOUS
    <2>3. /\ status \in [Files -> {"none", "uploading", "stored", "failed", "removed", "gone"}]
          /\ born \in [Files -> Nat \cup {Never}]
          /\ storedAt \in [Files -> Nat \cup {Never}]
          /\ emittedAt \in [Files -> Nat \cup {Never}]
          /\ warnings \in [Files -> 0 .. 2]
        OBVIOUS
    <2> QED BY <2>1, <2>2, <2>3 DEF TypeOK
<1> USE DEF Never
<1>2. RunsOnTime /\ AgesAreTrue /\ Swept
    BY DEF RunsOnTime, AgesAreTrue, Swept, Born, Live
<1>3. RateHeld
    <2>1. \A t \in Int : BornWithin(t) = {}
        BY DEF BornWithin, Born
    <2> QED BY <2>1, FS_EmptySet DEF RateHeld
<1>4. Notified /\ OnceInv
    BY DEF OnceInv, Notified, Remembered, WarnedOnce, Ready
<1> QED BY <1>1, <1>2, <1>3, <1>4 DEF IInv, SweepInv

-----------------------------------------------------------------------------
(* The cleanup keeps up *)

\* A step that begins no upload leaves the rate as it was.
LEMMA RateUntouched ==
    ASSUME RateHeld, UNCHANGED born, Born' = Born
    PROVE  RateHeld'
BY DEF RateHeld, BornWithin

\* A file that is there is not older than the property says.
LEMMA SweptIsInTime ==
    ASSUME SweepInv, NEW f \in Live
    PROVE  now <= born[f] + TTL + CleanupInterval + Delay
<1>1. born[f] \in Nat
    BY DEF SweepInv, AgesAreTrue, Live, Born
<1>2. cleanupDue <= born[f] + TTL + CleanupInterval /\ now <= cleanupDue + Delay
    BY DEF SweepInv, RunsOnTime, Swept
<1> QED BY <1>1, <1>2, ScheduleAssumption DEF SweepInv, TypeOK

\* An upload begins, with a status of its own.
LEMMA NewFileSweepInv ==
    ASSUME SweepInv, NEW f \in Files, IsNewest(f), RateHolds,
           NEW s \in {"uploading", "stored", "failed"},
           status' = [status EXCEPT ![f] = s],
           born' = [born EXCEPT ![f] = now],
           storedAt' = IF s = "stored" THEN [storedAt EXCEPT ![f] = now] ELSE storedAt,
           UNCHANGED <<now, eventVars, notifyVars, cleanupVars, purgeDue>>
    PROVE  SweepInv'
<1> USE ScheduleAssumption DEF SweepInv, eventVars, notifyVars, cleanupVars
<1>1. TypeOK'
    BY DEF TypeOK
<1>2. f \notin Born /\ Born' = Born \cup {f} /\ Live' = Live \cup {f}
    BY DEF IsNewest, Born, Live, TypeOK
<1>3. RunsOnTime'
    BY DEF RunsOnTime
<1>4. AgesAreTrue'
    <2> SUFFICES ASSUME NEW g \in Files
                 PROVE  /\ g \in expiring => g \in Born'
                        /\ g \in Born' => born'[g] \in 0 .. now
                        /\ g \notin Born' => warnings[g] = 0 /\ emittedAt[g] = Never
                        /\ status'[g] \notin {"stored", "gone"} => storedAt'[g] = Never
                        /\ status'[g] = "stored" => storedAt'[g] \in 0 .. now
        BY DEF AgesAreTrue
    <2>1. CASE g = f
        <3>1. status'[f] = s /\ born'[f] = now /\ now \in Nat
            BY DEF TypeOK
        <3>2. s # "stored" => storedAt'[f] = Never
            BY <1>2 DEF AgesAreTrue, Born
        <3>3. s = "stored" => storedAt'[f] = now
            BY DEF TypeOK
        <3> QED BY <1>2, <2>1, <3>1, <3>2, <3>3
    <2>2. CASE g # f
        <3>1. status'[g] = status[g] /\ born'[g] = born[g] /\ storedAt'[g] = storedAt[g]
            BY <2>2 DEF TypeOK
        <3> QED BY <1>2, <2>2, <3>1 DEF AgesAreTrue
    <2> QED BY <2>1, <2>2
<1>5. RateHeld'
    <2> SUFFICES ASSUME NEW t \in 0 - CleanupInterval - TTL .. Horizon
                 PROVE  Cardinality(BornWithin(t)') <= BatchSize
        BY DEF RateHeld
    <2>1. \A g \in Born : g # f => born'[g] = born[g]
        BY DEF TypeOK
    <2>2. CASE ~(t <= now /\ now < t + CleanupInterval + Delay)
        <3>1. BornWithin(t)' = BornWithin(t)
            BY <1>2, <2>1, <2>2 DEF BornWithin, TypeOK
        <3> QED BY <3>1 DEF RateHeld
    <2>3. CASE t <= now /\ now < t + CleanupInterval + Delay
        <3> DEFINE recent == {g \in Born : now < born[g] + CleanupInterval + Delay}
        <3>1. BornWithin(t)' = BornWithin(t) \cup {f}
            BY <1>2, <2>1, <2>3 DEF BornWithin, TypeOK
        <3>2. BornWithin(t) \subseteq recent
            BY <2>3 DEF BornWithin, AgesAreTrue, TypeOK, Born
        <3>3. recent \in SUBSET Files /\ BornWithin(t) \in SUBSET Files /\ f \notin BornWithin(t)
            BY <1>2 DEF BornWithin, Born
        <3>4. Cardinality(recent) < BatchSize
            BY DEF RateHolds
        <3> HIDE DEF recent
        <3>5. /\ IsFiniteSet(recent) /\ IsFiniteSet(BornWithin(t))
              /\ Cardinality(recent) \in Nat /\ Cardinality(BornWithin(t)) \in Nat
            BY <3>3, FilesFinite
        <3>6. Cardinality(BornWithin(t)) <= Cardinality(recent)
            BY <3>2, <3>5, FS_Subset
        <3>7. Cardinality(BornWithin(t) \cup {f}) = Cardinality(BornWithin(t)) + 1
            BY <3>3, <3>5, FS_AddElement
        <3> QED BY <3>1, <3>4, <3>5, <3>6, <3>7
    <2> QED BY <2>2, <2>3
<1>6. Swept'
    <2>1. \A g \in Live : g # f /\ born'[g] = born[g]
        BY <1>2 DEF TypeOK, Live, Born
    <2>2. born'[f] = now /\ now \in Nat /\ now <= cleanupDue + Delay
        BY DEF TypeOK, RunsOnTime
    <2>3. cleanupDue <= now + TTL + CleanupInterval
        BY DEF TypeOK, RunsOnTime, Swept
    <2> QED BY <1>2, <2>1, <2>2, <2>3 DEF Swept, RunsOnTime, TypeOK
<1> QED BY <1>1, <1>3, <1>4, <1>5, <1>6

LEMMA UploadSweepInv == ASSUME SweepInv, NEW f \in Files, Upload(f) PROVE SweepInv'
<1>1. CASE status' = [status EXCEPT ![f] = "stored"] /\ storedAt' = [storedAt EXCEPT ![f] = now]
    BY <1>1, NewFileSweepInv DEF Upload
<1>2. CASE status' = [status EXCEPT ![f] = "failed"] /\ UNCHANGED storedAt
    BY <1>2, NewFileSweepInv DEF Upload
<1> QED BY <1>1, <1>2 DEF Upload

LEMMA BeginUploadSweepInv == ASSUME SweepInv, NEW f \in Files, BeginUpload(f) PROVE SweepInv'
BY NewFileSweepInv DEF BeginUpload

LEMMA CompleteUploadSweepInv ==
    ASSUME SweepInv, NEW f \in Files, CompleteUpload(f) PROVE SweepInv'
<1> USE DEF SweepInv, CompleteUpload, eventVars, notifyVars, cleanupVars
<1>1. Born' = Born /\ Live' = Live
    BY DEF Born, Live, TypeOK
<1>2. TypeOK'
    BY DEF TypeOK
<1>3. AgesAreTrue'
    <2>1. status'[f] = "stored" /\ storedAt'[f] = now /\ now \in Nat
        BY DEF TypeOK
    <2>2. \A g \in Files : g # f => status'[g] = status[g] /\ storedAt'[g] = storedAt[g]
        BY DEF TypeOK
    <2> QED BY <1>1, <2>1, <2>2 DEF AgesAreTrue
<1>4. RunsOnTime' /\ Swept'
    BY <1>1 DEF RunsOnTime, Swept
<1> QED BY <1>1, <1>2, <1>3, <1>4, RateUntouched

\* A failed file is still there; the keys of a removed one may still be held.
LEMMA LoseSweepInv ==
    ASSUME SweepInv, NEW f \in Files, MarkFileFailed(f) \/ AdminDelete(f) PROVE SweepInv'
<1> USE DEF SweepInv, MarkFileFailed, AdminDelete, eventVars, notifyVars, cleanupVars
<1>1. /\ f \in Live /\ status'[f] \in {"failed", "removed"} /\ storedAt'[f] = Never
      /\ \A g \in Files : g # f => status'[g] = status[g] /\ storedAt'[g] = storedAt[g]
      /\ UNCHANGED <<now, born, eventVars, notifyVars, cleanupVars, purgeDue>>
    BY DEF TypeOK
<1>2. Born' = Born /\ Live' \subseteq Live
    BY <1>1 DEF Born, Live
<1>3. TypeOK'
    BY DEF TypeOK, Never
<1> HIDE DEF MarkFileFailed, AdminDelete
<1>4. AgesAreTrue'
    BY <1>1, <1>2 DEF AgesAreTrue
<1>5. RunsOnTime' /\ Swept'
    BY <1>1, <1>2 DEF RunsOnTime, Swept
<1> QED BY <1>1, <1>2, <1>3, <1>4, <1>5, RateUntouched

LEMMA TickSweepInv == ASSUME SweepInv, Tick PROVE SweepInv'
<1> USE ScheduleAssumption DEF SweepInv, Tick, fileVars, eventVars, notifyVars, cleanupVars
<1>1. Born' = Born /\ Live' = Live
    BY DEF Born, Live
<1>2. TypeOK'
    BY DEF TypeOK
<1>3. RunsOnTime'
    BY DEF TypeOK, RunsOnTime
<1>4. AgesAreTrue'
    BY <1>1 DEF TypeOK, AgesAreTrue
<1>5. Swept'
    <2>1. \A f \in doomed : born[f] \in Nat
        BY DEF Swept, AgesAreTrue, Born
    <2> QED BY <1>1, <2>1 DEF TypeOK, Swept
<1> QED BY <1>1, <1>2, <1>3, <1>4, <1>5, RateUntouched

\* The notification and the cleanup of the outbox touch neither files nor keys.
LEMMA NotifySweepInv == ASSUME SweepInv, StartNotify \/ FinishNotify \/ Purge PROVE SweepInv'
<1> USE ScheduleAssumption DEF SweepInv, StartNotify, FinishNotify, Purge, fileVars, eventVars,
                               notifyVars, cleanupVars
<1>1. Born' = Born /\ Live' = Live
    BY DEF Born, Live
<1>2. RateHeld' /\ Swept'
    BY <1>1, RateUntouched DEF Swept
<1>3. RunsOnTime'
    BY DEF RunsOnTime, TypeOK
<1>4. TypeOK' /\ AgesAreTrue'
    <2>1. CASE StartNotify
        <3>1. expiring' \subseteq Files /\ \A f \in expiring' : f \in Born
            BY <2>1 DEF Stored, Born
        <3>2. TypeOK'
            BY <2>1, <3>1 DEF TypeOK
        <3> QED BY <1>1, <2>1, <3>1, <3>2 DEF AgesAreTrue
    <2>2. CASE FinishNotify
        <3>1. emittedAt' \in [Files -> Nat \cup {Never}] /\ warnings' \in [Files -> 0 .. 2]
            BY <2>2 DEF TypeOK, AtMostTwo
        <3>2. \A f \in Unwarned : f \in Files /\ f \in Born
            BY DEF Unwarned, TypeOK, AgesAreTrue
        <3>3. TypeOK'
            <4>1. notifyDue' \in Nat /\ expiring' \subseteq Files
                BY <2>2 DEF TypeOK
            <4>3. notifying' \in BOOLEAN
                BY <2>2
            <4>2. UNCHANGED <<now, status, born, storedAt, cleanupDue, midnight, cleaning, doomed,
                              purgeDue>>
                BY <2>2
            <4> HIDE DEF FinishNotify
            <4> QED BY <3>1, <4>1, <4>2, <4>3 DEF TypeOK
        <3>4. \A f \in Files : f \notin Born => warnings'[f] = warnings[f] /\ emittedAt'[f] = emittedAt[f]
            BY <2>2, <3>2
        <3> QED BY <1>1, <2>2, <3>3, <3>4 DEF AgesAreTrue
    <2>3. CASE Purge
        BY <1>1, <2>3 DEF TypeOK, AgesAreTrue
    <2> QED BY <2>1, <2>2, <2>3
<1> QED BY <1>2, <1>3, <1>4

LEMMA StartCleanupSweepInv == ASSUME SweepInv, StartCleanup PROVE SweepInv'
<1> USE ScheduleAssumption DEF SweepInv, StartCleanup, fileVars, eventVars, notifyVars
<1>1. Born' = Born /\ Live' = Live
    BY DEF Born, Live
<1>2. doomed' = Expired
    <2> DEFINE t == cleanupDue - CleanupInterval - TTL
    <2>1. t \in 0 - CleanupInterval - TTL .. Horizon
        BY DEF TypeOK, RunsOnTime
    <2>2. Expired \subseteq BornWithin(t)
        <3> SUFFICES ASSUME NEW f \in Expired
                     PROVE  f \in Born /\ t <= born[f] /\ born[f] < t + CleanupInterval + Delay
            BY DEF BornWithin
        <3>1. f \in Born /\ born[f] \in Nat
            BY DEF Expired, AgesAreTrue, Live, Born
        <3>2. cleanupDue <= born[f] + TTL + CleanupInterval
            BY DEF Expired, Swept
        <3>3. born[f] + TTL < now /\ now <= cleanupDue + Delay
            BY DEF Expired, RunsOnTime
        <3> QED BY <3>1, <3>2, <3>3 DEF TypeOK
    <2>3. Expired \in SUBSET Files /\ BornWithin(t) \in SUBSET Files
        BY DEF Expired, Live, BornWithin, Born
    <2>4. Cardinality(BornWithin(t)) <= BatchSize
        BY <2>1 DEF RateHeld
    <2> HIDE DEF t
    <2>5. Cardinality(Expired) <= Cardinality(BornWithin(t))
        BY <2>2, <2>3, FilesFinite, FS_Subset
    <2>6. Cardinality(Expired) \in Nat /\ Cardinality(BornWithin(t)) \in Nat
        BY <2>3, FilesFinite
    <2>7. Cardinality(Expired) <= BatchSize
        BY <2>4, <2>5, <2>6
    <2> QED BY <2>3, <2>7, SmallSetIsTaken
<1>3. TypeOK'
    BY <1>2 DEF TypeOK, Expired, Live
<1>4. RunsOnTime' /\ AgesAreTrue'
    BY <1>1 DEF RunsOnTime, AgesAreTrue
<1>5. Swept'
    <2>1. \A f \in Live : born[f] \in Nat
        BY DEF AgesAreTrue, Live, Born
    <2>2. \A f \in Live \ Expired : cleanupDue <= born[f] + TTL
        BY <2>1 DEF Expired, TypeOK
    <2>3. \A f \in Expired : f \in Born /\ born[f] + TTL < now
        BY DEF Expired, Live, Born
    <2> QED BY <1>1, <1>2, <2>2, <2>3 DEF Swept
<1> QED BY <1>1, <1>3, <1>4, <1>5, RateUntouched

LEMMA FinishCleanupSweepInv == ASSUME SweepInv, FinishCleanup PROVE SweepInv'
<1> USE ScheduleAssumption DEF SweepInv, FinishCleanup, eventVars, notifyVars
<1>1. Live' = Live \ doomed /\ Born' = Born
    BY DEF Live, Born, Swept, TypeOK
<1>2. /\ NextHour \in Nat /\ cleanupDue < NextHour /\ NextHour <= cleanupDue + CleanupInterval
      /\ NextHour <= midnight
    BY DEF NextHour, TypeOK, RunsOnTime
<1>3. TypeOK'
    <2>1. status' \in [Files -> {"none", "uploading", "stored", "failed", "removed", "gone"}]
        BY DEF TypeOK
    <2>2. cleanupDue' \in Nat /\ midnight' \in Nat /\ doomed' \subseteq Files
        BY <1>2 DEF TypeOK
    <2>3. cleaning' \in BOOLEAN
        OBVIOUS
    <2>4. UNCHANGED <<now, born, storedAt, emittedAt, warnings, notifyDue, notifying, expiring, purgeDue>>
        OBVIOUS
    <2> HIDE DEF FinishCleanup
    <2> QED BY <2>1, <2>2, <2>3, <2>4 DEF TypeOK
<1>4. RunsOnTime'
    BY <1>2 DEF RunsOnTime, TypeOK
<1>5. AgesAreTrue'
    BY <1>1 DEF AgesAreTrue, TypeOK
<1>6. Swept'
    <2>1. \A f \in Live \ doomed : born[f] \in Nat /\ cleanupDue <= born[f] + TTL
        BY DEF AgesAreTrue, Live, Born, Swept
    <2>2. \A f \in Live \ doomed : NextHour <= born[f] + TTL + CleanupInterval
        BY <1>2, <2>1 DEF TypeOK
    <2> QED BY <1>1, <2>2 DEF Swept
<1> QED BY <1>1, <1>3, <1>4, <1>5, <1>6, RateUntouched

\* One lemma for all steps.
LEMMA NextSweepInv == ASSUME SweepInv, [Next]_vars PROVE SweepInv'
<1>1. CASE UNCHANGED vars
    <2>1. Born' = Born /\ Live' = Live
        BY <1>1 DEF vars, fileVars, Born, Live
    <2>2. RateHeld'
        BY <1>1, <2>1, RateUntouched DEF SweepInv, vars, fileVars
    <2> QED BY <1>1, <2>1, <2>2
            DEF SweepInv, vars, fileVars, eventVars, notifyVars, cleanupVars, TypeOK, RunsOnTime,
                AgesAreTrue, Swept
<1> QED BY <1>1, TickSweepInv, UploadSweepInv, BeginUploadSweepInv, CompleteUploadSweepInv,
           LoseSweepInv, NotifySweepInv, StartCleanupSweepInv, FinishCleanupSweepInv DEF Next

-----------------------------------------------------------------------------
(* Files are announced before they are deleted *)

\* A step that stores no file, emits nothing and ends no run.
LEMMA NotifyUntouched ==
    ASSUME Notified, UNCHANGED <<born, storedAt, eventVars, notifyVars>>,
           \A f \in Files : status'[f] = "stored" => status[f] = "stored"
    PROVE  Notified'
BY DEF Notified, Ready, eventVars, notifyVars

\* A file stored now was not there when the notification read its files, and one
\* that is stored no more need not be announced.
LEMMA StoreNotifyInv ==
    ASSUME SweepInv, Notified, NEW f \in Files,
           \/ Upload(f) \/ BeginUpload(f) \/ CompleteUpload(f)
           \/ MarkFileFailed(f) \/ AdminDelete(f)
    PROVE  Notified'
<1> USE ScheduleAssumption DEF Upload, BeginUpload, CompleteUpload, MarkFileFailed, AdminDelete,
                               eventVars, notifyVars
<1>1. /\ \A g \in Files : g # f => /\ status'[g] = status[g]
                                   /\ born'[g] = born[g]
                                   /\ storedAt'[g] = storedAt[g]
      /\ UNCHANGED <<emittedAt, warnings, notifyDue, notifying, expiring>>
    BY DEF SweepInv, TypeOK
<1>2. \/ status'[f] # "stored"
      \/ status'[f] = "stored" /\ storedAt'[f] = now
    BY DEF SweepInv, TypeOK
<1> HIDE DEF Upload, BeginUpload, CompleteUpload, MarkFileFailed, AdminDelete
<1>3. ~Ready(f, notifyDue - NotifyPeriod)'
    BY <1>1, <1>2 DEF Ready, SweepInv, TypeOK, RunsOnTime
<1>4. ASSUME notifying PROVE ~Ready(f, notifyDue)'
    <2>1. notifyDue <= now /\ notifyDue \in Nat /\ now \in Nat
        BY <1>4 DEF SweepInv, TypeOK, RunsOnTime
    <2> QED BY <1>1, <1>2, <2>1 DEF Ready
<1>5. \A g \in Files : g # f => \A t : Ready(g, t)' = Ready(g, t)
    BY <1>1 DEF Ready
<1> QED BY <1>1, <1>3, <1>4, <1>5 DEF Notified, Ready

LEMMA StartNotifyNotifyInv == ASSUME SweepInv, Notified, StartNotify PROVE Notified'
<1> USE ScheduleAssumption DEF StartNotify, fileVars, eventVars
<1>1. ASSUME NEW f \in Files, Ready(f, notifyDue) PROVE f \in expiring'
    <2>1. born[f] \in Nat /\ f \in Stored
        BY <1>1 DEF SweepInv, AgesAreTrue, Ready, Stored, Born
    <2> QED BY <1>1, <2>1 DEF Ready, SweepInv, TypeOK
<1> QED BY <1>1 DEF Notified, Ready

LEMMA FinishNotifyNotifyInv == ASSUME SweepInv, Notified, FinishNotify PROVE Notified'
<1> USE ScheduleAssumption DEF FinishNotify, fileVars
<1>1. ASSUME NEW f \in Files
      PROVE  /\ warnings[f] > 0 => warnings'[f] > 0
             /\ f \in expiring => warnings'[f] > 0
             /\ emittedAt'[f] # Never => warnings'[f] > 0
    <2>1. warnings[f] \in 0 .. 2 /\ (emittedAt[f] # Never => warnings[f] > 0)
        BY DEF SweepInv, TypeOK, Notified
    <2>2. CASE f \in Unwarned
        <3>1. warnings'[f] = AtMostTwo(warnings[f])
            BY <2>2
        <3> QED BY <2>1, <3>1 DEF AtMostTwo
    <2>3. CASE f \notin Unwarned
        <3>1. warnings'[f] = warnings[f] /\ emittedAt'[f] = emittedAt[f]
            BY <2>3
        <3> QED BY <2>1, <2>3, <3>1 DEF Unwarned
    <2> QED BY <2>2, <2>3
<1>2. notifyDue' - NotifyPeriod = notifyDue
    BY DEF SweepInv, TypeOK
<1>3. ASSUME NEW f \in Files, Ready(f, notifyDue - NotifyPeriod)' PROVE warnings'[f] > 0
    <2>1. Ready(f, notifyDue)
        BY <1>2, <1>3 DEF Ready
    <2> QED BY <1>1, <2>1 DEF Notified
<1> QED BY <1>1, <1>3 DEF Notified

LEMMA PurgeNotifyInv == ASSUME SweepInv, Notified, Purge PROVE Notified'
<1> USE DEF Purge, fileVars, notifyVars
<1>1. \A f \in Files : emittedAt'[f] # Never => emittedAt[f] # Never
    BY DEF SweepInv, TypeOK
<1> QED BY <1>1 DEF Notified, Ready

LEMMA NextNotifyInv == ASSUME SweepInv, Notified, [Next]_vars PROVE Notified'
<1>1. CASE Tick \/ StartCleanup \/ UNCHANGED vars
    BY <1>1, NotifyUntouched DEF Tick, StartCleanup, vars, fileVars
<1>2. CASE FinishCleanup
    <2>1. \A f \in Files : status'[f] = "stored" => status[f] = "stored"
        BY <1>2 DEF FinishCleanup
    <2> QED BY <1>2, <2>1, NotifyUntouched DEF FinishCleanup
<1> QED BY <1>1, <1>2, StoreNotifyInv, StartNotifyNotifyInv, FinishNotifyNotifyInv,
           PurgeNotifyInv DEF Next

\* What the cleanup deletes late enough was within the window at the hour of the
\* last notification that has ended.
LEMMA DeletedWereWarnedStep ==
    ASSUME SweepInv, Notified, NEW f \in Files, status[f] = "stored",
           storedAt[f] + NotifyPeriod + Delay < now,
           born[f] + TTL + NotifyPeriod + Delay < now + NotifyWindow
    PROVE  warnings[f] > 0
<1>1. storedAt[f] \in Nat /\ born[f] \in Nat
    BY DEF SweepInv, AgesAreTrue, Born
<1>2. now <= notifyDue + Delay /\ now \in Nat /\ notifyDue \in Nat
    BY DEF SweepInv, TypeOK, RunsOnTime
<1>3. Ready(f, notifyDue - NotifyPeriod)
    BY <1>1, <1>2, ScheduleAssumption DEF Ready
<1> QED BY <1>3 DEF Notified

-----------------------------------------------------------------------------
(* Files are announced once *)

\* A step that emits and purges nothing and reads no files, while time may pass.
LEMMA RememberedUntouched ==
    ASSUME SweepInv, OnceInv, UNCHANGED <<eventVars, notifyVars>>, now' \in Nat, now <= now',
           \A f \in Files : f \in Born => born'[f] = born[f]
    PROVE  OnceInv'
<1> USE DEF OnceInv, eventVars, notifyVars
<1>1. \A f \in Files : /\ f \in Born => born[f] \in Nat
                       /\ f \notin Born => warnings[f] = 0 /\ emittedAt[f] = Never
                       /\ f \in expiring => f \in Born
    BY DEF SweepInv, AgesAreTrue
<1>2. Remembered'
    <2>1. ASSUME NEW f \in Files
          PROVE  /\ emittedAt[f] # Never => /\ born'[f] + TTL - NotifyWindow < emittedAt[f]
                                            /\ emittedAt[f] <= now'
                                            /\ warnings[f] > 0
                 /\ f \in expiring => /\ born'[f] + TTL - NotifyWindow < now'
                                      /\ notifyDue <= born'[f] + TTL + CleanupInterval + Delay
                 /\ warnings[f] > 0 /\ emittedAt[f] = Never =>
                        born'[f] + TTL + CleanupInterval + 2 * Delay < now'
        <3>1. CASE f \notin Born
            BY <1>1, <3>1
        <3>2. CASE f \in Born
            <4>1. born'[f] = born[f] /\ born[f] \in Nat
                BY <1>1, <3>2
            <4>2. emittedAt[f] \in Int
                BY DEF SweepInv, TypeOK, Never
            <4> QED BY <4>1, <4>2, ScheduleAssumption DEF Remembered, SweepInv, TypeOK
        <3> QED BY <3>1, <3>2
    <2>2. \A f \in expiring : f \in Files
        BY DEF SweepInv, TypeOK
    <2> QED BY <2>1, <2>2 DEF Remembered
<1>3. WarnedOnce'
    BY DEF WarnedOnce
<1> QED BY <1>2, <1>3

LEMMA StartNotifyOnceInv == ASSUME SweepInv, OnceInv, StartNotify PROVE OnceInv'
<1> USE DEF StartNotify, OnceInv, fileVars, eventVars
<1>1. ASSUME NEW f \in expiring'
      PROVE  /\ born[f] + TTL - NotifyWindow < now
             /\ notifyDue <= born[f] + TTL + CleanupInterval + Delay
    <2>1. f \in Live /\ f \in Born /\ f \in Files
        BY DEF Stored, Live, Born
    <2>2. now <= born[f] + TTL + CleanupInterval + Delay
        BY <2>1, SweptIsInTime
    <2>3. born[f] \in Nat /\ now \in Nat /\ notifyDue \in Nat
        BY <2>1 DEF SweepInv, AgesAreTrue, TypeOK
    <2> QED BY <2>2, <2>3, ScheduleAssumption
<1>2. Remembered'
    BY <1>1 DEF Remembered
<1> QED BY <1>2 DEF WarnedOnce

\* A file that is announced now was not announced before: the outbox would have
\* had to forget it, and it would be gone.
LEMMA FinishNotifyOnceInv == ASSUME SweepInv, OnceInv, FinishNotify PROVE OnceInv'
<1> USE ScheduleAssumption DEF FinishNotify, OnceInv, fileVars
<1>1. now \in Nat /\ notifyDue \in Nat /\ now <= notifyDue + Delay
    BY DEF SweepInv, TypeOK, RunsOnTime
<1>2. ASSUME NEW f \in Unwarned
      PROVE  f \in Files /\ warnings[f] = 0 /\ born[f] + TTL - NotifyWindow < now
    <2>1. f \in expiring /\ emittedAt[f] = Never /\ f \in Files /\ f \in Born
        BY DEF Unwarned, SweepInv, TypeOK, AgesAreTrue
    <2>2. born[f] \in Nat /\ warnings[f] \in 0 .. 2
        BY <2>1 DEF SweepInv, TypeOK, AgesAreTrue
    <2>3. /\ born[f] + TTL - NotifyWindow < now
          /\ notifyDue <= born[f] + TTL + CleanupInterval + Delay
        BY <2>1 DEF Remembered
    <2>4. ~(born[f] + TTL + CleanupInterval + 2 * Delay < now)
        BY <1>1, <2>2, <2>3
    <2>5. ~(warnings[f] > 0)
        BY <2>1, <2>4 DEF Remembered
    <2> QED BY <2>1, <2>2, <2>3, <2>5
<1>3. ASSUME NEW f \in Unwarned PROVE warnings'[f] = 1 /\ emittedAt'[f] = now
    BY <1>2, <1>3 DEF AtMostTwo
<1>4. ASSUME NEW f \in Files, f \notin Unwarned
      PROVE  warnings'[f] = warnings[f] /\ emittedAt'[f] = emittedAt[f]
    BY <1>4
<1>5. Remembered'
    <2> HIDE DEF FinishNotify
    <2>1. expiring' = {} /\ UNCHANGED <<now, born>>
        BY DEF FinishNotify
    <2> SUFFICES ASSUME NEW f \in Files
                 PROVE  /\ emittedAt'[f] # Never => /\ born[f] + TTL - NotifyWindow < emittedAt'[f]
                                                    /\ emittedAt'[f] <= now
                                                    /\ warnings'[f] > 0
                        /\ warnings'[f] > 0 /\ emittedAt'[f] = Never =>
                               born[f] + TTL + CleanupInterval + 2 * Delay < now
        BY <2>1 DEF Remembered
    <2>2. CASE f \in Unwarned
        BY <1>1, <1>2, <1>3, <2>2 DEF Never
    <2>3. CASE f \notin Unwarned
        BY <1>4, <2>3 DEF Remembered
    <2> QED BY <2>2, <2>3
<1>6. WarnedOnce'
    BY <1>3, <1>4 DEF WarnedOnce
<1> QED BY <1>5, <1>6

\* Where the memory matters: when the outbox forgets, the last notification that
\* could have read the file is over.
LEMMA PurgeOnceInv == ASSUME SweepInv, OnceInv, MemoryIsLong, Purge PROVE OnceInv'
<1> USE ScheduleAssumption DEF Purge, OnceInv, fileVars, notifyVars
<1>1. PICK terminal \in SUBSET Purgeable :
        emittedAt' = [f \in Files |-> IF f \in terminal THEN Never ELSE emittedAt[f]]
    OBVIOUS
<1>2. ASSUME NEW f \in terminal PROVE born[f] + TTL + CleanupInterval + 2 * Delay < now
    <2>1. f \in Files /\ emittedAt[f] # Never /\ emittedAt[f] + Retention < now
        BY DEF Purgeable
    <2>2. born[f] \in Nat
        BY <2>1 DEF SweepInv, AgesAreTrue
    <2>3. emittedAt[f] \in Nat /\ now \in Nat
        BY <2>1 DEF SweepInv, TypeOK
    <2>4. born[f] + TTL - NotifyWindow < emittedAt[f]
        BY <2>1 DEF Remembered
    <2> QED BY <2>1, <2>2, <2>3, <2>4 DEF MemoryIsLong
<1>3. Remembered'
    <2>1. UNCHANGED <<now, born, warnings, expiring, notifyDue>>
        OBVIOUS
    <2> HIDE DEF Purge
    <2> QED BY <1>1, <1>2, <2>1 DEF Remembered
<1> QED BY <1>3 DEF WarnedOnce

LEMMA NextOnceInv == ASSUME SweepInv, OnceInv, MemoryIsLong, [Next]_vars PROVE OnceInv'
<1>1. CASE StartCleanup \/ FinishCleanup \/ UNCHANGED vars
    BY <1>1, RememberedUntouched
       DEF StartCleanup, FinishCleanup, vars, fileVars, SweepInv, TypeOK
<1>2. CASE Tick
    BY <1>2, RememberedUntouched DEF Tick, fileVars, SweepInv, TypeOK
<1>3. ASSUME NEW f \in Files, \/ Upload(f) \/ BeginUpload(f) \/ CompleteUpload(f)
                                \/ MarkFileFailed(f) \/ AdminDelete(f) PROVE OnceInv'
    <2>1. \A g \in Files : g \in Born => born'[g] = born[g]
        BY <1>3 DEF Upload, BeginUpload, CompleteUpload, MarkFileFailed, AdminDelete, IsNewest, SweepInv, TypeOK
    <2>2. now' = now /\ now \in Nat
        BY <1>3 DEF Upload, BeginUpload, CompleteUpload, MarkFileFailed, AdminDelete, SweepInv, TypeOK
    <2> QED BY <1>3, <2>1, <2>2, RememberedUntouched DEF Upload, BeginUpload, CompleteUpload, MarkFileFailed, AdminDelete
<1> QED BY <1>1, <1>2, <1>3, StartNotifyOnceInv, FinishNotifyOnceInv, PurgeOnceInv DEF Next

-----------------------------------------------------------------------------
(* The theorems *)

LEMMA NextIInv == IInv /\ [Next]_vars => IInv'
<1> SUFFICES ASSUME IInv, [Next]_vars PROVE IInv'
    OBVIOUS
<1>1. SweepInv'
    BY NextSweepInv DEF IInv
<1>2. MemoryIsLong' = MemoryIsLong
    BY DEF MemoryIsLong
<1>3. Notified'
    BY NextNotifyInv DEF IInv
<1>4. MemoryIsLong => OnceInv'
    BY NextOnceInv DEF IInv
<1> QED BY <1>1, <1>2, <1>3, <1>4 DEF IInv

\* The inductive invariant holds in every behaviour of the schedule.
THEOREM ScheduleInvariant == Spec => []IInv
BY InitIInv, NextIInv, PTL DEF Spec

\* Whatever the settings, the cleanup keeps up with the uploads: no file outlives
\* its TTL by more than an interval and a delay.
THEOREM ScheduleDeletedInTime == Spec => []DeletedInTime
<1>1. IInv => DeletedInTime
    BY SweptIsInTime DEF IInv, DeletedInTime
<1> QED BY <1>1, ScheduleInvariant, PTL

\* Whatever the settings, a stored file that the cleanup deletes was announced, if
\* it was stored for a period and a delay and has outlived its expiry by what the
\* window lacks to a period and a delay.
THEOREM ScheduleDeletedWereWarned == Spec => DeletedWereWarned
<1>1. IInv /\ [Next]_vars =>
        [\A f \in Files :
            /\ status[f] = "stored" /\ status'[f] = "gone"
            /\ storedAt[f] + NotifyPeriod + Delay < now
            /\ born[f] + TTL + NotifyPeriod + Delay < now + NotifyWindow
            => warnings[f] > 0]_vars
    BY DeletedWereWarnedStep DEF IInv
<1> QED BY <1>1, ScheduleInvariant, PTL DEF Spec, DeletedWereWarned

\* An outbox that remembers for the window, an interval and two delays is enough
\* for no file to be announced twice.
THEOREM ScheduleWarnedOnce ==
    ASSUME MemoryIsLong
    PROVE  Spec => []WarnedOnce
<1>1. IInv => WarnedOnce
    BY DEF IInv, OnceInv
<1> QED BY <1>1, ScheduleInvariant, PTL
=============================================================================
