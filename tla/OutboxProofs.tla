---------------------------- MODULE OutboxProofs ----------------------------
(***************************************************************************)
(* What Outbox promises for any number of events, workers and endpoints    *)
(* and for every value of the other constants.  The argument is the        *)
(* inductive invariant IInv of Outbox, one lemma per action.               *)
(***************************************************************************)
EXTENDS Outbox, TLAPS

-----------------------------------------------------------------------------
(* Rows and slices *)

\* A slice of a queryset holds rows of the queryset (phase 1 and the cleanup).
LEMMA SliceIsSubset ==
    ASSUME NEW D, NEW n
    PROVE  Newest(D, n) \subseteq D /\ Oldest(D, n) \subseteq D
BY DEF Newest, Oldest

\* Phase 3 turns a pending copy into a well-formed row with one more attempt.
LEMMA AfterAttemptIsConsistent ==
    ASSUME NEW r \in Row, r.status = "pending", r.nextAttemptAt = "due",
           r.deliveredAt = "null", r.attempts < MaxAttempts,
           NEW verdict \in {"ok", "error"}, NEW s, s = AfterAttempt(r, verdict)
    PROVE  /\ s \in Row
           /\ s.attempts = r.attempts + 1
           /\ s.status \in {"pending", "delivered", "failed"}
           /\ s.status = "delivered" <=> verdict = "ok"
           /\ s.deliveredAt = "set" <=> s.status = "delivered"
           /\ s.status = "pending" <=> s.nextAttemptAt # "null"
           /\ s.status = "pending" => s.attempts < MaxAttempts
           /\ s.status = "failed" => s.attempts = MaxAttempts
<1>1. r.attempts \in Nat /\ MaxAttempts \in Nat
    BY CountsAssumption DEF Row
<1>2. CASE verdict = "ok"
    <2>1. s = [status |-> "delivered", attempts |-> r.attempts + 1,
               nextAttemptAt |-> "null", deliveredAt |-> "set"]
        BY <1>2 DEF AfterAttempt
    <2> QED BY <1>1, <1>2, <2>1 DEF Row
<1>3. CASE verdict # "ok" /\ r.attempts + 1 >= MaxAttempts
    <2>1. s = [status |-> "failed", attempts |-> r.attempts + 1,
               nextAttemptAt |-> "null", deliveredAt |-> "null"]
        BY <1>3 DEF AfterAttempt, Row
    <2> QED BY <1>1, <1>3, <2>1 DEF Row
<1>4. CASE verdict # "ok" /\ ~(r.attempts + 1 >= MaxAttempts)
    <2>1. s = [status |-> "pending", attempts |-> r.attempts + 1,
               nextAttemptAt |-> "later", deliveredAt |-> "null"]
        BY <1>4 DEF AfterAttempt, Row
    <2> QED BY <1>1, <1>4, <2>1 DEF Row
<1> QED BY <1>2, <1>3, <1>4

-----------------------------------------------------------------------------
(* The initial state *)

LEMMA InitIInv == Init => IInv
<1> SUFFICES ASSUME Init PROVE IInv
    OBVIOUS
<1> USE CountsAssumption, DataAssumption DEF Init, NoBatch, NoResults, NoConfigs
<1>1. TypeOK
    BY DEF TypeOK, Row, NoRow, Events
<1>2. RowConsistent /\ AtLeastOnce /\ AttemptsAreFailures /\ NoSilentLoss
    BY DEF RowConsistent, AtLeastOnce, AttemptsAreFailures, NoSilentLoss, IsPending, NoRow
<1>3. UnissuedAbsent /\ CopiesWerePending /\ VerdictsAreTrue
    BY DEF UnissuedAbsent, CopiesWerePending, VerdictsAreTrue
<1>4. OwedAreSubscribed /\ LoadedCoverOwed /\ DoomedAreSettled
    BY DEF OwedAreSubscribed, LoadedCoverOwed, DoomedAreSettled
<1> QED BY <1>1, <1>2, <1>3, <1>4 DEF IInv

-----------------------------------------------------------------------------
(* Emission *)

LEMMA EmitIInv == ASSUME IInv, NEW e \in Events, Emit(e) PROVE IInv'
<1> USE CountsAssumption, DataAssumption DEF Emit, IInv, workerVars
<1>1. TypeOK'
    BY DEF TypeOK, Row, NewRow, Enqueued, Subscribed
<1>2. RowConsistent' /\ AtLeastOnce' /\ AttemptsAreFailures'
    BY DEF TypeOK, RowConsistent, AtLeastOnce, AttemptsAreFailures, IsPending, NewRow
<1>3. NoSilentLoss' /\ UnissuedAbsent'
    BY DEF TypeOK, NoSilentLoss, UnissuedAbsent, IsLive, NewRow
<1>4. CopiesWerePending'
    BY DEF CopiesWerePending
<1>5. VerdictsAreTrue'
    BY DEF TypeOK, VerdictsAreTrue, CopiesWerePending
<1>6. OwedAreSubscribed'
    BY DEF TypeOK, OwedAreSubscribed, Subscribed
<1>7. LoadedCoverOwed'
    BY DEF TypeOK, LoadedCoverOwed, CopiesWerePending, Matching
<1>8. DoomedAreSettled'
    BY DEF TypeOK, DoomedAreSettled, Settled
<1> QED BY <1>1, <1>2, <1>3, <1>4, <1>5, <1>6, <1>7, <1>8 DEF IInv

-----------------------------------------------------------------------------
(* The steps that touch neither rows nor the workers' copies of them *)

LEMMA SweepIInv == ASSUME IInv, Sweep PROVE IInv'
<1> USE DEF Sweep, IInv, workerVars, historyVars
<1>1. TypeOK'
    BY CountsAssumption DEF TypeOK, Enqueued
<1>2. RowConsistent' /\ AtLeastOnce' /\ AttemptsAreFailures' /\ NoSilentLoss' /\ UnissuedAbsent'
    BY DEF RowConsistent, AtLeastOnce, AttemptsAreFailures, NoSilentLoss, UnissuedAbsent,
           IsPending, IsLive
<1>3. CopiesWerePending' /\ VerdictsAreTrue' /\ OwedAreSubscribed'
    BY DEF CopiesWerePending, VerdictsAreTrue, OwedAreSubscribed, Subscribed
<1>4. LoadedCoverOwed' /\ DoomedAreSettled'
    BY DEF LoadedCoverOwed, Matching, DoomedAreSettled, Settled
<1> QED BY <1>1, <1>2, <1>3, <1>4 DEF IInv

LEMMA RunEmptyIInv == ASSUME IInv, NEW w \in Workers, RunEmpty(w) PROVE IInv'
<1> USE DEF RunEmpty, IInv, workerVars, historyVars
<1>1. TypeOK'
    BY CountsAssumption DEF TypeOK
<1>2. RowConsistent' /\ AtLeastOnce' /\ AttemptsAreFailures' /\ NoSilentLoss' /\ UnissuedAbsent'
    BY DEF RowConsistent, AtLeastOnce, AttemptsAreFailures, NoSilentLoss, UnissuedAbsent,
           IsPending, IsLive
<1>3. CopiesWerePending' /\ VerdictsAreTrue' /\ OwedAreSubscribed'
    BY DEF CopiesWerePending, VerdictsAreTrue, OwedAreSubscribed, Subscribed
<1>4. LoadedCoverOwed' /\ DoomedAreSettled'
    BY DEF LoadedCoverOwed, Matching, DoomedAreSettled, Settled
<1> QED BY <1>1, <1>2, <1>3, <1>4 DEF IInv

LEMMA RetentionElapsesIInv == ASSUME IInv, RetentionElapses PROVE IInv'
<1> USE DEF RetentionElapses, IInv, workerVars, historyVars
<1>1. TypeOK'
    BY CountsAssumption DEF TypeOK
<1>2. RowConsistent' /\ AtLeastOnce' /\ AttemptsAreFailures' /\ NoSilentLoss' /\ UnissuedAbsent'
    BY DEF RowConsistent, AtLeastOnce, AttemptsAreFailures, NoSilentLoss, UnissuedAbsent,
           IsPending, IsLive
<1>3. CopiesWerePending' /\ VerdictsAreTrue' /\ OwedAreSubscribed'
    BY DEF CopiesWerePending, VerdictsAreTrue, OwedAreSubscribed, Subscribed
<1>4. LoadedCoverOwed' /\ DoomedAreSettled'
    BY DEF LoadedCoverOwed, Matching, DoomedAreSettled, Settled
<1> QED BY <1>1, <1>2, <1>3, <1>4 DEF IInv

\* An edited endpoint drops out of owed unless it still matches.
LEMMA EditEndpointIInv ==
    ASSUME IInv, NEW p \in Endpoints, NEW c \in Configs, EditEndpoint(p, c) PROVE IInv'
<1> USE DEF EditEndpoint, IInv, workerVars
<1>1. TypeOK'
    BY DEF TypeOK
<1>2. /\ \A e \in Events : owed'[e] \subseteq owed[e]
      /\ \A e \in Events : p \in owed'[e] => Matches(c, e)
    BY DEF TypeOK
<1>3. RowConsistent' /\ AtLeastOnce' /\ AttemptsAreFailures'
    BY <1>2 DEF RowConsistent, AtLeastOnce, AttemptsAreFailures, IsPending
<1>4. NoSilentLoss' /\ UnissuedAbsent'
    BY <1>2 DEF TypeOK, NoSilentLoss, UnissuedAbsent, IsLive
<1>5. CopiesWerePending' /\ VerdictsAreTrue'
    BY <1>2 DEF CopiesWerePending, VerdictsAreTrue
<1>6. OwedAreSubscribed'
    BY <1>2 DEF TypeOK, OwedAreSubscribed, Subscribed
<1>7. LoadedCoverOwed'
    BY <1>2 DEF LoadedCoverOwed, Matching
<1>8. DoomedAreSettled'
    BY <1>2 DEF TypeOK, DoomedAreSettled, Settled
<1> QED BY <1>1, <1>3, <1>4, <1>5, <1>6, <1>7, <1>8 DEF IInv

-----------------------------------------------------------------------------
(* Phases 1 and 2 of a delivery run *)

LEMMA FetchIInv == ASSUME IInv, NEW w \in Workers, Fetch(w) PROVE IInv'
<1> DEFINE batch == Newest(Due \ Locked, BatchSize)
<1> USE DEF IInv, historyVars
<1>1. /\ pc[w] = "idle" /\ tasks > 0 /\ tasks' = tasks - 1
      /\ pc' = [pc EXCEPT ![w] = "fetched"]
      /\ snap' = [snap EXCEPT ![w] = [e \in Events |-> IF e \in batch THEN outbox[e] ELSE NoRow]]
      /\ UNCHANGED <<outbox, issued, cutoff, endpoints, loaded, results, doomed, historyVars>>
    BY DEF Fetch
<1>2. \A e \in batch : e \in Events /\ IsPending(e) /\ outbox[e].nextAttemptAt = "due"
    BY SliceIsSubset DEF Due
<1> HIDE DEF batch
<1>3. TypeOK'
    BY <1>1, CountsAssumption DEF TypeOK, Row, NoRow
<1>4. RowConsistent' /\ AtLeastOnce' /\ AttemptsAreFailures' /\ NoSilentLoss' /\ UnissuedAbsent'
    BY <1>1 DEF RowConsistent, AtLeastOnce, AttemptsAreFailures, NoSilentLoss, UnissuedAbsent,
                IsPending, IsLive
<1>5. CopiesWerePending'
    <2> SUFFICES ASSUME NEW v \in Workers, NEW e \in Events, snap'[v][e] # NoRow
                 PROVE  /\ e \in issued
                        /\ snap'[v][e].status = "pending"
                        /\ snap'[v][e].nextAttemptAt = "due"
                        /\ snap'[v][e].deliveredAt = "null"
                        /\ snap'[v][e].attempts < MaxAttempts
                        /\ snap'[v][e].attempts <= failures[e]
        BY <1>1 DEF CopiesWerePending
    <2>1. CASE v # w
        BY <1>1, <2>1 DEF TypeOK, CopiesWerePending
    <2>2. CASE v = w
        <3>1. e \in batch /\ snap'[v][e] = outbox[e]
            BY <1>1, <2>2 DEF TypeOK
        <3>2. e \in issued
            BY <1>2, <3>1 DEF UnissuedAbsent, IsPending, NoRow
        <3>3. outbox[e].deliveredAt = "null"
            BY <1>2, <3>1 DEF TypeOK, Row, RowConsistent, IsPending
        <3> QED BY <1>2, <3>1, <3>2, <3>3 DEF RowConsistent, AttemptsAreFailures, IsPending
    <2> QED BY <2>1, <2>2
<1>6. results'[w] = results[w] /\ \A e \in Events : results[w][e] = "none"
    BY <1>1 DEF TypeOK, VerdictsAreTrue
<1>7. VerdictsAreTrue'
    BY <1>1, <1>6 DEF TypeOK, VerdictsAreTrue
<1>8. OwedAreSubscribed' /\ DoomedAreSettled'
    BY <1>1 DEF OwedAreSubscribed, Subscribed, DoomedAreSettled, Settled
<1>9. LoadedCoverOwed'
    BY <1>1 DEF TypeOK, LoadedCoverOwed, Matching
<1> QED BY <1>3, <1>4, <1>5, <1>7, <1>8, <1>9 DEF IInv

\* The endpoints loaded after the fetch cover what is owed: the events of the
\* batch were committed before.
LEMMA LoadEndpointsIInv == ASSUME IInv, NEW w \in Workers, LoadEndpoints(w) PROVE IInv'
<1> USE DEF LoadEndpoints, IInv, historyVars
<1>1. TypeOK'
    BY DEF TypeOK
<1>2. RowConsistent' /\ AtLeastOnce' /\ AttemptsAreFailures' /\ NoSilentLoss' /\ UnissuedAbsent'
    BY DEF RowConsistent, AtLeastOnce, AttemptsAreFailures, NoSilentLoss, UnissuedAbsent,
           IsPending, IsLive
<1>3. CopiesWerePending' /\ OwedAreSubscribed' /\ DoomedAreSettled'
    BY DEF CopiesWerePending, OwedAreSubscribed, Subscribed, DoomedAreSettled, Settled
<1>4. VerdictsAreTrue'
    BY DEF TypeOK, VerdictsAreTrue
<1>5. LoadedCoverOwed'
    BY DEF TypeOK, LoadedCoverOwed, Matching, OwedAreSubscribed, Subscribed
<1> QED BY <1>1, <1>2, <1>3, <1>4, <1>5 DEF IInv

\* One turn of the phase 2 loop: an "ok" verdict covers every loaded endpoint
\* that matches, hence what is owed; an "error" verdict is a counted failure.
LEMMA DeliverEventIInv ==
    ASSUME IInv, NEW w \in Workers, NEW e \in Events, DeliverEvent(w, e) PROVE IInv'
<1> USE DEF IInv
<1>1. PICK ok \in SUBSET Matching(w, e) :
        /\ acked' = [acked EXCEPT ![e] = @ \cup ok]
        /\ results' = [results EXCEPT ![w][e] = IF AllOk(w, e, ok) THEN "ok" ELSE "error"]
        /\ failures' = [failures EXCEPT ![e] = IF AllOk(w, e, ok) THEN @ ELSE CountedFailure(e)]
    BY DEF DeliverEvent
<1>2. /\ pc[w] = "delivering"
      /\ snap[w][e] # NoRow
      /\ pc' = [pc EXCEPT ![w] = IF Remaining(w) = {e} THEN "saving" ELSE "delivering"]
      /\ UNCHANGED <<outbox, issued, cutoff, endpoints, tasks, snap, loaded, doomed, owed>>
    BY DEF DeliverEvent, IsNext, Remaining
<1>3. Matching(w, e) \subseteq Endpoints
    BY DEF Matching
<1>4. failures[e] \in Nat /\ failures'[e] \in Nat /\ failures[e] <= failures'[e]
      /\ failures'[e] <= MaxAttempts /\ CountedFailure(e) \in 0 .. MaxAttempts
    BY <1>1, CountsAssumption DEF TypeOK, CountedFailure
<1>5. \A d \in Events : acked[d] \subseteq acked'[d]
    BY <1>1 DEF TypeOK
<1>6. TypeOK'
    BY <1>1, <1>2, <1>3, <1>4 DEF TypeOK
<1>7. \A d \in Events : /\ failures[d] \in Nat /\ failures'[d] \in Nat
                        /\ failures[d] <= failures'[d] /\ failures'[d] <= MaxAttempts
    <2> TAKE d \in Events
    <2>1. CASE d = e
        BY <1>4, <2>1
    <2>2. CASE d # e
        BY <1>1, <2>2, CountsAssumption DEF TypeOK
    <2> QED BY <2>1, <2>2
<1>8. \A d \in Events : outbox[d].attempts \in Nat /\ \A v \in Workers : snap[v][d].attempts \in Nat
    BY DEF TypeOK, Row
<1>9. RowConsistent' /\ UnissuedAbsent' /\ OwedAreSubscribed'
    BY <1>2 DEF RowConsistent, UnissuedAbsent, OwedAreSubscribed, Subscribed, IsPending
<1>10. AtLeastOnce'
    BY <1>2, <1>5 DEF AtLeastOnce
<1>11. AttemptsAreFailures'
    <2> SUFFICES ASSUME NEW d \in Events, outbox[d].status \in {"pending", "failed"}
                 PROVE  outbox[d].attempts <= failures'[d]
        BY <1>2 DEF AttemptsAreFailures
    <2>1. outbox[d].attempts <= failures[d]
        BY DEF AttemptsAreFailures
    <2> QED BY <1>7, <1>8, <2>1
<1>12. \A d \in Events : Settled(d) => Settled(d)'
    <2> SUFFICES ASSUME NEW d \in Events, Settled(d) PROVE Settled(d)'
        OBVIOUS
    <2>1. failures[d] = MaxAttempts => failures'[d] = MaxAttempts
        BY <1>7, CountsAssumption
    <2> QED BY <1>2, <1>5, <2>1 DEF Settled
<1>13. NoSilentLoss' /\ DoomedAreSettled'
    BY <1>2, <1>12 DEF TypeOK, NoSilentLoss, DoomedAreSettled, Settled, IsLive
<1>14. CopiesWerePending'
    <2> SUFFICES ASSUME NEW v \in Workers, NEW d \in Events, snap[v][d] # NoRow
                 PROVE  snap[v][d].attempts <= failures'[d]
        BY <1>2 DEF CopiesWerePending
    <2>1. snap[v][d].attempts <= failures[d]
        BY DEF CopiesWerePending
    <2> QED BY <1>7, <1>8, <2>1
<1>15. VerdictsAreTrue'
    <2> SUFFICES ASSUME NEW v \in Workers, NEW d \in Events
                 PROVE  /\ results'[v][d] # "none" => /\ pc'[v] \in {"delivering", "saving"}
                                                     /\ snap[v][d] # NoRow
                        /\ results'[v][d] = "ok" => owed[d] \subseteq acked'[d]
                        /\ results'[v][d] = "error" => snap[v][d].attempts < failures'[d]
        BY <1>2 DEF VerdictsAreTrue
    <2>1. CASE v = w /\ d = e
        <3>1. results'[w][e] = IF AllOk(w, e, ok) THEN "ok" ELSE "error"
            BY <1>1 DEF TypeOK
        <3>2. pc'[w] \in {"delivering", "saving"}
            BY <1>2 DEF TypeOK
        <3>3. AllOk(w, e, ok) => owed[e] \subseteq acked'[e]
            BY <1>1, <1>2 DEF TypeOK, AllOk, LoadedCoverOwed
        <3>4. ~AllOk(w, e, ok) => snap[w][e].attempts < failures'[e]
            <4>1. snap[w][e].attempts < MaxAttempts /\ snap[w][e].attempts <= failures[e]
                BY <1>2 DEF CopiesWerePending
            <4>2. snap[w][e].attempts \in Nat
                BY DEF TypeOK, Row
            <4>3. ~AllOk(w, e, ok) => failures'[e] = CountedFailure(e)
                BY <1>1 DEF TypeOK
            <4> QED BY <1>4, <4>1, <4>2, <4>3, CountsAssumption DEF CountedFailure
        <3> QED BY <1>2, <2>1, <3>1, <3>2, <3>3, <3>4
    <2>2. CASE ~(v = w /\ d = e)
        <3>1. results'[v][d] = results[v][d]
            BY <1>1, <2>2 DEF TypeOK
        <3>2. pc[v] \in {"delivering", "saving"} => pc'[v] \in {"delivering", "saving"}
            BY <1>2 DEF TypeOK
        <3>3. results[v][d] = "error" => snap[v][d].attempts < failures'[d]
            <4>1. results[v][d] = "error" => snap[v][d].attempts < failures[d]
                BY DEF VerdictsAreTrue
            <4> QED BY <1>7, <1>8, <4>1
        <3> QED BY <1>5, <3>1, <3>2, <3>3 DEF VerdictsAreTrue
    <2> QED BY <2>1, <2>2
<1>16. LoadedCoverOwed'
    BY <1>2 DEF TypeOK, LoadedCoverOwed, Matching
<1> QED BY <1>6, <1>9, <1>10, <1>11, <1>13, <1>14, <1>15, <1>16 DEF IInv

\* An interrupted phase 2 adds acknowledgements and takes none back.
LEMMA InterruptedAcks ==
    ASSUME TypeOK, NEW w \in Workers, Interrupted(w)
    PROVE  /\ acked' \in [Events -> SUBSET Endpoints]
           /\ \A d \in Events : acked[d] \subseteq acked'[d]
<1>1. PICK e \in Events : /\ IsNext(w, e)
                          /\ \E ok \in SUBSET Matching(w, e) : acked' = [acked EXCEPT ![e] = @ \cup ok]
    BY DEF Interrupted
<1> QED BY <1>1 DEF TypeOK, Matching

LEMMA SoftTimeLimitIInv == ASSUME IInv, NEW w \in Workers, SoftTimeLimit(w) PROVE IInv'
<1> USE DEF IInv, SoftTimeLimit
<1>1. /\ acked' \in [Events -> SUBSET Endpoints]
      /\ \A d \in Events : acked[d] \subseteq acked'[d]
    BY InterruptedAcks
<1>2. TypeOK'
    BY <1>1 DEF TypeOK
<1>3. RowConsistent' /\ AttemptsAreFailures' /\ UnissuedAbsent' /\ OwedAreSubscribed'
    BY DEF RowConsistent, AttemptsAreFailures, UnissuedAbsent, OwedAreSubscribed, Subscribed,
           IsPending
<1>4. AtLeastOnce'
    BY <1>1 DEF AtLeastOnce
<1>5. NoSilentLoss' /\ DoomedAreSettled'
    BY <1>1 DEF TypeOK, NoSilentLoss, DoomedAreSettled, Settled, IsLive
<1>6. CopiesWerePending'
    BY DEF CopiesWerePending
<1>7. VerdictsAreTrue'
    BY <1>1 DEF TypeOK, VerdictsAreTrue
<1>8. LoadedCoverOwed'
    BY DEF TypeOK, LoadedCoverOwed, Matching
<1> QED BY <1>2, <1>3, <1>4, <1>5, <1>6, <1>7, <1>8 DEF IInv

-----------------------------------------------------------------------------
(* The end of a delivery run *)

\* A worker that forgets its batch leaves the others as they were.
LEMMA ForgetWorker ==
    ASSUME IInv, NEW w \in Workers, Forget(w)
    PROVE  /\ pc' \in [Workers -> {"idle", "fetched", "delivering", "saving"}]
           /\ snap' \in [Workers -> [Events -> Row]]
           /\ loaded' \in [Workers -> [Endpoints -> Configs]]
           /\ results' \in [Workers -> [Events -> {"none", "ok", "error"}]]
           /\ pc'[w] = "idle" /\ snap'[w] = NoBatch /\ results'[w] = NoResults
           /\ \A v \in Workers : v # w => /\ pc'[v] = pc[v] /\ snap'[v] = snap[v]
                                         /\ loaded'[v] = loaded[v] /\ results'[v] = results[v]
<1> NoRow \in Row
    BY CountsAssumption DEF Row, NoRow
<1> QED BY DataAssumption DEF IInv, TypeOK, Forget, NoBatch, NoResults, NoConfigs

\* What follows for the workers' part of the invariant when rows may change
\* but acknowledgements and failures are not taken back.
LEMMA ForgetKeepsWorkers ==
    ASSUME IInv, NEW w \in Workers, Forget(w), UNCHANGED <<issued, endpoints, owed, failures>>,
           \A d \in Events : acked[d] \subseteq acked'[d]
    PROVE  CopiesWerePending' /\ VerdictsAreTrue' /\ LoadedCoverOwed' /\ OwedAreSubscribed'
<1> DEFINE Others == \A v \in Workers : v # w => /\ pc'[v] = pc[v] /\ snap'[v] = snap[v]
                                               /\ loaded'[v] = loaded[v] /\ results'[v] = results[v]
<1>1. pc'[w] = "idle" /\ snap'[w] = NoBatch /\ results'[w] = NoResults /\ Others
    BY ForgetWorker
<1>2. \A e \in Events : snap'[w][e] = NoRow /\ results'[w][e] = "none"
    BY <1>1 DEF NoBatch, NoResults
<1>3. CopiesWerePending'
    BY <1>1, <1>2 DEF IInv, CopiesWerePending
<1>4. VerdictsAreTrue'
    BY <1>1, <1>2 DEF IInv, VerdictsAreTrue
<1>5. LoadedCoverOwed'
    BY <1>1, <1>2 DEF IInv, LoadedCoverOwed, Matching
<1>6. OwedAreSubscribed'
    BY DEF IInv, OwedAreSubscribed, Subscribed
<1> QED BY <1>3, <1>4, <1>5, <1>6

\* Rows are written from the copies, and an honest verdict on an honest copy
\* keeps the table consistent whatever the row was before.
LEMMA SaveResultsIInv == ASSUME IInv, NEW w \in Workers, SaveResults(w) PROVE IInv'
<1>1. /\ \A e \in Processed(w) : IsLive(e)
      /\ outbox' = [e \in Events |-> IF e \in Processed(w)
                                     THEN AfterAttempt(snap[w][e], results[w][e])
                                     ELSE outbox[e]]
      /\ Forget(w)
      /\ UNCHANGED <<issued, cutoff, endpoints, tasks, doomed, owed, acked, failures>>
    BY DEF SaveResults, historyVars
<1>2. \A e \in Processed(w) :
        /\ e \in Events /\ e \in issued /\ results[w][e] \in {"ok", "error"}
        /\ snap[w][e] \in Row /\ snap[w][e].status = "pending"
        /\ snap[w][e].nextAttemptAt = "due" /\ snap[w][e].deliveredAt = "null"
        /\ snap[w][e].attempts < MaxAttempts
    BY DEF IInv, TypeOK, Processed, CopiesWerePending, VerdictsAreTrue
<1>3. \A e \in Processed(w) :
        /\ outbox'[e] \in Row
        /\ outbox'[e].attempts = snap[w][e].attempts + 1
        /\ outbox'[e].status \in {"pending", "delivered", "failed"}
        /\ outbox'[e].status = "delivered" <=> results[w][e] = "ok"
        /\ outbox'[e].deliveredAt = "set" <=> outbox'[e].status = "delivered"
        /\ outbox'[e].status = "pending" <=> outbox'[e].nextAttemptAt # "null"
        /\ outbox'[e].status = "pending" => outbox'[e].attempts < MaxAttempts
        /\ outbox'[e].status = "failed" => outbox'[e].attempts = MaxAttempts
    <2> TAKE e \in Processed(w)
    <2>1. outbox'[e] = AfterAttempt(snap[w][e], results[w][e])
        BY <1>1, <1>2
    <2> QED BY <1>2, <2>1, AfterAttemptIsConsistent
<1>4. \A e \in Events : e \notin Processed(w) => outbox'[e] = outbox[e]
    BY <1>1
<1>5. TypeOK'
    <2>1. outbox' \in [Events -> Row]
        BY <1>1, <1>3, <1>4 DEF IInv, TypeOK
    <2> QED BY <1>1, <2>1, ForgetWorker DEF IInv, TypeOK
<1>6. RowConsistent'
    BY <1>3, <1>4 DEF IInv, RowConsistent, IsPending
<1>7. AtLeastOnce'
    BY <1>1, <1>3, <1>4 DEF IInv, AtLeastOnce, VerdictsAreTrue
<1>8. AttemptsAreFailures'
    <2> SUFFICES ASSUME NEW e \in Events, outbox'[e].status \in {"pending", "failed"}
                 PROVE  outbox'[e].attempts <= failures[e]
        BY <1>1 DEF AttemptsAreFailures
    <2>1. CASE e \in Processed(w)
        <3>1. results[w][e] = "error" /\ outbox'[e].attempts = snap[w][e].attempts + 1
            BY <1>2, <1>3, <2>1
        <3>2. snap[w][e].attempts < failures[e]
            BY <3>1 DEF IInv, VerdictsAreTrue
        <3>3. snap[w][e].attempts \in Nat /\ failures[e] \in Nat
            BY CountsAssumption DEF IInv, TypeOK, Row
        <3> QED BY <3>1, <3>2, <3>3
    <2>2. CASE e \notin Processed(w)
        BY <1>4, <2>2 DEF IInv, AttemptsAreFailures
    <2> QED BY <2>1, <2>2
<1>9. NoSilentLoss'
    BY <1>1, <1>3, <1>4 DEF IInv, TypeOK, NoSilentLoss, IsLive
<1>10. UnissuedAbsent'
    BY <1>1, <1>2, <1>4 DEF IInv, UnissuedAbsent
<1>11. DoomedAreSettled'
    BY <1>1 DEF IInv, DoomedAreSettled, Settled
<1>12. CopiesWerePending' /\ VerdictsAreTrue' /\ LoadedCoverOwed' /\ OwedAreSubscribed'
    BY <1>1, ForgetKeepsWorkers
<1> QED BY <1>5, <1>6, <1>7, <1>8, <1>9, <1>10, <1>11, <1>12 DEF IInv

\* A batch that is lost loses its verdicts and nothing else (SaveAborts, Crash).
LEMMA BatchLost ==
    ASSUME IInv, NEW w \in Workers, Forget(w), acked' \in [Events -> SUBSET Endpoints],
           \A d \in Events : acked[d] \subseteq acked'[d],
           UNCHANGED <<outbox, issued, cutoff, endpoints, tasks, doomed, owed, failures>>
    PROVE  IInv'
<1> USE DEF IInv
<1>1. TypeOK'
    BY ForgetWorker DEF TypeOK
<1>2. RowConsistent' /\ AtLeastOnce' /\ AttemptsAreFailures' /\ UnissuedAbsent'
    BY DEF RowConsistent, AtLeastOnce, AttemptsAreFailures, UnissuedAbsent, IsPending
<1>3. NoSilentLoss' /\ DoomedAreSettled'
    BY DEF TypeOK, NoSilentLoss, DoomedAreSettled, Settled, IsLive
<1>4. CopiesWerePending' /\ VerdictsAreTrue' /\ LoadedCoverOwed' /\ OwedAreSubscribed'
    BY ForgetKeepsWorkers
<1> QED BY <1>1, <1>2, <1>3, <1>4 DEF IInv

LEMMA SaveAbortsIInv == ASSUME IInv, NEW w \in Workers, SaveAborts(w) PROVE IInv'
BY BatchLost DEF SaveAborts, historyVars, IInv, TypeOK

LEMMA CrashIInv == ASSUME IInv, NEW w \in Workers, Crash(w) PROVE IInv'
<1>1. acked' \in [Events -> SUBSET Endpoints] /\ \A d \in Events : acked[d] \subseteq acked'[d]
    <2>1. CASE Interrupted(w)
        BY <2>1, InterruptedAcks DEF IInv
    <2>2. CASE UNCHANGED acked
        BY <2>2 DEF IInv, TypeOK
    <2> QED BY <2>1, <2>2 DEF Crash
<1> QED BY <1>1, BatchLost DEF Crash

-----------------------------------------------------------------------------
(* Steps that change rows only *)

\* The workers' copies, the verdicts and the endpoints do not depend on the
\* rows, so a step that changes nothing else keeps what is said of them.
LEMMA WorkersUntouched ==
    ASSUME IInv, UNCHANGED <<issued, endpoints, workerVars, historyVars>>
    PROVE  CopiesWerePending' /\ VerdictsAreTrue' /\ LoadedCoverOwed' /\ OwedAreSubscribed'
<1> USE DEF IInv, workerVars, historyVars
<1>1. CopiesWerePending' /\ VerdictsAreTrue'
    BY DEF CopiesWerePending, VerdictsAreTrue
<1>2. LoadedCoverOwed' /\ OwedAreSubscribed'
    BY DEF LoadedCoverOwed, OwedAreSubscribed, Matching, Subscribed
<1> QED BY <1>1, <1>2

LEMMA BackoffElapsesIInv == ASSUME IInv, NEW e \in Events, BackoffElapses(e) PROVE IInv'
<1> USE DEF IInv, BackoffElapses
<1>1. TypeOK'
    <2>1. \A r \in Row : [r EXCEPT !.nextAttemptAt = "due"] \in Row
        BY DEF Row
    <2>2. outbox' \in [Events -> Row]
        BY <2>1 DEF TypeOK
    <2> QED BY <2>2 DEF TypeOK, workerVars, historyVars
<1>2. IsPending(e) /\ e \in issued
    BY DEF RowConsistent, UnissuedAbsent, NoRow, IsPending
<1>3. RowConsistent' /\ AttemptsAreFailures'
    BY <1>2 DEF TypeOK, Row, RowConsistent, AttemptsAreFailures, IsPending, historyVars
<1>4. AtLeastOnce' /\ NoSilentLoss' /\ UnissuedAbsent'
    BY <1>2 DEF TypeOK, Row, AtLeastOnce, NoSilentLoss, UnissuedAbsent, IsPending, IsLive, historyVars
<1>5. DoomedAreSettled'
    BY DEF DoomedAreSettled, Settled, historyVars
<1> QED BY <1>1, <1>3, <1>4, <1>5, WorkersUntouched DEF IInv

\* A retried event has attempts left again; it was issued, and what it owes is
\* untouched.
LEMMA RetryFailedIInv == ASSUME IInv, NEW S \in SUBSET Events, RetryFailed(S) PROVE IInv'
<1> USE DEF IInv
<1>1. /\ \A e \in S : outbox[e].status = "failed"
      /\ UNCHANGED <<issued, cutoff, endpoints, tasks, workerVars, doomed, historyVars>>
    BY DEF RetryFailed
<1>2. \A e \in S : outbox'[e] = [outbox[e] EXCEPT !.status = "pending", !.attempts = 0,
                                                !.nextAttemptAt = "due"]
    BY DEF RetryFailed
<1>3. \A e \in Events : e \notin S => outbox'[e] = outbox[e]
    BY DEF RetryFailed
<1>4. \A e \in S : /\ outbox'[e] \in Row /\ outbox'[e].status = "pending"
                  /\ outbox'[e].attempts = 0 /\ outbox'[e].nextAttemptAt = "due"
                  /\ outbox'[e].deliveredAt = "null" /\ e \in issued
    <2> TAKE e \in S
    <2>1. outbox[e] \in Row /\ outbox[e].deliveredAt = "null" /\ e \in issued
        BY <1>1 DEF TypeOK, Row, RowConsistent, UnissuedAbsent, NoRow
    <2>2. outbox'[e] = [status |-> "pending", attempts |-> 0,
                        nextAttemptAt |-> "due", deliveredAt |-> "null"]
        BY <1>2, <2>1 DEF Row
    <2> QED BY <2>1, <2>2, CountsAssumption DEF Row
<1>5. TypeOK'
    <2>1. outbox' \in [Events -> Row]
        BY <1>3, <1>4 DEF TypeOK, RetryFailed
    <2> QED BY <1>1, <2>1 DEF TypeOK, workerVars, historyVars
<1>6. RowConsistent'
    BY <1>3, <1>4, CountsAssumption DEF RowConsistent, IsPending
<1>7. AttemptsAreFailures'
    BY <1>1, <1>3, <1>4 DEF TypeOK, AttemptsAreFailures, historyVars
<1>8. AtLeastOnce' /\ NoSilentLoss' /\ UnissuedAbsent'
    <2>1. AtLeastOnce'
        BY <1>1, <1>3, <1>4 DEF AtLeastOnce, historyVars
    <2>2. NoSilentLoss'
        BY <1>1, <1>3, <1>4 DEF TypeOK, NoSilentLoss, IsLive, historyVars
    <2>3. UnissuedAbsent'
        BY <1>1, <1>3, <1>4 DEF UnissuedAbsent
    <2> QED BY <2>1, <2>2, <2>3
<1>9. DoomedAreSettled'
    BY <1>1 DEF DoomedAreSettled, Settled, historyVars
<1> QED BY <1>1, <1>5, <1>6, <1>7, <1>8, <1>9, WorkersUntouched DEF IInv

-----------------------------------------------------------------------------
(* The cleanup *)

\* A terminal event is settled: it was delivered to all it was owed to, or
\* failed as often as it may.
LEMMA TerminalIsSettled ==
    ASSUME IInv, NEW e \in Events, IsTerminal(e)
    PROVE  e \in issued /\ Settled(e)
<1> USE DEF IInv, IsTerminal
<1>1. e \in issued
    BY DEF UnissuedAbsent, NoRow
<1>2. CASE outbox[e].status = "delivered"
    BY <1>1, <1>2 DEF AtLeastOnce, Settled
<1>3. CASE outbox[e].status = "failed"
    <2>1. outbox[e].attempts = MaxAttempts /\ outbox[e].attempts <= failures[e]
        BY <1>3 DEF RowConsistent, AttemptsAreFailures
    <2>2. failures[e] \in 0 .. MaxAttempts /\ MaxAttempts \in Nat
        BY CountsAssumption DEF TypeOK
    <2>3. failures[e] = MaxAttempts
        BY <2>1, <2>2
    <2> QED BY <1>1, <2>3 DEF Settled
<1> QED BY <1>2, <1>3 DEF IsTerminal

LEMMA SelectTerminalIInv == ASSUME IInv, SelectTerminal PROVE IInv'
<1> USE DEF IInv, SelectTerminal
<1>1. \A e \in doomed' : e \in Events /\ IsTerminal(e)
    BY SliceIsSubset DEF Purgeable
<1>2. TypeOK'
    BY <1>1 DEF TypeOK, workerVars, historyVars
<1>3. RowConsistent' /\ AtLeastOnce' /\ AttemptsAreFailures' /\ NoSilentLoss' /\ UnissuedAbsent'
    BY DEF RowConsistent, AtLeastOnce, AttemptsAreFailures, NoSilentLoss, UnissuedAbsent,
           IsPending, IsLive, historyVars
<1>4. DoomedAreSettled'
    BY <1>1, TerminalIsSettled DEF DoomedAreSettled, Settled, historyVars
<1> QED BY <1>2, <1>3, <1>4, WorkersUntouched DEF IInv

LEMMA DeleteSelectedIInv == ASSUME IInv, DeleteSelected PROVE IInv'
<1> USE DEF IInv, DeleteSelected
<1>1. TypeOK'
    BY CountsAssumption DEF TypeOK, Row, NoRow, workerVars, historyVars
<1>2. \A e \in Events : outbox'[e] = IF e \in doomed THEN NoRow ELSE outbox[e]
    OBVIOUS
<1>3. RowConsistent' /\ AtLeastOnce' /\ AttemptsAreFailures'
    BY <1>2 DEF RowConsistent, AtLeastOnce, AttemptsAreFailures, IsPending, NoRow, historyVars
<1>4. NoSilentLoss' /\ UnissuedAbsent'
    BY <1>2 DEF TypeOK, NoSilentLoss, UnissuedAbsent, DoomedAreSettled, Settled, IsLive, historyVars
<1>5. DoomedAreSettled'
    BY DEF DoomedAreSettled
<1> QED BY <1>1, <1>3, <1>4, <1>5, WorkersUntouched DEF IInv

LEMMA CleanupCrashIInv == ASSUME IInv, CleanupCrash PROVE IInv'
<1> USE DEF IInv, CleanupCrash
<1>1. TypeOK'
    BY DEF TypeOK, workerVars, historyVars
<1>2. RowConsistent' /\ AtLeastOnce' /\ AttemptsAreFailures' /\ NoSilentLoss' /\ UnissuedAbsent'
    BY DEF RowConsistent, AtLeastOnce, AttemptsAreFailures, NoSilentLoss, UnissuedAbsent,
           IsPending, IsLive, historyVars
<1>3. DoomedAreSettled'
    BY DEF DoomedAreSettled
<1> QED BY <1>1, <1>2, <1>3, WorkersUntouched DEF IInv

-----------------------------------------------------------------------------
(* The theorems *)

LEMMA NextIInv == IInv /\ [Next]_vars => IInv'
<1> SUFFICES ASSUME IInv, [Next]_vars PROVE IInv'
    OBVIOUS
<1>1. ASSUME NEW e \in Events, Emit(e) PROVE IInv'
    BY <1>1, EmitIInv
<1>2. CASE Sweep
    BY <1>2, SweepIInv
<1>3. ASSUME NEW w \in Workers, WorkerStep(w) PROVE IInv'
    BY <1>3, RunEmptyIInv, FetchIInv, LoadEndpointsIInv, DeliverEventIInv, SaveResultsIInv,
       SaveAbortsIInv DEF WorkerStep
<1>4. ASSUME NEW e \in Events, BackoffElapses(e) PROVE IInv'
    BY <1>4, BackoffElapsesIInv
<1>5. CASE RetentionElapses
    BY <1>5, RetentionElapsesIInv
<1>6. CASE SelectTerminal
    BY <1>6, SelectTerminalIInv
<1>7. CASE DeleteSelected
    BY <1>7, DeleteSelectedIInv
<1>8. CASE Interruption
    BY <1>8, SoftTimeLimitIInv, CrashIInv, CleanupCrashIInv DEF Interruption
<1>9. CASE Administration
    BY <1>9, RetryFailedIInv, EditEndpointIInv DEF Administration
<1>10. CASE UNCHANGED vars
    <2> USE <1>10 DEF vars, workerVars, historyVars, IInv
    <2>1. TypeOK'
        BY DEF TypeOK
    <2>2. RowConsistent' /\ AtLeastOnce' /\ AttemptsAreFailures' /\ NoSilentLoss' /\ UnissuedAbsent'
        BY DEF RowConsistent, AtLeastOnce, AttemptsAreFailures, NoSilentLoss, UnissuedAbsent,
               IsPending, IsLive
    <2>3. DoomedAreSettled'
        BY DEF DoomedAreSettled, Settled
    <2> QED BY <2>1, <2>2, <2>3, WorkersUntouched DEF IInv
<1> QED BY <1>1, <1>2, <1>3, <1>4, <1>5, <1>6, <1>7, <1>8, <1>9, <1>10 DEF Next

\* The inductive invariant holds in every behaviour of the outbox.
THEOREM OutboxInvariant == Spec => []IInv
BY InitIInv, NextIInv, PTL DEF Spec

\* Every state of the outbox is well typed.
THEOREM OutboxTypeOK == Spec => []TypeOK
<1>1. IInv => TypeOK
    BY DEF IInv
<1> QED BY <1>1, OutboxInvariant, PTL

\* No stale write of a worker leaves a row with contradictory fields, and no
\* pending event is left without a time for its next attempt.
THEOREM OutboxRowConsistent == Spec => []RowConsistent
<1>1. IInv => RowConsistent
    BY DEF IInv
<1> QED BY <1>1, OutboxInvariant, PTL

\* An event marked delivered was accepted by every endpoint subscribed to it
\* ever since it was committed.
THEOREM OutboxAtLeastOnce == Spec => []AtLeastOnce
<1>1. IInv => AtLeastOnce
    BY DEF IInv
<1> QED BY <1>1, OutboxInvariant, PTL

\* Only a failed delivery costs an event an attempt.
THEOREM OutboxAttemptsAreFailures == Spec => []AttemptsAreFailures
<1>1. IInv => AttemptsAreFailures
    BY DEF IInv
<1> QED BY <1>1, OutboxInvariant, PTL

\* The cleanup deletes no event that was neither delivered nor exhausted, stale
\* keys and reset rows included.
THEOREM OutboxNoSilentLoss == Spec => []NoSilentLoss
<1>1. IInv => NoSilentLoss
    BY DEF IInv
<1> QED BY <1>1, OutboxInvariant, PTL
=============================================================================
