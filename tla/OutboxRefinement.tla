-------------------------- MODULE OutboxRefinement --------------------------
(***************************************************************************)
(* Outbox implements Delivery, for every value of the constants.  Every    *)
(* step is mapped under IInv, the inductive invariant of OutboxProofs: it  *)
(* holds before and after the step, and what it says of the rows after the *)
(* step is what Delivery asks of a report.                                 *)
(***************************************************************************)
EXTENDS OutboxProofs

-----------------------------------------------------------------------------
(* The initial state *)

LEMMA InitRefines == Init => Promise!Init
BY DEF Init, NoBatch, Promise!Init, Reported

-----------------------------------------------------------------------------
(* Steps on the rows *)

\* What the invariant says, after a step, of the report on a committed event.
LEMMA ReportIsAdmissible ==
    ASSUME IInv', NEW e \in Events, e \in issued'
    PROVE  /\ Reported(e)' \in {"pending", "delivered", "failed", "forgotten"}
           /\ Reported(e)' = "delivered" => owed'[e] \subseteq acked'[e]
           /\ Reported(e)' = "failed" => failures'[e] = MaxAttempts
           /\ Reported(e)' = "forgotten" => owed'[e] \subseteq acked'[e] \/ failures'[e] = MaxAttempts
<1> USE DEF IInv
<1>1. outbox'[e].status \in {"absent", "pending", "delivered", "failed"}
    BY DEF TypeOK, Row
<1>2. CASE outbox'[e].status = "absent"
    BY <1>2 DEF Reported, IsLive, NoSilentLoss
<1>3. CASE outbox'[e].status # "absent"
    <2>1. Reported(e)' = outbox'[e].status
        BY <1>3 DEF Reported, IsLive
    <2>2. outbox'[e].status = "delivered" => owed'[e] \subseteq acked'[e]
        BY DEF AtLeastOnce
    <2>3. ASSUME outbox'[e].status = "failed" PROVE failures'[e] = MaxAttempts
        <3>1. outbox'[e].attempts = MaxAttempts /\ outbox'[e].attempts <= failures'[e]
            BY <2>3 DEF RowConsistent, AttemptsAreFailures
        <3>2. failures'[e] \in 0 .. MaxAttempts /\ MaxAttempts \in Nat
            BY CountsAssumption DEF TypeOK
        <3> QED BY <3>1, <3>2
    <2> QED BY <1>1, <1>3, <2>1, <2>2, <2>3
<1> QED BY <1>2, <1>3

\* A step that commits, attempts and withdraws nothing is a change of reports,
\* provided that it brings no deleted row back.
LEMMA RowsAreReports ==
    ASSUME IInv, IInv', UNCHANGED <<issued, owed, acked, failures>>,
           \A e \in Events : ~IsLive(e) => ~IsLive(e)'
    PROVE  Promise!Report
<1> DEFINE before == [e \in Events |-> Reported(e)]
           after  == [e \in Events |-> Reported(e)']
<1>1. ASSUME NEW e \in Events
      PROVE  /\ Reported(e)' \in {"none", "pending", "delivered", "failed", "forgotten"}
             /\ \/ Reported(e)' = Reported(e)
                \/ /\ Reported(e) \notin {"none", "forgotten"}
                   /\ Promise!Reportable(e, Reported(e)')
    <2>1. CASE e \notin issued
        BY <2>1 DEF Reported
    <2>2. CASE e \in issued /\ ~IsLive(e)
        BY <2>2 DEF Reported, IsLive
    <2>3. CASE e \in issued /\ IsLive(e)
        <3>1. Reported(e) \notin {"none", "forgotten"}
            BY <2>3 DEF Reported, IsLive, IInv, TypeOK, Row
        <3>2. /\ Reported(e)' \in {"pending", "delivered", "failed", "forgotten"}
              /\ Reported(e)' = "delivered" => owed[e] \subseteq acked[e]
              /\ Reported(e)' = "failed" => failures[e] = MaxAttempts
              /\ Reported(e)' = "forgotten" => owed[e] \subseteq acked[e] \/ failures[e] = MaxAttempts
            BY <2>3, ReportIsAdmissible
        <3> QED BY <3>1, <3>2 DEF Promise!Reportable, Promise!Satisfied, Promise!Exhausted
    <2> QED BY <2>1, <2>2, <2>3
<1>2. before' = after
    OBVIOUS
<1> QED BY <1>1, <1>2 DEF Promise!Report
-----------------------------------------------------------------------------
(* Steps that commit, attempt or withdraw *)

LEMMA EmitRefines == ASSUME IInv, NEW e \in Events, Emit(e) PROVE Promise!Next
<1> USE DEF Emit, IInv, TypeOK
<1>1. Promise!Commit(e, Subscribed(e))
    <2>1. Reported(e) = "none" /\ Reported(e)' = "pending"
        BY DEF Reported, IsLive, NewRow
    <2>2. ASSUME NEW d \in Events, d # e PROVE Reported(d)' = Reported(d)
        BY <2>2 DEF Reported, IsLive
    <2> QED BY <2>1, <2>2 DEF Promise!Commit
<1>2. Subscribed(e) \in SUBSET Endpoints
    BY DEF Subscribed
<1> QED BY <1>1, <1>2 DEF Promise!Next

\* A turn of the delivery loop, cut off or not, is an attempt.
LEMMA DeliverEventRefines ==
    ASSUME IInv, NEW w \in Workers, NEW e \in Events, DeliverEvent(w, e) PROVE Promise!Next
<1> USE DEF DeliverEvent, IInv, TypeOK
<1>1. PICK ok \in SUBSET Matching(w, e) :
        /\ acked' = [acked EXCEPT ![e] = @ \cup ok]
        /\ failures' = [failures EXCEPT ![e] = IF AllOk(w, e, ok) THEN @ ELSE CountedFailure(e)]
    OBVIOUS
<1>2. ok \in SUBSET Endpoints
    BY DEF Matching
<1>3. Reported(e) # "none" /\ \A d \in Events : Reported(d)' = Reported(d)
    BY DEF IsNext, Remaining, CopiesWerePending, Reported, IsLive, Row
<1>4. \/ failures' = failures
      \/ failures[e] # MaxAttempts /\ failures' = [failures EXCEPT ![e] = @ + 1]
    <2>1. CASE AllOk(w, e, ok) \/ ~(failures[e] < MaxAttempts)
        <3>1. failures' = [failures EXCEPT ![e] = failures[e]]
            BY <1>1, <2>1 DEF CountedFailure
        <3> QED BY <3>1
    <2>2. CASE ~AllOk(w, e, ok) /\ failures[e] < MaxAttempts
        <3>1. failures' = [failures EXCEPT ![e] = failures[e] + 1]
            BY <1>1, <2>2 DEF CountedFailure
        <3>2. failures[e] \in 0 .. MaxAttempts /\ MaxAttempts \in Nat
            BY CountsAssumption
        <3>3. failures[e] # MaxAttempts
            BY <2>2, <3>2
        <3> QED BY <3>1, <3>3
    <2> QED BY <2>1, <2>2
<1>5. Promise!Attempt(e, ok)
    <2>1. acked' = [acked EXCEPT ![e] = @ \cup ok]
        BY <1>1
    <2> HIDE DEF DeliverEvent
    <2>2. UNCHANGED owed
        BY DEF DeliverEvent
    <2> QED BY <1>3, <1>4, <2>1, <2>2 DEF Promise!Attempt, Promise!Exhausted
<1> QED BY <1>2, <1>5 DEF Promise!Next

LEMMA InterruptedRefines ==
    ASSUME IInv, NEW w \in Workers, Interrupted(w), UNCHANGED <<outbox, issued, owed, failures>>
    PROVE  Promise!Next
<1> USE DEF IInv, TypeOK
<1>1. PICK e \in Events : /\ IsNext(w, e)
                          /\ \E ok \in SUBSET Matching(w, e) : acked' = [acked EXCEPT ![e] = @ \cup ok]
    BY DEF Interrupted
<1>2. PICK ok \in SUBSET Matching(w, e) : acked' = [acked EXCEPT ![e] = @ \cup ok]
    BY <1>1
<1>3. ok \in SUBSET Endpoints
    BY DEF Matching
<1>4. Reported(e) # "none" /\ \A d \in Events : Reported(d)' = Reported(d)
    BY <1>1 DEF IsNext, Remaining, CopiesWerePending, Reported, IsLive, Row
<1>5. Promise!Attempt(e, ok)
    BY <1>2, <1>4 DEF Promise!Attempt
<1> QED BY <1>3, <1>5 DEF Promise!Next

LEMMA EditEndpointRefines ==
    ASSUME IInv, NEW p \in Endpoints, NEW c \in Configs, EditEndpoint(p, c) PROVE Promise!Next
<1> USE DEF EditEndpoint, IInv, TypeOK
<1>1. \A e \in Events : Reported(e)' = Reported(e)
    BY DEF Reported, IsLive
<1>2. owed' \in [Events -> SUBSET Endpoints] /\ \A e \in Events : owed'[e] \subseteq owed[e]
    OBVIOUS
<1> QED BY <1>1, <1>2 DEF Promise!Next, Promise!Withdraw

-----------------------------------------------------------------------------
(* Every step *)

LEMMA NextRefines == IInv /\ IInv' /\ [Next]_vars => [Promise!Next]_(Promise!vars)
<1> SUFFICES ASSUME IInv, IInv', [Next]_vars PROVE [Promise!Next]_(Promise!vars)
    OBVIOUS
<1>1. ASSUME UNCHANGED <<issued, owed, acked, failures>>,
             \A e \in Events : ~IsLive(e) => ~IsLive(e)'
      PROVE  Promise!Next
    BY <1>1, RowsAreReports DEF Promise!Next
<1>2. ASSUME NEW e \in Events, Emit(e) PROVE Promise!Next
    BY <1>2, EmitRefines
<1>3. ASSUME NEW w \in Workers, WorkerStep(w) PROVE Promise!Next
    <2>1. CASE RunEmpty(w) \/ Fetch(w) \/ LoadEndpoints(w) \/ SaveAborts(w)
        BY <1>1, <2>1 DEF RunEmpty, Fetch, LoadEndpoints, SaveAborts, IsLive, historyVars
    <2>2. ASSUME NEW e \in Events, DeliverEvent(w, e) PROVE Promise!Next
        BY <2>2, DeliverEventRefines
    <2>3. CASE SaveResults(w)
        BY <1>1, <2>3 DEF SaveResults, IsLive, historyVars
    <2> QED BY <1>3, <2>1, <2>2, <2>3 DEF WorkerStep
<1>4. ASSUME NEW e \in Events, BackoffElapses(e) PROVE Promise!Next
    <2>1. IsLive(e)
        BY <1>4 DEF BackoffElapses, IsLive, IInv, UnissuedAbsent, RowConsistent, IsPending
    <2>2. \A d \in Events : ~IsLive(d) => ~IsLive(d)'
        BY <1>4, <2>1 DEF BackoffElapses, IInv, TypeOK, IsLive
    <2> QED BY <1>1, <1>4, <2>2 DEF BackoffElapses, historyVars
<1>5. CASE Sweep \/ RetentionElapses \/ SelectTerminal \/ CleanupCrash
    BY <1>1, <1>5 DEF Sweep, RetentionElapses, SelectTerminal, CleanupCrash, IsLive, historyVars
<1>6. CASE DeleteSelected
    <2>1. \A e \in Events : ~IsLive(e) => ~IsLive(e)'
        BY <1>6 DEF DeleteSelected, IsLive, NoRow
    <2> QED BY <1>1, <1>6, <2>1 DEF DeleteSelected, historyVars
<1>7. ASSUME NEW w \in Workers, SoftTimeLimit(w) \/ Crash(w) PROVE Promise!Next
    <2>1. CASE Interrupted(w)
        BY <1>7, <2>1, InterruptedRefines DEF SoftTimeLimit, Crash
    <2>2. CASE UNCHANGED acked
        BY <1>1, <1>7, <2>2 DEF SoftTimeLimit, Crash, IsLive
    <2> QED BY <1>7, <2>1, <2>2 DEF SoftTimeLimit, Crash
<1>8. ASSUME NEW S \in SUBSET Events, RetryFailed(S) PROVE Promise!Next
    BY <1>1, <1>8 DEF RetryFailed, IsLive, historyVars
<1>9. ASSUME NEW p \in Endpoints, NEW c \in Configs, EditEndpoint(p, c) PROVE Promise!Next
    BY <1>9, EditEndpointRefines
<1>10. CASE UNCHANGED vars
    BY <1>1, <1>10 DEF vars, IsLive, historyVars
<1> QED BY <1>2, <1>3, <1>4, <1>5, <1>6, <1>7, <1>8, <1>9, <1>10
        DEF Next, Interruption, Administration

\* The outbox implements Delivery: the rows, the workers with their stale copies,
\* the crashes and the cleanup are invisible to those who emit and receive events.
THEOREM OutboxImplementsDelivery == Spec => ImplementsDelivery
BY InitRefines, NextRefines, OutboxInvariant, PTL DEF Spec, ImplementsDelivery, Promise!Spec
=============================================================================
