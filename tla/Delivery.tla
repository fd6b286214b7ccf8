------------------------------ MODULE Delivery ------------------------------
(***************************************************************************)
(* What the outbox promises to those who emit events and to the webhook    *)
(* endpoints, without rows, workers, locks or schedules: a committed event *)
(* is reported delivered only when every endpoint it is owed to accepted   *)
(* it, given up only after MaxTries failed attempts, and forgotten, for    *)
(* good, only after one or the other.  Attempts may be repeated, and a     *)
(* report may be taken back while the event is remembered.                 *)
(***************************************************************************)
EXTENDS Integers

CONSTANTS
    Events,    \* the events
    Endpoints, \* the webhook endpoints
    MaxTries   \* the failed attempts after which an event may be given up: a number

VARIABLES
    status,   \* what the outbox reports of an event
    owed,     \* the endpoints that are waiting for an event
    accepted, \* the endpoints that accepted an event
    tries     \* the failed attempts on an event, up to MaxTries

vars == <<status, owed, accepted, tries>>

TypeOK ==
    /\ status \in [Events -> {"none", "pending", "delivered", "failed", "forgotten"}]
    /\ owed \in [Events -> SUBSET Endpoints]
    /\ accepted \in [Events -> SUBSET Endpoints]
    /\ tries \in [Events -> 0 .. MaxTries]

Init ==
    /\ status = [e \in Events |-> "none"]
    /\ owed = [e \in Events |-> {}]
    /\ accepted = [e \in Events |-> {}]
    /\ tries = [e \in Events |-> 0]

Satisfied(e) == owed[e] \subseteq accepted[e]
Exhausted(e) == tries[e] = MaxTries

\* An event is announced to the endpoints P.
Commit(e, P) ==
    /\ status[e] = "none"
    /\ status' = [status EXCEPT ![e] = "pending"]
    /\ owed' = [owed EXCEPT ![e] = P]
    /\ UNCHANGED <<accepted, tries>>

\* The endpoints P accept an event, in an attempt that may fail as a whole.
Attempt(e, P) ==
    /\ status[e] # "none"
    /\ accepted' = [accepted EXCEPT ![e] = @ \cup P]
    /\ \/ UNCHANGED tries
       \/ ~Exhausted(e) /\ tries' = [tries EXCEPT ![e] = @ + 1]
    /\ UNCHANGED <<status, owed>>

\* Endpoints stop waiting for events.
Withdraw ==
    /\ owed' \in [Events -> SUBSET Endpoints]
    /\ \A e \in Events : owed'[e] \subseteq owed[e]
    /\ UNCHANGED <<status, accepted, tries>>

\* What the report on an event may become.
Reportable(e, s) ==
    \/ s = "pending"
    \/ s = "delivered" /\ Satisfied(e)
    \/ s = "failed" /\ Exhausted(e)
    \/ s = "forgotten" /\ (Satisfied(e) \/ Exhausted(e))

\* The reports on some events change; nothing more is said of a forgotten one.
Report ==
    /\ status' \in [Events -> {"none", "pending", "delivered", "failed", "forgotten"}]
    /\ \A e \in Events :
        \/ status'[e] = status[e]
        \/ status[e] \notin {"none", "forgotten"} /\ Reportable(e, status'[e])
    /\ UNCHANGED <<owed, accepted, tries>>

Next ==
    \/ \E e \in Events, P \in SUBSET Endpoints : Commit(e, P)
    \/ \E e \in Events, P \in SUBSET Endpoints : Attempt(e, P)
    \/ Withdraw
    \/ Report

Spec == Init /\ [][Next]_vars
=============================================================================
