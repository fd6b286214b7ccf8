------------------------------- MODULE Custody -------------------------------
(***************************************************************************)
(* What the portal app promises to those who upload files and to those who *)
(* hear of them, without requests, batches, tasks and forms: a received    *)
(* file is recorded and announced in one step, or turned down; its content *)
(* is kept until it expires, and its record until the content is gone.     *)
(* Administrators withdraw files and take them over: of those, only the    *)
(* announcements are still promised.                                       *)
(***************************************************************************)
EXTENDS Integers

CONSTANTS
    Files \* the files

VARIABLES
    content,   \* the files whose content is kept
    record,    \* what is recorded of a file
    age,       \* how far a file is from its expiry
    announced, \* the files announced as stored
    warned,    \* the files announced to expire
    withdrawn  \* the files given up by their request, or by or to an administrator

vars == <<content, record, age, announced, warned, withdrawn>>

TypeOK ==
    /\ content \subseteq Files
    /\ record \in [Files -> {"absent", "stored", "failed"}]
    /\ age \in [Files -> {"fresh", "expiring", "expired"}]
    /\ announced \subseteq Files
    /\ warned \subseteq announced
    /\ withdrawn \subseteq Files

Init ==
    /\ content = {}
    /\ record = [f \in Files |-> "absent"]
    /\ age = [f \in Files |-> "fresh"]
    /\ announced = {}
    /\ warned = {}
    /\ withdrawn = {}

\* Nothing was said of a file yet.
IsNew(f) == record[f] = "absent" /\ age[f] = "fresh" /\ f \notin announced \cup withdrawn

Receive(f) ==
    /\ IsNew(f)
    /\ f \notin content
    /\ content' = content \cup {f}
    /\ UNCHANGED <<record, age, announced, warned, withdrawn>>

\* A file is stored and announced, both once.
Store(f) ==
    /\ IsNew(f)
    /\ f \in content
    /\ record' = [record EXCEPT ![f] = "stored"]
    /\ announced' = announced \cup {f}
    /\ UNCHANGED <<content, age, warned, withdrawn>>

TurnDown(f) ==
    /\ IsNew(f)
    /\ f \in content
    /\ record' = [record EXCEPT ![f] = "failed"]
    /\ UNCHANGED <<content, age, announced, warned, withdrawn>>

GrowOlder(f) ==
    /\ record[f] # "absent"
    /\ \/ age[f] = "fresh" /\ age' = [age EXCEPT ![f] = "expiring"]
       \/ age[f] = "expiring" /\ age' = [age EXCEPT ![f] = "expired"]
    /\ UNCHANGED <<content, record, announced, warned, withdrawn>>

\* Only a file that was stored is announced to expire, and not too early.
Warn(f) ==
    /\ f \in announced
    /\ age[f] # "fresh" \/ f \in withdrawn
    /\ warned' = warned \cup {f}
    /\ UNCHANGED <<content, record, age, announced, withdrawn>>

Correct(f, status) ==
    /\ record[f] # "absent"
    /\ status = "stored" => f \in announced
    /\ record' = [record EXCEPT ![f] = status]
    /\ UNCHANGED <<content, age, announced, warned, withdrawn>>

Withdraw(f) ==
    /\ record' = [record EXCEPT ![f] = "absent"]
    /\ withdrawn' = withdrawn \cup {f}
    /\ UNCHANGED <<content, age, announced, warned>>

\* An administrator replaces the content of a file, moves it or restores its
\* record, which is then as young as a new one.
TakeOver(f, status) ==
    /\ ~IsNew(f)
    /\ status = "stored" => f \in announced
    /\ record' = [record EXCEPT ![f] = status]
    /\ withdrawn' = withdrawn \cup {f}
    /\ content' \in {content, content \cup {f}}
    /\ age' = IF record[f] = "absent" THEN [age EXCEPT ![f] = "fresh"] ELSE age
    /\ UNCHANGED <<announced, warned>>

Discard(f) ==
    /\ age[f] = "expired" \/ f \in withdrawn
    /\ content' = content \ {f}
    /\ UNCHANGED <<record, age, announced, warned, withdrawn>>

\* Records of expired files go together, after their contents.
Forget(F) ==
    /\ \A f \in F : f \in withdrawn \/ (age[f] = "expired" /\ f \notin content)
    /\ record' = [f \in Files |-> IF f \in F THEN "absent" ELSE record[f]]
    /\ UNCHANGED <<content, age, announced, warned, withdrawn>>

Next ==
    \/ \E f \in Files : Receive(f) \/ Store(f) \/ TurnDown(f)
    \/ \E f \in Files : GrowOlder(f) \/ Warn(f) \/ Discard(f) \/ Withdraw(f)
    \/ \E f \in Files, status \in {"stored", "failed"} : Correct(f, status) \/ TakeOver(f, status)
    \/ \E F \in SUBSET Files : Forget(F)

Spec == Init /\ [][Next]_vars
=============================================================================
