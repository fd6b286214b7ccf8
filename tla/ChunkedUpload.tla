---------------------------- MODULE ChunkedUpload ----------------------------
(***************************************************************************)
(* The chunked upload of one file (portal/services/sessions.py): request   *)
(* handlers record parts and complete the session concurrently, while the  *)
(* file may be marked failed (mark_file_failed) or expire, which deletes   *)
(* its row and with it the session and the parts.                          *)
(*                                                                         *)
(* A handler that records a part runs two statements that commit one by    *)
(* one: it inserts the part, then it updates the counters of the session.  *)
(* A handler that completes the session counts the parts in one statement  *)
(* of its transaction and writes in later ones.                            *)
(***************************************************************************)
EXTENDS Integers, FiniteSets, Sums

CONSTANTS
    Clients,     \* the request handlers
    PartNumbers, \* the part numbers that clients send
    SizeOf,      \* the size a client states for each part
    Sizes,       \* the total sizes of the files uploaded
    ChunkSize,   \* chunk_size_bytes
    NoPart       \* the part of a handler that has inserted none

ASSUME ChunkAssumption ==
    /\ IsFiniteSet(Clients)
    /\ IsFiniteSet(PartNumbers)
    /\ SizeOf \in [PartNumbers -> Nat]
    /\ Sizes \subseteq Nat
    /\ ChunkSize \in Nat \ {0}
    /\ NoPart \notin PartNumbers

VARIABLES
    file,           \* UploadFile.status, "gone" once its row is deleted
    session,        \* UploadSession.status, "none" while there is no row
    totalParts,     \* UploadSession.total_parts
    completedParts, \* UploadSession.completed_parts
    bytesReceived,  \* UploadSession.bytes_received
    parts,          \* the part numbers with a RECEIVED row
    pc,             \* where each handler is
    part,           \* the part a handler has inserted and not counted yet
    uncounted       \* history: parts whose handler died before it counted them

sessionVars == <<session, totalParts, completedParts, bytesReceived, parts>>
vars == <<file, sessionVars, pc, part, uncounted>>

TypeOK ==
    /\ file \in {"uploading", "stored", "failed", "gone"}
    /\ session \in {"none", "init", "in_progress", "complete"}
    /\ totalParts \in Nat
    /\ completedParts \in Nat
    /\ bytesReceived \in Nat
    /\ parts \subseteq PartNumbers
    /\ pc \in [Clients -> {"idle", "counting", "completing"}]
    /\ part \in [Clients -> PartNumbers \cup {NoPart}]
    /\ uncounted \subseteq PartNumbers

Init ==
    /\ file = "uploading"
    /\ session = "none"
    /\ totalParts = 0
    /\ completedParts = 0
    /\ bytesReceived = 0
    /\ parts = {}
    /\ pc = [c \in Clients |-> "idle"]
    /\ part = [c \in Clients |-> NoPart]
    /\ uncounted = {}

-----------------------------------------------------------------------------

Ceil(m, n) == (m + n - 1) \div n

\* create_upload_session: a file has at most one session; its own status is
\* not looked at.
CreateSession(size) ==
    /\ file # "gone"
    /\ session = "none"
    /\ session' = "init"
    /\ totalParts' = Ceil(size, ChunkSize)
    /\ UNCHANGED <<file, completedParts, bytesReceived, parts, pc, part, uncounted>>

\* Seeded fault: a part that is already there is taken for a fresh one.
RecordPartAgain(c, n) ==
    /\ pc[c] = "idle"
    /\ session # "none"
    /\ parts' = parts \cup {n}
    /\ pc' = [pc EXCEPT ![c] = "counting"]
    /\ part' = [part EXCEPT ![c] = n]
    /\ UNCHANGED <<file, session, totalParts, completedParts, bytesReceived, uncounted>>

\* record_upload_part, first statement.  A second row for the same number
\* violates the unique constraint and ends the call.  Neither the number nor
\* the status of the session is checked.
RecordPart(c, n) ==
    /\ pc[c] = "idle"
    /\ session # "none"
    /\ n \notin parts
    /\ parts' = parts \cup {n}
    /\ pc' = [pc EXCEPT ![c] = "counting"]
    /\ part' = [part EXCEPT ![c] = n]
    /\ UNCHANGED <<file, session, totalParts, completedParts, bytesReceived, uncounted>>

\* Seeded fault: the size of the part is not added.
CountPartPartSizeLost(c) ==
    /\ pc[c] = "counting"
    /\ IF session = "none"
       THEN UNCHANGED <<session, completedParts>>
       ELSE session' = "in_progress" /\ completedParts' = completedParts + 1
    /\ pc' = [pc EXCEPT ![c] = "idle"]
    /\ part' = [part EXCEPT ![c] = NoPart]
    /\ UNCHANGED <<file, totalParts, bytesReceived, parts, uncounted>>

\* record_upload_part, second statement.  It matches no row when the session
\* was deleted in between.
CountPart(c) ==
    /\ pc[c] = "counting"
    /\ IF session = "none"
       THEN UNCHANGED <<session, completedParts, bytesReceived>>
       ELSE /\ session' = "in_progress"
            /\ completedParts' = completedParts + 1
            /\ bytesReceived' = bytesReceived + SizeOf[part[c]]
    /\ pc' = [pc EXCEPT ![c] = "idle"]
    /\ part' = [part EXCEPT ![c] = NoPart]
    /\ UNCHANGED <<file, totalParts, parts, uncounted>>

\* Seeded fault: the check compares with the wrong bound.
BeginCompleteShort(c) ==
    /\ pc[c] = "idle"
    /\ session # "none"
    /\ Cardinality(parts) + 1 >= totalParts
    /\ pc' = [pc EXCEPT ![c] = "completing"]
    /\ UNCHANGED <<file, sessionVars, part, uncounted>>

\* complete_upload_session counts the received parts; with too few it raises
\* and changes nothing.
BeginComplete(c) ==
    /\ pc[c] = "idle"
    /\ session # "none"
    /\ Cardinality(parts) >= totalParts
    /\ pc' = [pc EXCEPT ![c] = "completing"]
    /\ UNCHANGED <<file, sessionVars, part, uncounted>>

\* Seeded faults: the session gets the status of the file; the file is stored
\* whatever its status, or not at all.
FinishCompleteWrongStatus(c) ==
    /\ pc[c] = "completing"
    /\ IF session = "none"
       THEN UNCHANGED <<session, file>>
       ELSE /\ session' = "stored"
            /\ file' = IF file = "uploading" THEN "stored" ELSE file
    /\ pc' = [pc EXCEPT ![c] = "idle"]
    /\ UNCHANGED <<totalParts, completedParts, bytesReceived, parts, part, uncounted>>

FinishCompleteAnyFile(c) ==
    /\ pc[c] = "completing"
    /\ IF session = "none"
       THEN UNCHANGED <<session, file>>
       ELSE session' = "complete" /\ file' = "stored"
    /\ pc' = [pc EXCEPT ![c] = "idle"]
    /\ UNCHANGED <<totalParts, completedParts, bytesReceived, parts, part, uncounted>>

FinishCompleteSessionOnly(c) ==
    /\ pc[c] = "completing"
    /\ session' = IF session = "none" THEN session ELSE "complete"
    /\ pc' = [pc EXCEPT ![c] = "idle"]
    /\ UNCHANGED <<file, totalParts, completedParts, bytesReceived, parts, part, uncounted>>

\* It then marks the session complete and the file stored if it is still
\* uploading, and commits.  When the session was deleted in between, the save
\* updates no row and raises.
FinishComplete(c) ==
    /\ pc[c] = "completing"
    /\ IF session = "none"
       THEN UNCHANGED <<session, file>>
       ELSE /\ session' = "complete"
            /\ file' = IF file = "uploading" THEN "stored" ELSE file
    /\ pc' = [pc EXCEPT ![c] = "idle"]
    /\ UNCHANGED <<totalParts, completedParts, bytesReceived, parts, part, uncounted>>

\* The process of a handler dies: an inserted part stays, uncounted for good,
\* and the open transaction of a completion is rolled back.
Crash(c) ==
    /\ pc[c] # "idle"
    /\ uncounted' = IF pc[c] = "counting" /\ session # "none"
                    THEN uncounted \cup {part[c]} ELSE uncounted
    /\ pc' = [pc EXCEPT ![c] = "idle"]
    /\ part' = [part EXCEPT ![c] = NoPart]
    /\ UNCHANGED <<file, sessionVars>>

\* mark_file_failed looks at no status.
MarkFileFailed ==
    /\ file # "gone"
    /\ file' = "failed"
    /\ UNCHANGED <<sessionVars, pc, part, uncounted>>

\* cleanup_expired_upload_files_task deletes the file row, whatever its status;
\* the deletion cascades to the session and its parts.
Expire ==
    /\ file # "gone"
    /\ file' = "gone"
    /\ session' = "none"
    /\ totalParts' = 0
    /\ completedParts' = 0
    /\ bytesReceived' = 0
    /\ parts' = {}
    /\ uncounted' = {}
    /\ UNCHANGED <<pc, part>>

Next ==
    \/ \E size \in Sizes : CreateSession(size)
    \/ \E c \in Clients, n \in PartNumbers : RecordPart(c, n)
    \/ \E c \in Clients : CountPart(c)
    \/ \E c \in Clients : BeginComplete(c)
    \/ \E c \in Clients : FinishComplete(c)
    \/ \E c \in Clients : Crash(c)
    \/ MarkFileFailed
    \/ Expire

Spec == Init /\ [][Next]_vars

-----------------------------------------------------------------------------
(* Properties *)

InFlight == {part[c] : c \in {d \in Clients : pc[d] = "counting"}}
Counted  == parts \ (InFlight \cup uncounted)

\* completed_parts never drifts from the parts the session has: it counts every
\* received part once, but for those whose handler has not counted yet or died
\* first (the F() update of record_upload_part).
CountTracksParts == session # "none" => completedParts = Cardinality(Counted)

\* Nor does bytes_received drift from their sizes.
BytesTrackParts == session # "none" => bytesReceived = Total(SizeOf, Counted)

\* A file is stored by its session only with as many parts as it needs, also
\* when parts arrive, handlers die and the file fails while it completes.
StoredHasEnoughParts == file = "stored" => Cardinality(parts) >= totalParts

\* "Validates that all expected parts have been received": if clients number the
\* parts from 1 to total_parts, as record_upload_part asks them to, a stored file
\* has each of its parts.  Nothing checks the numbers (see the README).
StoredHasEveryPart ==
    file = "stored" /\ parts \subseteq 1 .. totalParts => parts = 1 .. totalParts

\* A complete session has no file that is still uploading: both change in one
\* transaction (complete_upload_session).
CompleteSettlesFile == session = "complete" => file # "uploading"

\* A file that was marked failed is not stored again by a completion that had
\* already checked its parts.
FailedFileStaysFailed == [][file = "failed" => file' \in {"failed", "gone"}]_vars

-----------------------------------------------------------------------------
(* Why they hold: an inductive invariant *)

\* Before the session is created no handler works on it, its parts are none and
\* its file was not stored by it; it is not created again once the file is gone.
NoSessionNoParts ==
    /\ session = "none" => /\ parts = {} /\ uncounted = {} /\ totalParts = 0
                           /\ completedParts = 0 /\ bytesReceived = 0
                           /\ file # "stored"
                           /\ file # "gone" => \A c \in Clients : pc[c] = "idle"
    /\ file = "gone" => session = "none"

\* A part in flight has its row, is nobody else's, and was not given up.
InFlightAreFresh ==
    \A c \in Clients : pc[c] = "counting" =>
        /\ part[c] \in PartNumbers
        /\ session # "none" => part[c] \in parts \ uncounted
        /\ \A d \in Clients : d # c /\ pc[d] = "counting" /\ session # "none" => part[d] # part[c]

UncountedAreParts == uncounted \subseteq parts

\* The check of a completion in progress still holds: parts are never removed
\* from a session that is there.
CheckedStillHolds ==
    \A c \in Clients : pc[c] = "completing" /\ session # "none" => Cardinality(parts) >= totalParts

IInv ==
    /\ TypeOK
    /\ CountTracksParts
    /\ BytesTrackParts
    /\ StoredHasEnoughParts
    /\ CompleteSettlesFile
    /\ NoSessionNoParts
    /\ InFlightAreFresh
    /\ UncountedAreParts
    /\ CheckedStillHolds

-----------------------------------------------------------------------------
(* The promise *)

\* What the upload is to its clients.
Promise == INSTANCE Assembly WITH
    open <- session # "none", expected <- totalParts, counted <- Counted,
    count <- completedParts, bytes <- bytesReceived

\* Handlers that work in several statements, side by side, and die between them
\* do to the file and to its parts what Assembly does in single steps
\* (record_upload_part, complete_upload_session).
ImplementsAssembly == Promise!Spec

-----------------------------------------------------------------------------
(* What the documentation claims and the code does not keep *)

\* "init -> in_progress -> complete / failed / aborted" (lifecycle of
\* UploadSession): a complete session does not go back.
CompleteIsFinal == [][session = "complete" => session' \in {"complete", "none"}]_vars
=============================================================================
