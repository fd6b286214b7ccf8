------------------------- MODULE ChunkedUploadProofs -------------------------
(***************************************************************************)
(* What ChunkedUpload promises for any number of handlers, parts and sizes *)
(* of files.  The argument is the inductive invariant IInv of that module. *)
(***************************************************************************)
EXTENDS ChunkedUpload, SumsProofs

\* The number of parts a session expects is a natural number.
LEMMA CeilIsNat ==
    ASSUME NEW m \in Nat, NEW n \in Nat \ {0}
    PROVE  Ceil(m, n) \in Nat
BY DEF Ceil

LEMMA PartsAreFinite ==
    ASSUME NEW S, S \subseteq PartNumbers
    PROVE  IsFiniteSet(S) /\ Cardinality(S) \in Nat
BY ChunkAssumption, FS_Subset, FS_CardinalityType

\* What is counted decides what the counters should be.
LEMMA CountersKeep ==
    ASSUME CountTracksParts, BytesTrackParts, session' = "none" <=> session = "none",
           UNCHANGED <<completedParts, bytesReceived>>, Counted' = Counted
    PROVE  CountTracksParts' /\ BytesTrackParts'
BY DEF CountTracksParts, BytesTrackParts

LEMMA InitIInv == Init => IInv
<1> SUFFICES ASSUME Init PROVE IInv
    OBVIOUS
<1> USE DEF Init
<1>1. TypeOK /\ NoSessionNoParts
    BY DEF TypeOK, NoSessionNoParts
<1>2. CountTracksParts /\ BytesTrackParts /\ StoredHasEnoughParts /\ CompleteSettlesFile
    BY DEF CountTracksParts, BytesTrackParts, StoredHasEnoughParts, CompleteSettlesFile
<1>3. InFlightAreFresh /\ UncountedAreParts /\ CheckedStillHolds
    BY DEF InFlightAreFresh, UncountedAreParts, CheckedStillHolds
<1> QED BY <1>1, <1>2, <1>3 DEF IInv

-----------------------------------------------------------------------------
(* What the steps do to the parts that are counted *)

\* A new row is in flight at once.
LEMMA RecordKeepsCounted ==
    ASSUME IInv, NEW c \in Clients, NEW n \in PartNumbers, RecordPart(c, n)
    PROVE  Counted' = Counted
<1> USE DEF IInv, RecordPart
<1>1. /\ pc'[c] = "counting" /\ part'[c] = n
      /\ \A d \in Clients : d # c => pc'[d] = pc[d] /\ part'[d] = part[d]
    BY DEF TypeOK
<1>2. InFlight' = InFlight \cup {n}
    BY <1>1 DEF InFlight
<1> QED BY <1>2 DEF Counted

\* A part leaves the flight with its handler, as it is nobody else's.
LEMMA LeavesFlight ==
    ASSUME IInv, NEW c \in Clients, pc[c] = "counting", session # "none",
           pc' = [pc EXCEPT ![c] = "idle"], part' = [part EXCEPT ![c] = NoPart]
    PROVE  InFlight' = InFlight \ {part[c]} /\ part[c] \in InFlight /\ part[c] \in parts \ uncounted
<1> USE DEF IInv
<1>1. /\ pc'[c] = "idle"
      /\ \A d \in Clients : d # c => pc'[d] = pc[d] /\ part'[d] = part[d]
    BY DEF TypeOK
<1>2. \A d \in Clients : d # c /\ pc[d] = "counting" => part[d] # part[c]
    BY DEF InFlightAreFresh
<1> QED BY <1>1, <1>2 DEF InFlight, InFlightAreFresh

LEMMA CountAddsPart ==
    ASSUME IInv, NEW c \in Clients, CountPart(c), session # "none"
    PROVE  part[c] \in parts \ Counted /\ Counted' = Counted \cup {part[c]}
BY LeavesFlight DEF CountPart, Counted

\* A part whose handler dies moves from the flight to the uncounted ones.
LEMMA CrashKeepsCounted ==
    ASSUME IInv, NEW c \in Clients, Crash(c), session # "none"
    PROVE  Counted' = Counted
<1> USE DEF Crash, sessionVars
<1>1. CASE pc[c] = "counting"
    BY <1>1, LeavesFlight DEF Counted
<1>2. CASE pc[c] # "counting"
    <2>1. pc'[c] = "idle" /\ \A d \in Clients : d # c => pc'[d] = pc[d] /\ part'[d] = part[d]
        BY DEF IInv, TypeOK
    <2>2. InFlight' = InFlight
        BY <1>2, <2>1 DEF InFlight
    <2> QED BY <1>2, <2>2 DEF Counted
<1> QED BY <1>1, <1>2

\* Completing a session puts no part in flight.
LEMMA CompletionKeepsCounted ==
    ASSUME IInv, NEW c \in Clients, BeginComplete(c) \/ FinishComplete(c)
    PROVE  Counted' = Counted
<1>1. /\ pc[c] # "counting" /\ pc'[c] # "counting" /\ UNCHANGED <<part, parts, uncounted>>
      /\ \A d \in Clients : d # c => pc'[d] = pc[d]
    BY DEF IInv, TypeOK, BeginComplete, FinishComplete, sessionVars
<1>2. InFlight' = InFlight
    BY <1>1 DEF InFlight
<1> QED BY <1>1, <1>2 DEF Counted

-----------------------------------------------------------------------------
(* The steps *)

LEMMA CreateSessionIInv == ASSUME IInv, NEW size \in Sizes, CreateSession(size) PROVE IInv'
<1> USE DEF IInv, CreateSession
<1>1. totalParts' \in Nat
    BY ChunkAssumption, CeilIsNat
<1>2. TypeOK'
    BY <1>1 DEF TypeOK
<1>3. parts = {} /\ completedParts = 0 /\ bytesReceived = 0 /\ file # "stored" /\ \A c \in Clients : pc[c] = "idle"
    BY DEF NoSessionNoParts
<1>4. Counted' = {} /\ Cardinality({}) = 0 /\ Total(SizeOf, {}) = 0
    BY <1>3, FS_EmptySet, TotalOfNone DEF Counted
<1>5. CountTracksParts' /\ BytesTrackParts'
    BY <1>3, <1>4 DEF CountTracksParts, BytesTrackParts
<1>6. StoredHasEnoughParts' /\ CompleteSettlesFile' /\ NoSessionNoParts'
    BY <1>3 DEF StoredHasEnoughParts, CompleteSettlesFile, NoSessionNoParts
<1>7. InFlightAreFresh' /\ UncountedAreParts' /\ CheckedStillHolds'
    BY <1>3 DEF InFlightAreFresh, UncountedAreParts, CheckedStillHolds
<1> QED BY <1>2, <1>5, <1>6, <1>7

LEMMA RecordPartIInv ==
    ASSUME IInv, NEW c \in Clients, NEW n \in PartNumbers, RecordPart(c, n) PROVE IInv'
<1> USE DEF IInv, RecordPart
<1>1. TypeOK'
    BY DEF TypeOK
<1>2. /\ pc' = [pc EXCEPT ![c] = "counting"] /\ part' = [part EXCEPT ![c] = n]
      /\ pc'[c] = "counting" /\ part'[c] = n
      /\ \A d \in Clients : d # c => pc'[d] = pc[d] /\ part'[d] = part[d]
    BY DEF TypeOK
<1>3. CountTracksParts' /\ BytesTrackParts'
    BY RecordKeepsCounted, CountersKeep
<1>4. Cardinality(parts') >= Cardinality(parts)
    <2>1. IsFiniteSet(parts) /\ Cardinality(parts) \in Nat
        BY PartsAreFinite DEF TypeOK
    <2>2. Cardinality(parts') = Cardinality(parts) + 1
        BY <2>1, FS_AddElement
    <2> QED BY <2>1, <2>2
<1>5. Cardinality(parts) \in Nat /\ Cardinality(parts') \in Nat
    BY <1>1, PartsAreFinite DEF TypeOK
<1>6. StoredHasEnoughParts' /\ CompleteSettlesFile'
    BY <1>4, <1>5 DEF TypeOK, StoredHasEnoughParts, CompleteSettlesFile
<1>7. NoSessionNoParts' /\ UncountedAreParts'
    BY DEF NoSessionNoParts, UncountedAreParts
<1>8. InFlightAreFresh'
    BY <1>2 DEF InFlightAreFresh, UncountedAreParts
<1>9. CheckedStillHolds'
    BY <1>2, <1>4, <1>5 DEF TypeOK, CheckedStillHolds
<1> QED BY <1>1, <1>3, <1>6, <1>7, <1>8, <1>9

\* The part that leaves the flight is counted, once.
LEMMA CountPartIInv == ASSUME IInv, NEW c \in Clients, CountPart(c) PROVE IInv'
<1> USE DEF IInv
<1>1. /\ pc[c] = "counting" /\ part[c] \in PartNumbers
      /\ pc' = [pc EXCEPT ![c] = "idle"] /\ part' = [part EXCEPT ![c] = NoPart]
      /\ pc'[c] = "idle"
      /\ \A d \in Clients : d # c => pc'[d] = pc[d] /\ part'[d] = part[d]
      /\ UNCHANGED <<file, totalParts, parts, uncounted>>
    BY DEF TypeOK, CountPart, InFlightAreFresh
<1>2. SizeOf[part[c]] \in Nat
    BY <1>1, ChunkAssumption
<1>3. TypeOK'
    BY <1>1, <1>2 DEF TypeOK, CountPart
<1>4. session' = "none" <=> session = "none"
    BY DEF CountPart
<1>5. InFlightAreFresh'
    BY <1>1, <1>4 DEF InFlightAreFresh
<1>6. CheckedStillHolds' /\ UncountedAreParts'
    BY <1>1, <1>4 DEF CheckedStillHolds, UncountedAreParts
<1>7. StoredHasEnoughParts' /\ CompleteSettlesFile'
    BY <1>1 DEF CountPart, StoredHasEnoughParts, CompleteSettlesFile
<1>8. NoSessionNoParts'
    BY <1>1 DEF CountPart, NoSessionNoParts
<1>9. CountTracksParts' /\ BytesTrackParts'
    <2> SUFFICES ASSUME session # "none"
                 PROVE  /\ completedParts' = Cardinality(Counted')
                        /\ bytesReceived' = Total(SizeOf, Counted')
        BY <1>4 DEF CountTracksParts, BytesTrackParts
    <2>1. Counted' = Counted \cup {part[c]} /\ part[c] \notin Counted
        BY CountAddsPart
    <2>2. IsFiniteSet(Counted) /\ Cardinality(Counted) \in Nat
        BY PartsAreFinite DEF TypeOK, Counted
    <2>3. Cardinality(Counted') = Cardinality(Counted) + 1
        BY <2>1, <2>2, FS_AddElement
    <2>4. Total(SizeOf, Counted') = Total(SizeOf, Counted) + SizeOf[part[c]]
        <3>1. Counted \subseteq PartNumbers
            BY DEF TypeOK, Counted
        <3> QED BY <1>1, <2>1, <3>1, ChunkAssumption, TotalOfOneMore
    <2> QED BY <2>3, <2>4 DEF CountPart, CountTracksParts, BytesTrackParts
<1> QED BY <1>3, <1>5, <1>6, <1>7, <1>8, <1>9

LEMMA BeginCompleteIInv == ASSUME IInv, NEW c \in Clients, BeginComplete(c) PROVE IInv'
<1> USE DEF IInv, BeginComplete, sessionVars
<1>1. TypeOK'
    BY DEF TypeOK
<1>2. pc'[c] = "completing" /\ \A d \in Clients : d # c => pc'[d] = pc[d]
    BY DEF TypeOK
<1>3. CountTracksParts' /\ BytesTrackParts' /\ StoredHasEnoughParts' /\ CompleteSettlesFile'
    BY CompletionKeepsCounted, CountersKeep DEF StoredHasEnoughParts, CompleteSettlesFile
<1>4. NoSessionNoParts' /\ UncountedAreParts'
    BY DEF NoSessionNoParts, UncountedAreParts
<1>5. InFlightAreFresh' /\ CheckedStillHolds'
    BY <1>2 DEF InFlightAreFresh, CheckedStillHolds
<1> QED BY <1>1, <1>3, <1>4, <1>5

LEMMA FinishCompleteIInv == ASSUME IInv, NEW c \in Clients, FinishComplete(c) PROVE IInv'
<1> USE DEF IInv, FinishComplete
<1>1. TypeOK'
    BY DEF TypeOK
<1>2. pc'[c] = "idle" /\ \A d \in Clients : d # c => pc'[d] = pc[d]
    BY DEF TypeOK
<1>3. session' = "none" <=> session = "none"
    OBVIOUS
<1>4. CountTracksParts' /\ BytesTrackParts'
    BY <1>3, CompletionKeepsCounted, CountersKeep
<1>5. StoredHasEnoughParts'
    BY DEF StoredHasEnoughParts, CheckedStillHolds
<1>6. CompleteSettlesFile' /\ NoSessionNoParts' /\ UncountedAreParts'
    BY <1>2 DEF CompleteSettlesFile, NoSessionNoParts, UncountedAreParts
<1>7. InFlightAreFresh' /\ CheckedStillHolds'
    BY <1>2, <1>3 DEF InFlightAreFresh, CheckedStillHolds
<1> QED BY <1>1, <1>4, <1>5, <1>6, <1>7

LEMMA CrashIInv == ASSUME IInv, NEW c \in Clients, Crash(c) PROVE IInv'
<1> USE DEF IInv, Crash, sessionVars
<1>1. pc'[c] = "idle" /\ \A d \in Clients : d # c => pc'[d] = pc[d] /\ part'[d] = part[d]
    BY DEF TypeOK
<1>2. TypeOK'
    BY DEF TypeOK, InFlightAreFresh
<1>3. StoredHasEnoughParts' /\ CompleteSettlesFile' /\ CheckedStillHolds'
    BY <1>1 DEF StoredHasEnoughParts, CompleteSettlesFile, CheckedStillHolds
<1>4. NoSessionNoParts' /\ UncountedAreParts' /\ InFlightAreFresh'
    BY <1>1 DEF NoSessionNoParts, UncountedAreParts, InFlightAreFresh
<1>5. CountTracksParts' /\ BytesTrackParts'
    <2>1. CASE session = "none"
        BY <2>1 DEF CountTracksParts, BytesTrackParts
    <2>2. CASE session # "none"
        BY <2>2, CrashKeepsCounted, CountersKeep
    <2> QED BY <2>1, <2>2
<1> QED BY <1>2, <1>3, <1>4, <1>5

LEMMA MarkFileFailedIInv == ASSUME IInv, MarkFileFailed PROVE IInv'
<1> USE DEF IInv, MarkFileFailed, sessionVars
<1>1. TypeOK' /\ NoSessionNoParts' /\ UncountedAreParts'
    BY DEF TypeOK, NoSessionNoParts, UncountedAreParts
<1>2. CountTracksParts' /\ BytesTrackParts' /\ StoredHasEnoughParts' /\ CompleteSettlesFile'
    BY CountersKeep DEF Counted, InFlight, StoredHasEnoughParts, CompleteSettlesFile
<1>3. InFlightAreFresh' /\ CheckedStillHolds'
    BY DEF InFlightAreFresh, CheckedStillHolds
<1> QED BY <1>1, <1>2, <1>3

LEMMA ExpireIInv == ASSUME IInv, Expire PROVE IInv'
<1> USE DEF IInv, Expire
<1>1. TypeOK' /\ NoSessionNoParts' /\ UncountedAreParts'
    BY DEF TypeOK, NoSessionNoParts, UncountedAreParts
<1>2. CountTracksParts' /\ BytesTrackParts' /\ StoredHasEnoughParts' /\ CompleteSettlesFile'
    BY DEF CountTracksParts, BytesTrackParts, StoredHasEnoughParts, CompleteSettlesFile
<1>3. InFlightAreFresh' /\ CheckedStillHolds'
    BY DEF InFlightAreFresh, CheckedStillHolds
<1> QED BY <1>1, <1>2, <1>3

LEMMA UnchangedIInv == ASSUME IInv, UNCHANGED vars PROVE IInv'
<1> USE DEF IInv, vars, sessionVars
<1>1. TypeOK' /\ NoSessionNoParts' /\ UncountedAreParts'
    BY DEF TypeOK, NoSessionNoParts, UncountedAreParts
<1>2. CountTracksParts' /\ BytesTrackParts' /\ StoredHasEnoughParts' /\ CompleteSettlesFile'
    BY CountersKeep DEF Counted, InFlight, StoredHasEnoughParts, CompleteSettlesFile
<1>3. InFlightAreFresh' /\ CheckedStillHolds'
    BY DEF InFlightAreFresh, CheckedStillHolds
<1> QED BY <1>1, <1>2, <1>3

-----------------------------------------------------------------------------
(* The theorems *)

\* The inductive invariant holds in every behaviour of a chunked upload.
THEOREM ChunkedInvariant == Spec => []IInv
<1>1. IInv /\ [Next]_vars => IInv'
    BY CreateSessionIInv, RecordPartIInv, CountPartIInv, BeginCompleteIInv, FinishCompleteIInv,
       CrashIInv, MarkFileFailedIInv, ExpireIInv, UnchangedIInv DEF Next
<1> QED BY <1>1, InitIInv, PTL DEF Spec

\* Type correctness, which needs that the counters only grow and that parts in
\* flight are parts.
THEOREM ChunkedTypeOK == Spec => []TypeOK
<1>1. IInv => TypeOK
    BY DEF IInv
<1> QED BY <1>1, ChunkedInvariant, PTL

\* completed_parts counts the received parts once each, for any number of
\* handlers recording at once.
THEOREM ChunkedCountTracksParts == Spec => []CountTracksParts
<1>1. IInv => CountTracksParts
    BY DEF IInv
<1> QED BY <1>1, ChunkedInvariant, PTL

\* bytes_received is the sum of their sizes, for any sizes.
THEOREM ChunkedBytesTrackParts == Spec => []BytesTrackParts
<1>1. IInv => BytesTrackParts
    BY DEF IInv
<1> QED BY <1>1, ChunkedInvariant, PTL

\* No interleaving stores a file with fewer parts than its session expects.
THEOREM ChunkedStoredHasEnoughParts == Spec => []StoredHasEnoughParts
<1>1. IInv => StoredHasEnoughParts
    BY DEF IInv
<1> QED BY <1>1, ChunkedInvariant, PTL

\* Enough parts, none of them beyond the expected ones, are all of them.
LEMMA EnoughAreAll ==
    ASSUME TypeOK, parts \subseteq 1 .. totalParts, Cardinality(parts) >= totalParts
    PROVE  parts = 1 .. totalParts
<1>1. IsFiniteSet(1 .. totalParts) /\ Cardinality(1 .. totalParts) = totalParts
    BY FS_Interval DEF TypeOK
<1>2. Cardinality(parts) \in Nat
    BY PartsAreFinite DEF TypeOK
<1>3. Cardinality(parts) <= Cardinality(1 .. totalParts)
    BY <1>1, FS_Subset
<1>4. Cardinality(parts) = Cardinality(1 .. totalParts)
    BY <1>1, <1>2, <1>3 DEF TypeOK
<1> QED BY <1>1, <1>4, FS_Subset

\* If clients number the parts from 1 to the number expected, a stored file has
\* each of its parts, for any number of handlers and parts.
THEOREM ChunkedStoredHasEveryPart == Spec => []StoredHasEveryPart
<1>1. IInv => StoredHasEveryPart
    BY EnoughAreAll DEF IInv, StoredHasEnoughParts, StoredHasEveryPart
<1> QED BY <1>1, ChunkedInvariant, PTL

\* A completed session has settled its file.
THEOREM ChunkedCompleteSettlesFile == Spec => []CompleteSettlesFile
<1>1. IInv => CompleteSettlesFile
    BY DEF IInv
<1> QED BY <1>1, ChunkedInvariant, PTL

\* A file marked failed is never stored afterwards.
THEOREM ChunkedFailedFileStaysFailed == Spec => FailedFileStaysFailed
<1>1. [Next]_vars => [file = "failed" => file' \in {"failed", "gone"}]_vars
    BY DEF Next, vars, sessionVars, CreateSession, RecordPart, CountPart, BeginComplete,
           FinishComplete, Crash, MarkFileFailed, Expire
<1> QED BY <1>1, PTL DEF Spec, FailedFileStaysFailed

-----------------------------------------------------------------------------
(* The handlers implement Assembly *)

LEMMA InitRefines == Init => Promise!Init
BY DEF Init, Promise!Init, Promise!Empty, Counted

\* What Assembly does not see: where the handlers are and the session's status.
LEMMA UnseenRefines ==
    ASSUME UNCHANGED <<file, totalParts, completedParts, bytesReceived, parts>>,
           session' = "none" <=> session = "none", Counted' = Counted
    PROVE  UNCHANGED Promise!vars
BY DEF Promise!vars, Promise!session

\* Without a session there are no parts, whatever is still in flight.
LEMMA NoSessionNoCounted ==
    ASSUME IInv, session = "none"
    PROVE  parts = {} /\ Counted = {}
BY DEF IInv, NoSessionNoParts, Counted

LEMMA CreateSessionRefines ==
    ASSUME IInv, NEW size \in Sizes, CreateSession(size) PROVE Promise!Next
<1>1. totalParts' \in Nat
    BY ChunkAssumption, CeilIsNat DEF CreateSession
<1>2. Counted = {} /\ Counted' = {}
    BY NoSessionNoCounted DEF CreateSession, Counted
<1>3. Promise!Open
    BY <1>1, <1>2 DEF CreateSession, Promise!Open
<1> QED BY <1>3 DEF Promise!Next

LEMMA RecordPartRefines ==
    ASSUME IInv, NEW c \in Clients, NEW n \in PartNumbers, RecordPart(c, n) PROVE Promise!Next
<1>1. Promise!Receive(n)
    BY RecordKeepsCounted DEF RecordPart, Promise!Receive
<1> QED BY <1>1 DEF Promise!Next

\* The update of a session that was deleted does nothing.
LEMMA CountPartRefines ==
    ASSUME IInv, NEW c \in Clients, CountPart(c) PROVE [Promise!Next]_Promise!vars
<1>1. CASE session = "none"
    <2>1. Counted = {} /\ Counted' = {}
        BY <1>1, NoSessionNoCounted DEF CountPart, Counted
    <2> QED BY <1>1, <2>1, UnseenRefines DEF CountPart
<1>2. CASE session # "none"
    <2>1. part[c] \in PartNumbers
        BY DEF IInv, InFlightAreFresh, CountPart
    <2>2. Promise!Count(part[c])
        BY <1>2, CountAddsPart DEF CountPart, Promise!Count
    <2> QED BY <2>1, <2>2 DEF Promise!Next
<1> QED BY <1>1, <1>2

LEMMA BeginCompleteRefines ==
    ASSUME IInv, NEW c \in Clients, BeginComplete(c) PROVE UNCHANGED Promise!vars
BY CompletionKeepsCounted, UnseenRefines DEF BeginComplete, sessionVars

\* The instance of Assembly brings an operator of its own.
LEMMA SameCardinality == ASSUME NEW S PROVE Promise!Cardinality(S) = Cardinality(S)
BY DEF Promise!Cardinality, Cardinality

\* The parts that an earlier statement counted are still there.
LEMMA FinishCompleteRefines ==
    ASSUME IInv, NEW c \in Clients, FinishComplete(c) PROVE [Promise!Next]_Promise!vars
<1>1. CASE session # "none" /\ file = "uploading"
    <2>1. Cardinality(parts) >= totalParts
        BY <1>1 DEF IInv, CheckedStillHolds, FinishComplete
    <2>2. Promise!Store
        BY <1>1, <2>1, CompletionKeepsCounted, SameCardinality DEF FinishComplete, Promise!Store, Promise!session
    <2> QED BY <2>2 DEF Promise!Next
<1>2. CASE ~(session # "none" /\ file = "uploading")
    BY <1>2, CompletionKeepsCounted, UnseenRefines DEF FinishComplete
<1> QED BY <1>1, <1>2

LEMMA CrashRefines ==
    ASSUME IInv, NEW c \in Clients, Crash(c) PROVE UNCHANGED Promise!vars
<1>1. Counted' = Counted
    <2>1. CASE session = "none"
        BY <2>1, NoSessionNoCounted DEF Crash, sessionVars, Counted
    <2>2. CASE session # "none"
        BY <2>2, CrashKeepsCounted
    <2> QED BY <2>1, <2>2
<1> QED BY <1>1, UnseenRefines DEF Crash, sessionVars

LEMMA MarkFileFailedRefines == ASSUME MarkFileFailed PROVE Promise!Next
<1>1. Promise!Fail
    BY DEF MarkFileFailed, sessionVars, Counted, InFlight, Promise!Fail, Promise!session
<1> QED BY <1>1 DEF Promise!Next

LEMMA ExpireRefines == ASSUME Expire PROVE Promise!Next
<1>1. Promise!Remove
    BY DEF Expire, Counted, Promise!Remove, Promise!Empty
<1> QED BY <1>1 DEF Promise!Next

\* The statements of handlers that run side by side and die between them add up to
\* parts that are received once and counted once, and to a file that is stored in
\* one step, when its session has enough parts.
THEOREM ChunkedImplementsAssembly == Spec => ImplementsAssembly
<1>1. IInv /\ UNCHANGED vars => UNCHANGED Promise!vars
    BY UnseenRefines DEF vars, sessionVars, Counted, InFlight
<1>2. IInv /\ [Next]_vars => [Promise!Next]_Promise!vars
    BY <1>1, CreateSessionRefines, RecordPartRefines, CountPartRefines, BeginCompleteRefines,
       FinishCompleteRefines, CrashRefines, MarkFileFailedRefines, ExpireRefines DEF Next
<1> QED BY <1>2, InitRefines, ChunkedInvariant, PTL DEF Spec, ImplementsAssembly, Promise!Spec
=============================================================================
