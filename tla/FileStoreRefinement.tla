------------------------- MODULE FileStoreRefinement -------------------------
(***************************************************************************)
(* FileStore implements Custody, for every value of the constants.  What   *)
(* makes a step of a request, a task or an administrator one that Custody  *)
(* allows is what IInv, the inductive invariant of FileStoreProofs, says   *)
(* of the files that the request, the task or the form still holds.        *)
(***************************************************************************)
EXTENDS FileStoreProofs

LEMMA InitRefines == Init => Promise!Init
BY DEF Init, Promise!Init

\* The variables that Custody sees.
CustodyVars == <<row, blobs, age, announced, warned, faulted>>

LEMMA UnseenRefines == ASSUME UNCHANGED CustodyVars PROVE UNCHANGED Promise!vars
BY DEF CustodyVars, Promise!vars

-----------------------------------------------------------------------------
(* The steps of a request *)

\* The new blob is that of a file of which nothing is known.
LEMMA StoreBlobRefines ==
    ASSUME IInv, NEW r \in Requests, NEW f \in Files, StoreBlob(r, f) PROVE Promise!Next
<1>1. request[f] = NoRequest
    BY StoreAssumption DEF StoreBlob, Started, Files
<1>2. IsNew(f) /\ f \notin blobs
    BY <1>1 DEF IInv, UnstartedAreBlank
<1>3. Promise!Receive(f)
    BY <1>2 DEF StoreBlob, IsNew, Promise!Receive, Promise!IsNew
<1> QED BY <1>3 DEF Promise!Next

LEMMA InsertStoredRefines ==
    ASSUME IInv, NEW r \in Requests, InsertStored(r) PROVE Promise!Next
<1>1. PICK f \in Current(r) : /\ row' = [row EXCEPT ![f] = "stored"]
                              /\ announced' = announced \cup {f}
    BY DEF InsertStored
<1>2. f \in Files /\ IsNew(f) /\ f \in blobs
    BY CurrentIsOwn DEF IInv, CurrentIsBlobOnly
<1>3. Promise!Store(f)
    BY <1>1, <1>2 DEF InsertStored, IsNew, Promise!Store, Promise!IsNew
<1> QED BY <1>2, <1>3 DEF Promise!Next

LEMMA InsertFailedRefines ==
    ASSUME IInv, NEW r \in Requests, InsertFailed(r) PROVE Promise!Next
<1>1. PICK f \in Current(r) : row' = [row EXCEPT ![f] = "failed"]
    BY DEF InsertFailed
<1>2. f \in Files /\ IsNew(f) /\ f \in blobs
    BY CurrentIsOwn DEF IInv, CurrentIsBlobOnly
<1>3. Promise!TurnDown(f)
    BY <1>1, <1>2 DEF InsertFailed, IsNew, Promise!TurnDown, Promise!IsNew
<1> QED BY <1>2, <1>3 DEF Promise!Next

\* The file in progress, if there is one, is given up; it has no row yet.
LEMMA RequestFailsRefines ==
    ASSUME IInv, NEW r \in Requests, RequestFails(r) PROVE [Promise!Next]_Promise!vars
<1>1. CASE Current(r) = {}
    <2>1. faulted' = faulted
        BY <1>1 DEF RequestFails
    <2> QED BY <2>1, UnseenRefines DEF RequestFails, CustodyVars
<1>2. CASE Current(r) # {}
    <2>1. PICK f \in Current(r) : TRUE
        BY <1>2
    <2>2. Current(r) = {f}
        BY <2>1, CurrentIsUnique
    <2>3. f \in Files /\ row[f] = "absent"
        BY <2>1, CurrentIsOwn DEF IInv, CurrentIsBlobOnly, IsNew
    <2>4. row' = [row EXCEPT ![f] = "absent"]
        BY <2>3 DEF IInv, TypeOK, RequestFails
    <2>5. Promise!Withdraw(f)
        BY <2>2, <2>4 DEF RequestFails, Promise!Withdraw
    <2> QED BY <2>3, <2>5 DEF Promise!Next
<1> QED BY <1>1, <1>2

LEMMA RequestStepRefines ==
    ASSUME IInv, NEW r \in Requests, RequestStep(r) PROVE [Promise!Next]_Promise!vars
<1>1. CASE CreateBatch(r)
    BY <1>1, UnseenRefines DEF CreateBatch, CustodyVars
<1>2. CASE FinalizeBatch(r)
    BY <1>2, UnseenRefines DEF FinalizeBatch, CustodyVars
<1> QED BY <1>1, <1>2, StoreBlobRefines, InsertStoredRefines, InsertFailedRefines DEF RequestStep

-----------------------------------------------------------------------------
(* The steps of rows and of administrators *)

LEMMA GrowOlderRefines == ASSUME NEW f \in Files, GrowOlder(f) PROVE Promise!Next
<1>1. Promise!GrowOlder(f)
    BY DEF GrowOlder, IsLive, requestVars, Promise!GrowOlder
<1> QED BY <1>1 DEF Promise!Next

LEMMA MarkFileFailedRefines == ASSUME NEW f \in Files, MarkFileFailed(f) PROVE Promise!Next
<1>1. Promise!Correct(f, "failed")
    BY DEF MarkFileFailed, IsLive, Promise!Correct
<1> QED BY <1>1 DEF Promise!Next

LEMMA AdminDeleteRefines == ASSUME NEW f \in Files, AdminDelete(f) PROVE Promise!Next
<1>1. Promise!Withdraw(f)
    BY DEF AdminDelete, Promise!Withdraw
<1> QED BY <1>1 DEF Promise!Next

\* What the form writes is a status that it read.  The file is not taken over when
\* the form leaves its batch and its blob alone and its row is there still.
LEMMA SaveFormRefines == ASSUME IInv, NEW f \in Files, SaveForm(f) PROVE Promise!Next
<1>1. /\ form[f] \in {"stored", "failed"} /\ row' = [row EXCEPT ![f] = form[f]]
      /\ ~IsNew(f) /\ (form[f] = "stored" => f \in announced)
      /\ age' = IF IsLive(f) THEN age ELSE [age EXCEPT ![f] = "fresh"]
      /\ UNCHANGED <<announced, warned>>
    BY DEF SaveForm, IInv, TypeOK, FormsAreHarmless
<1>2. \/ faulted' = faulted /\ blobs' = blobs /\ IsLive(f)
      \/ faulted' = faulted \cup {f} /\ blobs' \in {blobs, blobs \cup {f}}
    BY DEF SaveForm
<1>3. CASE faulted' = faulted /\ blobs' = blobs /\ IsLive(f)
    <2>1. Promise!Correct(f, form[f])
        BY <1>1, <1>3 DEF IsLive, Promise!Correct
    <2> QED BY <1>1, <2>1 DEF Promise!Next
<1>4. CASE faulted' = faulted \cup {f} /\ blobs' \in {blobs, blobs \cup {f}}
    <2>1. Promise!TakeOver(f, form[f])
        BY <1>1, <1>4 DEF IsLive, IsNew, Promise!TakeOver, Promise!IsNew
    <2> QED BY <1>1, <2>1 DEF Promise!Next
<1> QED BY <1>2, <1>3, <1>4

-----------------------------------------------------------------------------
(* The steps of the notification and of the cleanup *)

LEMMA NotifyRefines == ASSUME IInv, NEW f \in Files, Notify(f) PROVE Promise!Next
<1>1. Promise!Warn(f)
    BY DEF Notify, IInv, ExpiringWereAnnounced, Promise!Warn
<1> QED BY <1>1 DEF Promise!Next

LEMMA DeleteBlobRefines == ASSUME IInv, NEW f \in Files, DeleteBlob(f) PROVE Promise!Next
<1>1. Promise!Discard(f)
    BY DEF DeleteBlob, IInv, TypeOK, DoomedAreExpired, Promise!Discard
<1> QED BY <1>1 DEF Promise!Next

LEMMA DeleteRowsRefines == ASSUME IInv, DeleteRows PROVE Promise!Next
<1>1. Promise!Forget(doomed)
    BY DEF DeleteRows, IInv, DoomedAreExpired, VisitedAreGone, Promise!Forget
<1>2. doomed \in SUBSET Files
    BY DEF IInv, TypeOK
<1> QED BY <1>1, <1>2 DEF Promise!Next

\* The other steps change what requests, tasks and forms hold, and nothing else.
LEMMA OthersRefine ==
    ASSUME \/ \E f \in Files : OpenForm(f)
           \/ StartNotify \/ NotifyFails \/ SelectExpired \/ ReadExpired \/ CleanupFails
           \/ UNCHANGED vars
    PROVE  UNCHANGED Promise!vars
<1>1. UNCHANGED CustodyVars
    BY DEF OpenForm, StartNotify, NotifyFails, SelectExpired, ReadExpired, CleanupFails, vars, CustodyVars
<1> QED BY <1>1, UnseenRefines

-----------------------------------------------------------------------------
(* The theorem *)

\* Every step of FileStore is one of Custody, or changes nothing Custody sees.
LEMMA NextRefines == IInv /\ [Next]_vars => [Promise!Next]_Promise!vars
<1> SUFFICES ASSUME IInv, [Next]_vars PROVE [Promise!Next]_Promise!vars
    OBVIOUS
<1>1. CASE \E r \in Requests : RequestStep(r)
    BY <1>1, RequestStepRefines
<1>2. CASE Fault
    BY <1>2, RequestFailsRefines, OthersRefine DEF Fault
<1>3. CASE \E f \in Files : \/ GrowOlder(f) \/ MarkFileFailed(f) \/ AdminDelete(f)
                            \/ SaveForm(f) \/ Notify(f) \/ DeleteBlob(f)
    BY <1>3, GrowOlderRefines, MarkFileFailedRefines, AdminDeleteRefines, SaveFormRefines,
       NotifyRefines, DeleteBlobRefines
<1>4. CASE DeleteRows
    BY <1>4, DeleteRowsRefines
<1>5. CASE (\E f \in Files : OpenForm(f)) \/ StartNotify \/ SelectExpired \/ ReadExpired
          \/ UNCHANGED vars
    BY <1>5, OthersRefine
<1> QED BY <1>1, <1>2, <1>3, <1>4, <1>5 DEF Next

\* Uploads, the notification, the cleanup and the forms of administrators, each of
\* which acts on what it read before and may stop anywhere, together do to files
\* only what Custody allows.
THEOREM FilesImplementCustody == Spec => ImplementsCustody
BY InitRefines, NextRefines, FilesInvariant, PTL DEF Spec, ImplementsCustody, Promise!Spec
=============================================================================
