--------------------------- MODULE FileStoreProofs ---------------------------
(***************************************************************************)
(* What FileStore promises for any number of files and requests and any    *)
(* size of the cleanup's batches.  The argument is the inductive invariant *)
(* IInv of that module.                                                    *)
(***************************************************************************)
EXTENDS FileStore, TLAPS

\* A request stores one file at a time.
LEMMA CurrentIsUnique ==
    ASSUME NEW r \in Requests, NEW f \in Current(r), NEW g \in Current(r)
    PROVE  f = g
BY DEF Current, Files

\* The files of two requests are different ones.
LEMMA CurrentIsOwn ==
    ASSUME NEW r \in Requests, NEW f \in Current(r)
    PROVE  f \in Files /\ request[f] = r /\ pc[r] \in {"valid", "invalid"}
BY DEF Current

LEMMA InitIInv == Init => IInv
<1> SUFFICES ASSUME Init PROVE IInv
    OBVIOUS
<1> USE DEF Init
<1>1. TypeOK /\ StoredIsAnnounced /\ WarnedWereAnnounced /\ ExpiringWereAnnounced
    BY StoreAssumption DEF TypeOK, StoredIsAnnounced, WarnedWereAnnounced, ExpiringWereAnnounced
<1>2. UnstartedAreBlank /\ CurrentIsBlobOnly /\ DoomedAreExpired /\ VisitedAreGone
    BY DEF UnstartedAreBlank, CurrentIsBlobOnly, Current, DoomedAreExpired, VisitedAreGone, IsNew
<1>3. NoLiveFileLosesItsBlob /\ OrphansAreFaults
    BY DEF NoLiveFileLosesItsBlob, OrphansAreFaults, IsLive
<1>4. CompleteBatchIsAnnounced /\ CompleteIsDone
    BY DEF CompleteBatchIsAnnounced, CompleteIsDone
<1>5. OpenAreFresh /\ FormsAreHarmless
    BY DEF OpenAreFresh, FormsAreHarmless
<1> QED BY <1>1, <1>2, <1>3, <1>4, <1>5 DEF IInv

-----------------------------------------------------------------------------
(* The steps of a request *)

LEMMA CreateBatchIInv == ASSUME IInv, NEW r \in Requests, CreateBatch(r) PROVE IInv'
<1> USE DEF IInv, CreateBatch, requestVars, taskVars, cleanupVars
<1>1. TypeOK' /\ DoomedAreExpired' /\ VisitedAreGone'
    BY DEF TypeOK, DoomedAreExpired, VisitedAreGone
<1>2. StoredIsAnnounced' /\ WarnedWereAnnounced' /\ ExpiringWereAnnounced'
    BY DEF StoredIsAnnounced, WarnedWereAnnounced, ExpiringWereAnnounced
<1>3. UnstartedAreBlank' /\ CurrentIsBlobOnly'
    BY DEF UnstartedAreBlank, CurrentIsBlobOnly, Current, IsLive, IsNew
<1>4. NoLiveFileLosesItsBlob' /\ OrphansAreFaults'
    BY DEF NoLiveFileLosesItsBlob, OrphansAreFaults, IsLive, Current
<1>5. CompleteBatchIsAnnounced' /\ CompleteIsDone'
    BY DEF CompleteBatchIsAnnounced, CompleteIsDone, Members, IsLive
<1>6. OpenAreFresh' /\ FormsAreHarmless'
    BY DEF OpenAreFresh, FormsAreHarmless, IsNew, TypeOK
<1> QED BY <1>1, <1>2, <1>3, <1>4, <1>5, <1>6

\* The new file is the newest of all, so it becomes the current one of its
\* request and of no other.
LEMMA StoreBlobIInv ==
    ASSUME IInv, NEW r \in Requests, NEW f \in Files, StoreBlob(r, f) PROVE IInv'
<1> USE DEF IInv, StoreBlob, taskVars, cleanupVars
<1>1. f \notin Started /\ request[f] = NoRequest /\ r # NoRequest
    BY StoreAssumption DEF Started, Files
<1>2. row[f] = "absent" /\ f \notin blobs /\ age[f] = "fresh" /\ f \notin announced \cup faulted
    BY <1>1 DEF UnstartedAreBlank, IsNew
<1>3. f \notin doomed
    BY <1>2 DEF DoomedAreExpired
<1>4. /\ request' = [request EXCEPT ![f] = r] /\ request'[f] = r
      /\ \A g \in Files : g # f => request'[g] = request[g]
      /\ \A q \in Requests : q # r => pc'[q] = pc[q]
      /\ pc[r] = "open" /\ pc'[r] \in {"valid", "invalid"}
    BY DEF TypeOK
<1>5. Current(r)' = {f}
  <2>1. \A g \in Files : request'[g] = r => g <= f
      BY <1>4, StoreAssumption DEF Started, Files
  <2> QED BY <1>4, <2>1, CurrentIsUnique DEF Current, Files
<1>6. \A q \in Requests : q # r => Current(q)' = Current(q)
    BY <1>1, <1>4, StoreAssumption DEF Current
<1>7. Current(r) = {}
    BY <1>4 DEF Current
<1>8. TypeOK'
    BY DEF TypeOK
<1>9. StoredIsAnnounced' /\ WarnedWereAnnounced' /\ ExpiringWereAnnounced' /\ DoomedAreExpired'
    BY DEF StoredIsAnnounced, WarnedWereAnnounced, ExpiringWereAnnounced, DoomedAreExpired
<1>10. VisitedAreGone'
    BY <1>3 DEF VisitedAreGone
<1>11. UnstartedAreBlank'
    BY <1>1, <1>4 DEF UnstartedAreBlank, IsNew
<1>12. CurrentIsBlobOnly'
    BY <1>2, <1>5, <1>6 DEF CurrentIsBlobOnly, IsNew
<1>13. NoLiveFileLosesItsBlob'
    BY DEF NoLiveFileLosesItsBlob, IsLive
<1>14. OrphansAreFaults'
    BY <1>5, <1>6, <1>7 DEF OrphansAreFaults, IsLive
<1>15. CompleteBatchIsAnnounced' /\ CompleteIsDone'
    BY <1>2, <1>4 DEF CompleteBatchIsAnnounced, CompleteIsDone, Members, IsLive
<1>16. OpenAreFresh'
    BY <1>2, <1>4 DEF OpenAreFresh, TypeOK
<1>17. FormsAreHarmless'
    BY DEF FormsAreHarmless, IsNew
<1> QED BY <1>8, <1>9, <1>10, <1>11, <1>12, <1>13, <1>14, <1>15, <1>16, <1>17

\* What both inserts have in common: the current file gets its row, and the
\* request has no current file for a while.
LEMMA RowInserted ==
    ASSUME IInv, NEW r \in Requests, NEW f \in Current(r), NEW status \in {"stored", "failed"},
           row' = [row EXCEPT ![f] = status], pc' = [pc EXCEPT ![r] = "open"],
           announced' \in {announced, announced \cup {f}},
           UNCHANGED <<blobs, age, batch, request, taskVars, form, saves, faulted>>,
           batchOf' = [batchOf EXCEPT ![f] = r]
    PROVE  /\ UnstartedAreBlank' /\ CurrentIsBlobOnly'
           /\ NoLiveFileLosesItsBlob' /\ OrphansAreFaults'
           /\ DoomedAreExpired' /\ VisitedAreGone' /\ CompleteIsDone'
           /\ OpenAreFresh' /\ FormsAreHarmless'
<1> USE DEF IInv, taskVars, cleanupVars
<1>1. /\ f \in Files /\ request[f] = r /\ pc[r] \in {"valid", "invalid"}
      /\ row[f] = "absent" /\ f \in blobs /\ age[f] = "fresh"
    BY CurrentIsOwn DEF CurrentIsBlobOnly, IsNew
<1>2. /\ row'[f] = status /\ \A g \in Files : g # f => row'[g] = row[g]
      /\ pc'[r] = "open" /\ \A q \in Requests : q # r => pc'[q] = pc[q]
    BY <1>1 DEF TypeOK
<1>3. Current(r)' = {} /\ \A q \in Requests : q # r => Current(q)' = Current(q) /\ f \notin Current(q)
    BY <1>1, <1>2 DEF Current
<1>4. UnstartedAreBlank'
    BY <1>1, <1>2, StoreAssumption DEF UnstartedAreBlank, IsNew
<1>5. CurrentIsBlobOnly'
  <2> SUFFICES ASSUME NEW q \in Requests, NEW g \in Current(q)'
               PROVE  /\ row'[g] = "absent" /\ g \in blobs /\ age[g] = "fresh"
                      /\ g \notin announced' \cup faulted
      BY DEF CurrentIsBlobOnly, IsNew
  <2>1. q # r /\ g \in Current(q) /\ g # f
      BY <1>3
  <2>2. g \in Files
      BY <2>1, CurrentIsOwn
  <2> QED BY <1>2, <2>1, <2>2 DEF CurrentIsBlobOnly, IsNew
<1>6. NoLiveFileLosesItsBlob'
    BY <1>1, <1>2 DEF NoLiveFileLosesItsBlob, IsLive
<1>7. OrphansAreFaults'
  <2> SUFFICES ASSUME NEW g \in blobs
               PROVE  row'[g] # "absent" \/ g \in faulted \/ \E q \in Requests : g \in Current(q)'
      BY DEF OrphansAreFaults, IsLive
  <2>1. CASE g = f
      BY <1>2, <2>1
  <2>2. CASE g # f
    <3>1. g \in Files /\ row'[g] = row[g]
        BY <1>2, <2>2 DEF TypeOK
    <3>2. g \notin Current(r)
        BY <2>2, CurrentIsUnique
    <3> QED BY <1>3, <3>1, <3>2 DEF OrphansAreFaults, IsLive
  <2> QED BY <2>1, <2>2
<1>8. DoomedAreExpired' /\ VisitedAreGone'
    BY DEF DoomedAreExpired, VisitedAreGone
<1>9. CompleteIsDone'
    BY <1>1, <1>2 DEF CompleteIsDone
<1>10. OpenAreFresh'
    BY <1>1, <1>2 DEF OpenAreFresh
<1>11. FormsAreHarmless'
    BY <1>1, <1>2 DEF FormsAreHarmless, CurrentIsBlobOnly, IsNew
<1> QED BY <1>4, <1>5, <1>6, <1>7, <1>8, <1>9, <1>10, <1>11

LEMMA InsertStoredIInv == ASSUME IInv, NEW r \in Requests, InsertStored(r) PROVE IInv'
<1> USE DEF IInv, InsertStored, taskVars, cleanupVars
<1>1. PICK f \in Current(r) : /\ row' = [row EXCEPT ![f] = "stored"]
                              /\ batchOf' = [batchOf EXCEPT ![f] = r]
                              /\ announced' = announced \cup {f}
    OBVIOUS
<1>2. f \in Files /\ request[f] = r /\ pc[r] = "valid"
    BY CurrentIsOwn
<1>3. TypeOK'
    BY <1>1, <1>2 DEF TypeOK
<1>4. StoredIsAnnounced' /\ WarnedWereAnnounced' /\ ExpiringWereAnnounced'
    BY <1>1, <1>2 DEF TypeOK, StoredIsAnnounced, WarnedWereAnnounced, ExpiringWereAnnounced
<1>5. CompleteBatchIsAnnounced'
    BY <1>1, <1>2 DEF TypeOK, CompleteBatchIsAnnounced, Members, IsLive
<1>6. /\ UnstartedAreBlank' /\ CurrentIsBlobOnly' /\ NoLiveFileLosesItsBlob'
      /\ OrphansAreFaults' /\ DoomedAreExpired' /\ VisitedAreGone' /\ CompleteIsDone'
      /\ OpenAreFresh' /\ FormsAreHarmless'
    BY <1>1, RowInserted
<1> QED BY <1>3, <1>4, <1>5, <1>6

LEMMA InsertFailedIInv == ASSUME IInv, NEW r \in Requests, InsertFailed(r) PROVE IInv'
<1> USE DEF IInv, InsertFailed, taskVars, cleanupVars
<1>1. PICK f \in Current(r) : /\ row' = [row EXCEPT ![f] = "failed"]
                              /\ batchOf' = [batchOf EXCEPT ![f] = r]
    OBVIOUS
<1>2. f \in Files /\ request[f] = r /\ pc[r] = "invalid"
    BY CurrentIsOwn
<1>3. TypeOK'
    BY <1>1, <1>2 DEF TypeOK
<1>4. StoredIsAnnounced' /\ WarnedWereAnnounced' /\ ExpiringWereAnnounced'
    BY <1>1, <1>2 DEF TypeOK, StoredIsAnnounced, WarnedWereAnnounced, ExpiringWereAnnounced
<1>5. CompleteBatchIsAnnounced'
  <2>1. batch[r] # "complete"
      BY <1>2 DEF CompleteIsDone
  <2>2. row[f] = "absent"
      BY <1>1 DEF CurrentIsBlobOnly, IsNew
  <2>3. \A q \in Requests : q # r => Members(q)' = Members(q)
      BY <1>1, <1>2, <2>2 DEF TypeOK, Members, IsLive
  <2> QED BY <2>1, <2>3 DEF CompleteBatchIsAnnounced
<1>6. /\ UnstartedAreBlank' /\ CurrentIsBlobOnly' /\ NoLiveFileLosesItsBlob'
      /\ OrphansAreFaults' /\ DoomedAreExpired' /\ VisitedAreGone' /\ CompleteIsDone'
      /\ OpenAreFresh' /\ FormsAreHarmless'
    BY <1>1, RowInserted
<1> QED BY <1>3, <1>4, <1>5, <1>6

\* A batch is complete when no file of it failed: those it has were stored, and
\* so announced.
LEMMA VerdictIsHonest ==
    ASSUME TypeOK, StoredIsAnnounced, NEW r \in Requests
    PROVE  /\ Verdict(r) \in {"complete", "partial", "failed"}
           /\ Verdict(r) = "complete" => Members(r) \subseteq announced
<1>1. Verdict(r) \in {"complete", "partial", "failed"}
    BY DEF Verdict
<1>2. ASSUME Verdict(r) = "complete", NEW f \in Members(r) PROVE f \in announced
  <2>1. {g \in Members(r) : row[g] = "failed"} = {}
      BY <1>2 DEF Verdict
  <2>2. f \in Files /\ row[f] = "stored"
      BY <2>1 DEF Members, IsLive, TypeOK
  <2> QED BY <2>2 DEF StoredIsAnnounced
<1> QED BY <1>1, <1>2

LEMMA FinalizeBatchIInv == ASSUME IInv, NEW r \in Requests, FinalizeBatch(r) PROVE IInv'
<1> USE DEF IInv, FinalizeBatch, taskVars, cleanupVars
<1>1. TypeOK'
    BY VerdictIsHonest DEF TypeOK
<1>2. StoredIsAnnounced' /\ WarnedWereAnnounced' /\ ExpiringWereAnnounced'
    BY DEF StoredIsAnnounced, WarnedWereAnnounced, ExpiringWereAnnounced
<1>3. \A q \in Requests : Current(q)' = Current(q) /\ Members(q)' = Members(q)
    BY DEF TypeOK, Current, Members, IsLive
<1>4. UnstartedAreBlank' /\ CurrentIsBlobOnly' /\ DoomedAreExpired' /\ VisitedAreGone'
    BY <1>3 DEF UnstartedAreBlank, CurrentIsBlobOnly, DoomedAreExpired, VisitedAreGone, IsNew
<1>5. NoLiveFileLosesItsBlob' /\ OrphansAreFaults'
    BY <1>3 DEF NoLiveFileLosesItsBlob, OrphansAreFaults, IsLive
<1>6. CompleteBatchIsAnnounced' /\ CompleteIsDone'
    BY <1>3, VerdictIsHonest DEF TypeOK, CompleteBatchIsAnnounced, CompleteIsDone
<1>7. OpenAreFresh' /\ FormsAreHarmless'
    BY DEF OpenAreFresh, FormsAreHarmless, IsNew, TypeOK
<1> QED BY <1>1, <1>2, <1>4, <1>5, <1>6, <1>7

\* The file in progress becomes an orphan that a fault accounts for.
LEMMA RequestFailsIInv == ASSUME IInv, NEW r \in Requests, RequestFails(r) PROVE IInv'
<1> USE DEF IInv, RequestFails, taskVars, cleanupVars
<1>1. Current(r) \subseteq Files
    BY DEF Current
<1>2. TypeOK'
    BY <1>1 DEF TypeOK
<1>3. Current(r)' = {} /\ \A q \in Requests : q # r => Current(q)' = Current(q)
    BY DEF TypeOK, Current
<1>4. StoredIsAnnounced' /\ WarnedWereAnnounced' /\ ExpiringWereAnnounced'
    BY DEF StoredIsAnnounced, WarnedWereAnnounced, ExpiringWereAnnounced
<1>5. UnstartedAreBlank' /\ CurrentIsBlobOnly'
  <2>1. \A f \in Current(r) : request[f] = r
      BY CurrentIsOwn
  <2>2. UnstartedAreBlank'
      BY <2>1, StoreAssumption DEF UnstartedAreBlank, IsNew
  <2>3. ASSUME NEW q \in Requests, q # r, NEW f \in Current(q) PROVE f \notin Current(r)
      BY <2>1, <2>3, CurrentIsOwn
  <2> QED BY <1>3, <2>2, <2>3 DEF CurrentIsBlobOnly, IsNew
<1>6. DoomedAreExpired' /\ VisitedAreGone'
    BY DEF DoomedAreExpired, VisitedAreGone
<1>7. NoLiveFileLosesItsBlob' /\ OrphansAreFaults'
    BY <1>3 DEF NoLiveFileLosesItsBlob, OrphansAreFaults, IsLive
<1>8. CompleteBatchIsAnnounced' /\ CompleteIsDone'
    BY DEF TypeOK, CompleteBatchIsAnnounced, CompleteIsDone, Members, IsLive
<1>9. OpenAreFresh' /\ FormsAreHarmless'
    BY DEF OpenAreFresh, FormsAreHarmless, IsNew, TypeOK
<1> QED BY <1>2, <1>4, <1>5, <1>6, <1>7, <1>8, <1>9

-----------------------------------------------------------------------------
(* The steps of rows and of administrators *)

LEMMA GrowOlderIInv == ASSUME IInv, NEW f \in Files, GrowOlder(f) PROVE IInv'
<1> USE DEF IInv, GrowOlder, requestVars, taskVars, cleanupVars
<1>1. /\ row[f] # "absent" /\ age[f] # "expired"
      /\ age'[f] # "fresh" /\ \A g \in Files : g # f => age'[g] = age[g]
    BY DEF TypeOK, IsLive
<1>2. f \in doomed => f \in faulted
    BY <1>1 DEF DoomedAreExpired
<1>3. TypeOK'
    BY DEF TypeOK
<1>4. StoredIsAnnounced' /\ WarnedWereAnnounced' /\ ExpiringWereAnnounced'
    BY <1>1 DEF TypeOK, StoredIsAnnounced, WarnedWereAnnounced, ExpiringWereAnnounced
<1>5. UnstartedAreBlank'
    BY <1>1 DEF UnstartedAreBlank, IsNew
<1>6. CurrentIsBlobOnly'
  <2>1. \A r \in Requests : Current(r)' = Current(r) /\ f \notin Current(r)
      BY <1>1 DEF Current, CurrentIsBlobOnly, IsNew
  <2> QED BY <1>1, <2>1, CurrentIsOwn DEF CurrentIsBlobOnly, IsNew
<1>7. DoomedAreExpired' /\ VisitedAreGone'
    BY <1>1, <1>2 DEF DoomedAreExpired, VisitedAreGone, TypeOK
<1>8. NoLiveFileLosesItsBlob'
    BY <1>1 DEF NoLiveFileLosesItsBlob, IsLive
<1>9. OrphansAreFaults'
    BY DEF OrphansAreFaults, IsLive, Current
<1>10. CompleteBatchIsAnnounced' /\ CompleteIsDone'
    BY DEF CompleteBatchIsAnnounced, CompleteIsDone, Members, IsLive
<1>11. OpenAreFresh' /\ FormsAreHarmless'
    BY DEF OpenAreFresh, FormsAreHarmless, IsNew, TypeOK
<1> QED BY <1>3, <1>4, <1>5, <1>6, <1>7, <1>8, <1>9, <1>10, <1>11

LEMMA MarkFileFailedIInv == ASSUME IInv, NEW f \in Files, MarkFileFailed(f) PROVE IInv'
<1> USE DEF IInv, MarkFileFailed, requestVars, taskVars, cleanupVars, IsLive
<1>1. TypeOK' /\ DoomedAreExpired' /\ VisitedAreGone'
    BY DEF TypeOK, DoomedAreExpired, VisitedAreGone
<1>2. StoredIsAnnounced' /\ WarnedWereAnnounced' /\ ExpiringWereAnnounced'
    BY DEF StoredIsAnnounced, WarnedWereAnnounced, ExpiringWereAnnounced
<1>3. UnstartedAreBlank' /\ CurrentIsBlobOnly'
    BY DEF UnstartedAreBlank, CurrentIsBlobOnly, Current, IsLive, IsNew
<1>4. NoLiveFileLosesItsBlob' /\ OrphansAreFaults'
    BY DEF NoLiveFileLosesItsBlob, OrphansAreFaults, IsLive, Current
<1>5. CompleteBatchIsAnnounced' /\ CompleteIsDone'
    BY DEF CompleteBatchIsAnnounced, CompleteIsDone, Members, IsLive
<1>6. OpenAreFresh' /\ FormsAreHarmless'
    BY DEF OpenAreFresh, FormsAreHarmless, IsNew, TypeOK
<1> QED BY <1>1, <1>2, <1>3, <1>4, <1>5, <1>6

LEMMA AdminDeleteIInv == ASSUME IInv, NEW f \in Files, AdminDelete(f) PROVE IInv'
<1> USE DEF IInv, AdminDelete, requestVars, taskVars, cleanupVars, IsLive
<1>1. TypeOK' /\ DoomedAreExpired' /\ VisitedAreGone'
    BY DEF TypeOK, DoomedAreExpired, VisitedAreGone
<1>2. StoredIsAnnounced' /\ WarnedWereAnnounced' /\ ExpiringWereAnnounced'
    BY DEF StoredIsAnnounced, WarnedWereAnnounced, ExpiringWereAnnounced
<1>3. UnstartedAreBlank' /\ CurrentIsBlobOnly'
    BY DEF UnstartedAreBlank, CurrentIsBlobOnly, Current, IsLive, IsNew
<1>4. NoLiveFileLosesItsBlob' /\ OrphansAreFaults'
    BY DEF NoLiveFileLosesItsBlob, OrphansAreFaults, IsLive, Current
<1>5. CompleteBatchIsAnnounced' /\ CompleteIsDone'
    BY DEF CompleteBatchIsAnnounced, CompleteIsDone, Members, IsLive
<1>6. OpenAreFresh' /\ FormsAreHarmless'
    BY DEF OpenAreFresh, FormsAreHarmless, IsNew, TypeOK
<1> QED BY <1>1, <1>2, <1>3, <1>4, <1>5, <1>6

\* The row an administrator reads is that of a file which was stored and
\* announced, or failed.
LEMMA OpenFormIInv == ASSUME IInv, NEW f \in Files, OpenForm(f) PROVE IInv'
<1> USE DEF IInv, OpenForm, requestVars, taskVars, cleanupVars
<1>1. TypeOK' /\ DoomedAreExpired' /\ VisitedAreGone'
    BY StoreAssumption DEF TypeOK, DoomedAreExpired, VisitedAreGone, IsLive
<1>2. StoredIsAnnounced' /\ WarnedWereAnnounced' /\ ExpiringWereAnnounced'
    BY DEF StoredIsAnnounced, WarnedWereAnnounced, ExpiringWereAnnounced
<1>3. UnstartedAreBlank' /\ CurrentIsBlobOnly' /\ OpenAreFresh'
    BY DEF UnstartedAreBlank, CurrentIsBlobOnly, OpenAreFresh, Current, IsNew
<1>4. NoLiveFileLosesItsBlob' /\ OrphansAreFaults'
    BY DEF NoLiveFileLosesItsBlob, OrphansAreFaults, IsLive, Current
<1>5. CompleteBatchIsAnnounced' /\ CompleteIsDone'
    BY DEF CompleteBatchIsAnnounced, CompleteIsDone, Members, IsLive
<1>6. FormsAreHarmless'
  <2>1. ~IsNew(f) /\ (row[f] = "stored" => f \in announced)
      BY DEF IsLive, IsNew, StoredIsAnnounced
  <2>2. form'[f] = row[f] /\ \A g \in Files : g # f => form'[g] = form[g]
      BY DEF TypeOK
  <2> QED BY <2>1, <2>2 DEF FormsAreHarmless, IsNew
<1> QED BY <1>1, <1>2, <1>3, <1>4, <1>5, <1>6

\* The file is left to the administrator unless the form changes the status only.
LEMMA SaveFormIInv == ASSUME IInv, NEW f \in Files, SaveForm(f) PROVE IInv'
<1> USE DEF IInv
<1>1. PICK chosen \in Requests \cup {NoRequest}, replaced \in SUBSET {f} :
          /\ batchOf' = [batchOf EXCEPT ![f] = chosen]
          /\ blobs' = blobs \cup replaced
          /\ visiting' = visiting \ replaced
          /\ faulted' = IF IsLive(f) /\ chosen = batchOf[f] THEN faulted \cup replaced
                                                            ELSE faulted \cup {f}
    BY DEF SaveForm
<1>2. /\ row'[f] = form[f] /\ row'[f] \in {"stored", "failed"}
      /\ \A g \in Files : g # f => row'[g] = row[g] /\ batchOf'[g] = batchOf[g] /\ age'[g] = age[g]
      /\ form'[f] = "closed" /\ \A g \in Files : g # f => form'[g] = form[g]
      /\ IsLive(f) => age'[f] = age[f]
      /\ ~IsLive(f) => age'[f] = "fresh"
    BY <1>1 DEF SaveForm, TypeOK
<1>3. /\ UNCHANGED <<batch, request, pc, announced, warned, expiring, cleaning, doomed>>
      /\ ~IsNew(f) /\ (form[f] = "stored" => f \in announced)
    BY DEF SaveForm, FormsAreHarmless
<1>4. /\ faulted \subseteq faulted' /\ faulted' \subseteq faulted \cup {f}
      /\ blobs \subseteq blobs' /\ blobs' \subseteq blobs \cup {f}
      /\ visiting' \subseteq visiting /\ visiting \subseteq visiting' \cup {f}
      /\ f \notin faulted' => IsLive(f) /\ batchOf'[f] = batchOf[f] /\ blobs' = blobs /\ visiting' = visiting
    BY <1>1, <1>2 DEF TypeOK
<1>5. \A r \in Requests : Current(r)' = Current(r) /\ f \notin Current(r)
    BY <1>3 DEF Current, CurrentIsBlobOnly
<1>6. TypeOK'
    BY <1>1 DEF SaveForm, TypeOK
<1>7. DoomedAreExpired' /\ VisitedAreGone' /\ ExpiringWereAnnounced'
  <2>1. doomed \subseteq Files /\ expiring \subseteq Files
      BY DEF TypeOK
  <2> QED BY <1>2, <1>3, <1>4, <2>1 DEF DoomedAreExpired, VisitedAreGone, ExpiringWereAnnounced
<1>8. StoredIsAnnounced' /\ WarnedWereAnnounced'
    BY <1>2, <1>3 DEF StoredIsAnnounced, WarnedWereAnnounced
<1>9. UnstartedAreBlank' /\ OpenAreFresh'
    BY <1>2, <1>3, <1>4 DEF UnstartedAreBlank, OpenAreFresh, IsNew
<1>10. CurrentIsBlobOnly'
    BY <1>2, <1>3, <1>4, <1>5, CurrentIsOwn DEF CurrentIsBlobOnly, IsNew
<1>11. NoLiveFileLosesItsBlob'
    BY <1>2, <1>4 DEF NoLiveFileLosesItsBlob, IsLive
<1>12. OrphansAreFaults'
  <2>1. \A g \in blobs' : g \in Files
      BY <1>6 DEF TypeOK
  <2> QED BY <1>2, <1>4, <1>5, <2>1 DEF OrphansAreFaults, IsLive
<1>13. CompleteBatchIsAnnounced' /\ CompleteIsDone'
  <2>1. \A r \in Requests : \A g \in Members(r)' : g \in Members(r) \/ g \in faulted'
      BY <1>2, <1>4 DEF Members, IsLive
  <2> QED BY <1>3, <1>4, <2>1 DEF CompleteBatchIsAnnounced, CompleteIsDone
<1>14. FormsAreHarmless'
    BY <1>2, <1>3, <1>4 DEF FormsAreHarmless, IsNew
<1> QED BY <1>6, <1>7, <1>8, <1>9, <1>10, <1>11, <1>12, <1>13, <1>14

-----------------------------------------------------------------------------
(* The steps of the notification and of the cleanup *)

\* The query finds files that are stored, and so announced.
LEMMA StartNotifyIInv == ASSUME IInv, StartNotify PROVE IInv'
<1> USE DEF IInv, StartNotify, requestVars, taskVars, cleanupVars
<1>1. TypeOK' /\ DoomedAreExpired' /\ VisitedAreGone'
    BY DEF TypeOK, DoomedAreExpired, VisitedAreGone
<1>2. StoredIsAnnounced' /\ WarnedWereAnnounced' /\ ExpiringWereAnnounced'
    BY DEF StoredIsAnnounced, WarnedWereAnnounced, ExpiringWereAnnounced
<1>3. UnstartedAreBlank' /\ CurrentIsBlobOnly'
    BY DEF UnstartedAreBlank, CurrentIsBlobOnly, Current, IsLive, IsNew
<1>4. NoLiveFileLosesItsBlob' /\ OrphansAreFaults'
    BY DEF NoLiveFileLosesItsBlob, OrphansAreFaults, IsLive, Current
<1>5. CompleteBatchIsAnnounced' /\ CompleteIsDone'
    BY DEF CompleteBatchIsAnnounced, CompleteIsDone, Members, IsLive
<1>6. OpenAreFresh' /\ FormsAreHarmless'
    BY DEF OpenAreFresh, FormsAreHarmless, IsNew, TypeOK
<1> QED BY <1>1, <1>2, <1>3, <1>4, <1>5, <1>6

LEMMA NotifyIInv == ASSUME IInv, NEW f \in Files, Notify(f) PROVE IInv'
<1> USE DEF IInv, Notify, requestVars, taskVars, cleanupVars
<1>1. TypeOK' /\ DoomedAreExpired' /\ VisitedAreGone'
    BY DEF TypeOK, DoomedAreExpired, VisitedAreGone
<1>2. StoredIsAnnounced' /\ WarnedWereAnnounced' /\ ExpiringWereAnnounced'
    BY DEF StoredIsAnnounced, WarnedWereAnnounced, ExpiringWereAnnounced
<1>3. UnstartedAreBlank' /\ CurrentIsBlobOnly'
    BY DEF UnstartedAreBlank, CurrentIsBlobOnly, Current, IsLive, IsNew
<1>4. NoLiveFileLosesItsBlob' /\ OrphansAreFaults'
    BY DEF NoLiveFileLosesItsBlob, OrphansAreFaults, IsLive, Current
<1>5. CompleteBatchIsAnnounced' /\ CompleteIsDone'
    BY DEF CompleteBatchIsAnnounced, CompleteIsDone, Members, IsLive
<1>6. OpenAreFresh' /\ FormsAreHarmless'
    BY DEF OpenAreFresh, FormsAreHarmless, IsNew, TypeOK
<1> QED BY <1>1, <1>2, <1>3, <1>4, <1>5, <1>6

LEMMA NotifyFailsIInv == ASSUME IInv, NotifyFails PROVE IInv'
<1> USE DEF IInv, NotifyFails, requestVars, taskVars, cleanupVars
<1>1. TypeOK' /\ DoomedAreExpired' /\ VisitedAreGone'
    BY DEF TypeOK, DoomedAreExpired, VisitedAreGone
<1>2. StoredIsAnnounced' /\ WarnedWereAnnounced' /\ ExpiringWereAnnounced'
    BY DEF StoredIsAnnounced, WarnedWereAnnounced, ExpiringWereAnnounced
<1>3. UnstartedAreBlank' /\ CurrentIsBlobOnly'
    BY DEF UnstartedAreBlank, CurrentIsBlobOnly, Current, IsLive, IsNew
<1>4. NoLiveFileLosesItsBlob' /\ OrphansAreFaults'
    BY DEF NoLiveFileLosesItsBlob, OrphansAreFaults, IsLive, Current
<1>5. CompleteBatchIsAnnounced' /\ CompleteIsDone'
    BY DEF CompleteBatchIsAnnounced, CompleteIsDone, Members, IsLive
<1>6. OpenAreFresh' /\ FormsAreHarmless'
    BY DEF OpenAreFresh, FormsAreHarmless, IsNew, TypeOK
<1> QED BY <1>1, <1>2, <1>3, <1>4, <1>5, <1>6

LEMMA SelectExpiredIInv == ASSUME IInv, SelectExpired PROVE IInv'
<1> USE DEF IInv, SelectExpired, requestVars, taskVars, cleanupVars, Expired
<1>1. TypeOK' /\ DoomedAreExpired' /\ VisitedAreGone'
    BY DEF TypeOK, DoomedAreExpired, VisitedAreGone
<1>2. StoredIsAnnounced' /\ WarnedWereAnnounced' /\ ExpiringWereAnnounced'
    BY DEF StoredIsAnnounced, WarnedWereAnnounced, ExpiringWereAnnounced
<1>3. UnstartedAreBlank' /\ CurrentIsBlobOnly'
    BY DEF UnstartedAreBlank, CurrentIsBlobOnly, Current, IsLive, IsNew
<1>4. NoLiveFileLosesItsBlob' /\ OrphansAreFaults'
    BY DEF NoLiveFileLosesItsBlob, OrphansAreFaults, IsLive, Current
<1>5. CompleteBatchIsAnnounced' /\ CompleteIsDone'
    BY DEF CompleteBatchIsAnnounced, CompleteIsDone, Members, IsLive
<1>6. OpenAreFresh' /\ FormsAreHarmless'
    BY DEF OpenAreFresh, FormsAreHarmless, IsNew, TypeOK
<1> QED BY <1>1, <1>2, <1>3, <1>4, <1>5, <1>6

\* A blob whose row is gone already is an orphan that is accounted for.
LEMMA ReadExpiredIInv == ASSUME IInv, ReadExpired PROVE IInv'
<1> USE DEF IInv, ReadExpired, requestVars, taskVars, cleanupVars
<1>1. TypeOK' /\ DoomedAreExpired'
    BY DEF TypeOK, DoomedAreExpired
<1>2. VisitedAreGone'
  <2> SUFFICES ASSUME NEW f \in doomed, ~IsLive(f), f \in blobs PROVE f \in faulted
      BY DEF VisitedAreGone
  <2>1. \A r \in Requests : f \notin Current(r)
      BY DEF DoomedAreExpired, CurrentIsBlobOnly, IsNew
  <2> QED BY <2>1 DEF OrphansAreFaults
<1>3. StoredIsAnnounced' /\ WarnedWereAnnounced' /\ ExpiringWereAnnounced'
    BY DEF StoredIsAnnounced, WarnedWereAnnounced, ExpiringWereAnnounced
<1>4. UnstartedAreBlank' /\ CurrentIsBlobOnly'
    BY DEF UnstartedAreBlank, CurrentIsBlobOnly, Current, IsLive, IsNew
<1>5. NoLiveFileLosesItsBlob' /\ OrphansAreFaults'
    BY DEF NoLiveFileLosesItsBlob, OrphansAreFaults, IsLive, Current
<1>6. CompleteBatchIsAnnounced' /\ CompleteIsDone'
    BY DEF CompleteBatchIsAnnounced, CompleteIsDone, Members, IsLive
<1>7. OpenAreFresh' /\ FormsAreHarmless'
    BY DEF OpenAreFresh, FormsAreHarmless, IsNew, TypeOK
<1> QED BY <1>1, <1>2, <1>3, <1>4, <1>5, <1>6, <1>7

\* The file has expired or is an administrator's, so it is neither new nor being
\* stored.
LEMMA DeleteBlobIInv == ASSUME IInv, NEW f \in Files, DeleteBlob(f) PROVE IInv'
<1> USE DEF IInv, DeleteBlob, requestVars
<1>1. age[f] = "expired" \/ f \in faulted
    BY DEF DoomedAreExpired, TypeOK
<1>2. TypeOK' /\ DoomedAreExpired' /\ VisitedAreGone'
    BY DEF TypeOK, DoomedAreExpired, VisitedAreGone
<1>3. StoredIsAnnounced' /\ WarnedWereAnnounced' /\ ExpiringWereAnnounced'
    BY DEF StoredIsAnnounced, WarnedWereAnnounced, ExpiringWereAnnounced
<1>4. UnstartedAreBlank'
    BY DEF UnstartedAreBlank, IsNew
<1>5. CurrentIsBlobOnly'
  <2>1. \A r \in Requests : Current(r)' = Current(r) /\ f \notin Current(r)
      BY <1>1 DEF Current, CurrentIsBlobOnly, IsNew
  <2> QED BY <2>1 DEF CurrentIsBlobOnly, IsNew
<1>6. NoLiveFileLosesItsBlob'
    BY <1>1 DEF NoLiveFileLosesItsBlob, IsLive
<1>7. OrphansAreFaults'
    BY DEF OrphansAreFaults, IsLive, Current
<1>8. CompleteBatchIsAnnounced' /\ CompleteIsDone'
    BY DEF CompleteBatchIsAnnounced, CompleteIsDone, Members, IsLive
<1>9. OpenAreFresh' /\ FormsAreHarmless'
    BY DEF OpenAreFresh, FormsAreHarmless, IsNew
<1> QED BY <1>2, <1>3, <1>4, <1>5, <1>6, <1>7, <1>8, <1>9

\* No row goes before its blob, unless it is an administrator's.
LEMMA DeleteRowsIInv == ASSUME IInv, DeleteRows PROVE IInv'
<1> USE DEF IInv, DeleteRows
<1>1. TypeOK' /\ DoomedAreExpired' /\ VisitedAreGone'
    BY DEF TypeOK, DoomedAreExpired, VisitedAreGone
<1>2. StoredIsAnnounced' /\ WarnedWereAnnounced' /\ ExpiringWereAnnounced'
    BY DEF StoredIsAnnounced, WarnedWereAnnounced, ExpiringWereAnnounced
<1>3. UnstartedAreBlank'
    BY DEF UnstartedAreBlank, IsNew
<1>4. \A r \in Requests : Current(r)' = Current(r)
    BY DEF Current
<1>5. CurrentIsBlobOnly'
    BY <1>4, CurrentIsOwn DEF CurrentIsBlobOnly, IsNew
<1>6. NoLiveFileLosesItsBlob'
    BY DEF NoLiveFileLosesItsBlob, IsLive
<1>7. OrphansAreFaults'
  <2>1. \A f \in blobs : f \in Files /\ (f \notin doomed \/ f \in faulted)
      BY DEF VisitedAreGone, TypeOK
  <2>2. \A f \in blobs : row'[f] = row[f] \/ f \in faulted
      BY <2>1
  <2> QED BY <1>4, <2>2 DEF OrphansAreFaults, IsLive
<1>8. CompleteBatchIsAnnounced' /\ CompleteIsDone'
  <2>1. \A r \in Requests : Members(r)' \subseteq Members(r)
      BY DEF Members, IsLive
  <2> QED BY <2>1 DEF CompleteBatchIsAnnounced, CompleteIsDone
<1>9. OpenAreFresh' /\ FormsAreHarmless'
  <2>1. \A f \in Files : IsNew(f)' => IsNew(f)
      BY DEF IsNew, DoomedAreExpired
  <2> QED BY <2>1 DEF OpenAreFresh, FormsAreHarmless
<1> QED BY <1>1, <1>2, <1>3, <1>5, <1>6, <1>7, <1>8, <1>9

LEMMA CleanupFailsIInv == ASSUME IInv, CleanupFails PROVE IInv'
<1> USE DEF IInv, CleanupFails, requestVars, taskVars, cleanupVars
<1>1. TypeOK' /\ DoomedAreExpired' /\ VisitedAreGone'
    BY DEF TypeOK, DoomedAreExpired, VisitedAreGone
<1>2. StoredIsAnnounced' /\ WarnedWereAnnounced' /\ ExpiringWereAnnounced'
    BY DEF StoredIsAnnounced, WarnedWereAnnounced, ExpiringWereAnnounced
<1>3. UnstartedAreBlank' /\ CurrentIsBlobOnly'
    BY DEF UnstartedAreBlank, CurrentIsBlobOnly, Current, IsLive, IsNew
<1>4. NoLiveFileLosesItsBlob' /\ OrphansAreFaults'
    BY DEF NoLiveFileLosesItsBlob, OrphansAreFaults, IsLive, Current
<1>5. CompleteBatchIsAnnounced' /\ CompleteIsDone'
    BY DEF CompleteBatchIsAnnounced, CompleteIsDone, Members, IsLive
<1>6. OpenAreFresh' /\ FormsAreHarmless'
    BY DEF OpenAreFresh, FormsAreHarmless, IsNew, TypeOK
<1> QED BY <1>1, <1>2, <1>3, <1>4, <1>5, <1>6

LEMMA UnchangedIInv == ASSUME IInv, UNCHANGED vars PROVE IInv'
<1> USE DEF IInv, vars, requestVars, taskVars, cleanupVars
<1>1. TypeOK' /\ DoomedAreExpired' /\ VisitedAreGone'
    BY DEF TypeOK, DoomedAreExpired, VisitedAreGone
<1>2. StoredIsAnnounced' /\ WarnedWereAnnounced' /\ ExpiringWereAnnounced'
    BY DEF StoredIsAnnounced, WarnedWereAnnounced, ExpiringWereAnnounced
<1>3. UnstartedAreBlank' /\ CurrentIsBlobOnly'
    BY DEF UnstartedAreBlank, CurrentIsBlobOnly, Current, IsLive, IsNew
<1>4. NoLiveFileLosesItsBlob' /\ OrphansAreFaults'
    BY DEF NoLiveFileLosesItsBlob, OrphansAreFaults, IsLive, Current
<1>5. CompleteBatchIsAnnounced' /\ CompleteIsDone'
    BY DEF CompleteBatchIsAnnounced, CompleteIsDone, Members, IsLive
<1>6. OpenAreFresh' /\ FormsAreHarmless'
    BY DEF OpenAreFresh, FormsAreHarmless, IsNew, TypeOK
<1> QED BY <1>1, <1>2, <1>3, <1>4, <1>5, <1>6

-----------------------------------------------------------------------------
(* The theorems *)

\* The inductive invariant holds in every behaviour of requests, tasks,
\* administrators and faults.
THEOREM FilesInvariant == Spec => []IInv
<1>1. IInv /\ [Next]_vars => IInv'
  <2> SUFFICES ASSUME IInv, [Next]_vars PROVE IInv'
      OBVIOUS
  <2>1. ASSUME NEW r \in Requests, RequestStep(r) PROVE IInv'
      BY <2>1, CreateBatchIInv, StoreBlobIInv, InsertStoredIInv, InsertFailedIInv,
         FinalizeBatchIInv DEF RequestStep
  <2>2. ASSUME Fault PROVE IInv'
      BY <2>2, RequestFailsIInv, NotifyFailsIInv, CleanupFailsIInv DEF Fault
  <2> QED BY <2>1, <2>2, GrowOlderIInv, MarkFileFailedIInv, AdminDeleteIInv, OpenFormIInv,
             SaveFormIInv, StartNotifyIInv, NotifyIInv, SelectExpiredIInv, ReadExpiredIInv,
             DeleteBlobIInv, DeleteRowsIInv, UnchangedIInv DEF Next
<1> QED BY <1>1, InitIInv, PTL DEF Spec

\* Type correctness, which needs that no request, task or form holds more than
\* what it read.
THEOREM FilesTypeOK == Spec => []TypeOK
<1>1. IInv => TypeOK
    BY DEF IInv
<1> QED BY <1>1, FilesInvariant, PTL

\* No file that has not expired loses its blob while it has a row, wherever a
\* cleanup stops, unless an administrator changed it or brought its row back.
THEOREM FilesNoLiveFileLosesItsBlob == Spec => []NoLiveFileLosesItsBlob
<1>1. IInv => NoLiveFileLosesItsBlob
    BY DEF IInv
<1> QED BY <1>1, FilesInvariant, PTL

\* Every blob without a row is the work of a failed request or an administrator.
THEOREM FilesOrphansAreFaults == Spec => []OrphansAreFaults
<1>1. IInv => OrphansAreFaults
    BY DEF IInv
<1> QED BY <1>1, FilesInvariant, PTL

\* Every stored file has been announced, wherever its request stops.
THEOREM FilesStoredIsAnnounced == Spec => []StoredIsAnnounced
<1>1. IInv => StoredIsAnnounced
    BY DEF IInv
<1> QED BY <1>1, FilesInvariant, PTL

\* Every file announced to expire had been announced as stored.
THEOREM FilesWarnedWereAnnounced == Spec => []WarnedWereAnnounced
<1>1. IInv => WarnedWereAnnounced
    BY DEF IInv
<1> QED BY <1>1, FilesInvariant, PTL

\* Every file of a complete batch has been announced as stored, but for those that
\* an administrator moved into it or brought back.
THEOREM FilesCompleteBatchIsAnnounced == Spec => []CompleteBatchIsAnnounced
<1>1. IInv => CompleteBatchIsAnnounced
    BY DEF IInv
<1> QED BY <1>1, FilesInvariant, PTL
=============================================================================
