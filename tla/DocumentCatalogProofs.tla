------------------------ MODULE DocumentCatalogProofs ------------------------
(***************************************************************************)
(* Proof that the document lifecycle implements the catalog, when a        *)
(* document's tasks do not overlap and neither the admin's retry of        *)
(* deletions nor the retry of failed jobs is used.                         *)
(***************************************************************************)
EXTENDS DocumentIndexProofs

CatalogKinds == {"upload", "delete", "reindex"}

----------------------------------------------------------------------------
(* The inductive invariant.                                                *)

\* Only a deletion that ends once more writes a status over deleted, and the
\* source is there while a run indexes it.
CatalogTask(r) ==
  LET d == req[r].doc
  IN /\ ~req[r].unknownArg
     /\ At(r, "loadedDelete") => req[r].seen = status[d]
     /\ At(r, "publish") /\ req[r].task = "reindex"
          => status[d] = "processing" /\ (req[r].seen = "indexed" => object[d])
     /\ req[r].pc \in {"refresh", "publish", "mark"} => status[d] # "deleted"
     /\ req[r].pc \in {"queued", "fail", "terminal", "ack"} /\ req[r].task # "delete"
          => status[d] # "deleted"
     /\ At(r, "refresh") => status[d] # "indexed"
     /\ req[r].pc \in PipelineSteps \ {"extract"} => object[d]
     /\ req[r].pc \in PipelineSteps => req[r].task # "delete"
     /\ req[r].pc \in DeleteSteps => req[r].task = "delete"
     /\ req[r].pc \in DeleteSteps \ {"delVectors"} => vectors[d] = NoPoints

\* Nothing is left of a deleted document, and the source of an indexed one is.
CatalogDoc(d) ==
  /\ status[d] = "deleted" => chunks[d] = NoRun /\ vectors[d] = NoPoints
  /\ status[d] = "indexed" => object[d]

CatalogInv ==
  /\ \A d \in Docs : CatalogDoc(d)
  /\ \A r \in Requests : CatalogTask(r)

\* What the earlier proofs provide.
Background == TypeOK /\ ErasureInv /\ HoldInv /\ SerialInv

LEMMA CatalogInit == Init => CatalogInv
BY DEF Init, CatalogInv, CatalogDoc, CatalogTask, At, PipelineSteps, DeleteSteps

----------------------------------------------------------------------------
(* What a step does to the status and the source of its document.          *)

Pending == DocumentStatus \ {"absent", "indexed", "deleted"}

Elsewhere(d) ==
  \A e \in Docs \ {d} :
    /\ status'[e] = status[e] /\ object'[e] = object[e]
    /\ chunks'[e] = chunks[e] /\ vectors'[e] = vectors[e]

\* The changes of status and source the catalog has a name for.
StatusMove(d) ==
  \/ status'[d] = status[d] /\ object'[d] = object[d]
  \/ status[d] = "absent" /\ status'[d] = "absent"
  \/ status[d] = "absent" /\ status'[d] \in Pending /\ object[d] /\ object'[d]
  \/ status[d] \in Pending /\ status'[d] \in Pending /\ object'[d] \in {object[d], FALSE}
  \/ status[d] \in Pending /\ status'[d] = "indexed" /\ object[d] /\ object'[d]
  \/ status[d] = "indexed" /\ status'[d] \in Pending /\ object'[d] = object[d]
  \/ status[d] \in Pending /\ status'[d] = "deleted" /\ ~object[d] /\ ~object'[d]
  \/ status[d] = "deleted" /\ status'[d] \in Pending /\ object'[d] = object[d]

\* The phase a status stands for when the index is exact and the deleted gone.
PhaseOf(s) ==
  CASE s = "absent" -> "none"
    [] s = "indexed" -> "searchable"
    [] s = "deleted" -> "deleted"
    [] OTHER -> "pending"

LEMMA PhaseIsStatus ==
  ASSUME IndexIsExact, CatalogInv, NEW d \in Docs
  PROVE  Phase(d) = PhaseOf(status[d])
BY DEF IndexIsExact, CatalogInv, CatalogDoc, Phase, PhaseOf

LEMMA PhaseIsStatusNext ==
  ASSUME IndexIsExact', CatalogInv', NEW d \in Docs
  PROVE  Phase(d)' = PhaseOf(status'[d])
<1>1. /\ status'[d] = "indexed" => chunks'[d] # NoRun /\ vectors'[d] = IndexOf(chunks[d])'
      /\ status'[d] = "deleted" => chunks'[d] = NoRun /\ vectors'[d] = NoPoints'
  BY DEF IndexIsExact, CatalogInv, CatalogDoc
<1>2. QED
  BY <1>1 DEF Phase, PhaseOf

phases == [d \in Docs |-> Phase(d)]

\* Such a change is a step of the catalog, or none.
LEMMA MoveIsCatalogStep ==
  ASSUME TypeOK, TypeOK', IndexIsExact, IndexIsExact', CatalogInv, CatalogInv',
         NEW d \in Docs, Elsewhere(d), StatusMove(d)
  PROVE  [Catalog!Next]_<<phases, object>>
<1>1. /\ phases = [e \in Docs |-> PhaseOf(status[e])]
      /\ phases' = [e \in Docs |-> PhaseOf(status'[e])]
  BY PhaseIsStatus, PhaseIsStatusNext DEF phases
<1>2. /\ object \in [Docs -> BOOLEAN] /\ object' \in [Docs -> BOOLEAN]
      /\ status \in [Docs -> DocumentStatus] /\ status' \in [Docs -> DocumentStatus]
  BY DEF TypeOK
<1>3. phases' = [phases EXCEPT ![d] = PhaseOf(status'[d])]
  BY <1>1 DEF Elsewhere
<1>4. object' = [object EXCEPT ![d] = object'[d]]
  BY <1>2 DEF Elsewhere
<1>5. /\ PhaseOf("absent") = "none" /\ PhaseOf("indexed") = "searchable"
      /\ PhaseOf("deleted") = "deleted"
      /\ \A s \in Pending : PhaseOf(s) = "pending"
  BY DEF PhaseOf, Pending
<1>6. phases[d] = PhaseOf(status[d])
  BY <1>1
<1> DEFINE s == status[d]
           t == status'[d]
<1>7. CASE t = s /\ object'[d] = object[d]
  <2>1. phases' = phases /\ object' = object
    BY <1>1, <1>2, <1>3, <1>4, <1>7
  <2>2. QED
    BY <2>1
<1>8. CASE s = "absent" /\ t = "absent"
  <2>1. phases[d] = "none" /\ phases' = phases
    BY <1>1, <1>3, <1>5, <1>6, <1>8
  <2>2. Catalog!Store(d) \/ Catalog!Discard(d)
    BY <1>2, <1>4, <2>1 DEF Catalog!Store, Catalog!Discard, phases
  <2>3. QED
    BY <2>2 DEF Catalog!Next
<1>9. CASE s = "absent" /\ t \in Pending /\ object[d] /\ object'[d]
  <2>1. phases[d] = "none" /\ phases' = [phases EXCEPT ![d] = "pending"]
    BY <1>3, <1>5, <1>6, <1>9
  <2>2. object' = object
    BY <1>2, <1>4, <1>9
  <2>3. Catalog!Register(d)
    BY <1>9, <2>1, <2>2 DEF Catalog!Register, Catalog!Move, phases
  <2>4. QED
    BY <2>3 DEF Catalog!Next
<1>10. CASE s \in Pending /\ t \in Pending /\ object'[d] \in {object[d], FALSE}
  <2>1. phases[d] = "pending" /\ phases' = phases
    BY <1>1, <1>3, <1>5, <1>6, <1>10
  <2>2. CASE object'[d] = object[d]
    <3>1. object' = object
      BY <1>2, <1>4, <2>2
    <3>2. QED
      BY <2>1, <3>1
  <2>3. CASE object'[d] = FALSE
    <3>1. Catalog!Erase(d)
      BY <1>4, <2>1, <2>3 DEF Catalog!Erase, phases
    <3>2. QED
      BY <3>1 DEF Catalog!Next
  <2>4. QED
    BY <1>10, <2>2, <2>3
<1>11. CASE s \in Pending /\ t = "indexed" /\ object[d] /\ object'[d]
  <2>1. phases[d] = "pending" /\ phases' = [phases EXCEPT ![d] = "searchable"]
    BY <1>3, <1>5, <1>6, <1>11
  <2>2. object' = object
    BY <1>2, <1>4, <1>11
  <2>3. Catalog!Offer(d)
    BY <1>11, <2>1, <2>2 DEF Catalog!Offer, Catalog!Move, phases
  <2>4. QED
    BY <2>3 DEF Catalog!Next
<1>12. CASE s = "indexed" /\ t \in Pending /\ object'[d] = object[d]
  <2>1. phases[d] = "searchable" /\ phases' = [phases EXCEPT ![d] = "pending"]
    BY <1>3, <1>5, <1>6, <1>12
  <2>2. object' = object
    BY <1>2, <1>4, <1>12
  <2>3. Catalog!Withdraw(d)
    BY <2>1, <2>2 DEF Catalog!Withdraw, Catalog!Move, phases
  <2>4. QED
    BY <2>3 DEF Catalog!Next
<1>13. CASE s \in Pending /\ t = "deleted" /\ ~object[d] /\ ~object'[d]
  <2>1. phases[d] = "pending" /\ phases' = [phases EXCEPT ![d] = "deleted"]
    BY <1>3, <1>5, <1>6, <1>13
  <2>2. object' = object
    BY <1>2, <1>4, <1>13
  <2>3. Catalog!Retire(d)
    BY <1>13, <2>1, <2>2 DEF Catalog!Retire, Catalog!Move, phases
  <2>4. QED
    BY <2>3 DEF Catalog!Next
<1>14. CASE s = "deleted" /\ t \in Pending /\ object'[d] = object[d]
  <2>1. phases[d] = "deleted" /\ phases' = [phases EXCEPT ![d] = "pending"]
    BY <1>3, <1>5, <1>6, <1>14
  <2>2. object' = object
    BY <1>2, <1>4, <1>14
  <2>3. Catalog!Reopen(d)
    BY <2>1, <2>2 DEF Catalog!Reopen, Catalog!Move, phases
  <2>4. QED
    BY <2>3 DEF Catalog!Next
<1>15. QED
  BY <1>7, <1>8, <1>9, <1>10, <1>11, <1>12, <1>13, <1>14 DEF StatusMove

----------------------------------------------------------------------------
(* Frames.                                                                 *)

\* A step of a running request on its own document.
LEMMA CatalogKeep ==
  ASSUME Background, CatalogInv, NEW r \in Requests, NEW d \in Docs, req[r].doc = d,
         req[r].pc \notin {"idle", "done"}, NEW step, Moves(r, step), Elsewhere(d),
         CatalogDoc(d)', CatalogTask(r)'
  PROVE  CatalogInv'
<1>1. \A q \in Requests \ {r} : req'[q] = req[q]
  BY DEF Moves, OthersSame
<1>2. ASSUME NEW e \in Docs PROVE CatalogDoc(e)'
  <2>1. CASE e = d
    BY <2>1
  <2>2. CASE e # d
    BY <2>2 DEF CatalogInv, CatalogDoc, Elsewhere, NoPoints
  <2>3. QED
    BY <2>1, <2>2
<1>3. ASSUME NEW q \in Requests PROVE CatalogTask(q)'
  <2>1. CASE q = r
    BY <2>1
  <2>2. ASSUME q # r, req[q].pc \in {"idle", "done"} PROVE CatalogTask(q)'
    <3>1. req'[q] = req[q] /\ CatalogTask(q)
      BY <1>1, <2>2 DEF CatalogInv
    <3>2. QED
      BY <2>2, <3>1 DEF CatalogTask, At, PipelineSteps, DeleteSteps
  <2>3. ASSUME q # r, req[q].pc \notin {"idle", "done"} PROVE CatalogTask(q)'
    <3>1. req'[q] = req[q] /\ CatalogTask(q) /\ req[q].doc \in Docs
      BY <1>1, <2>3 DEF CatalogInv, Background, TypeOK, RequestRecord
    <3>2. req[q].doc # d
      BY <2>3, <3>1 DEF Background, SerialInv, OneTaskAtATime, Busy
    <3>3. /\ status'[req[q].doc] = status[req[q].doc]
          /\ object'[req[q].doc] = object[req[q].doc]
          /\ vectors'[req[q].doc] = vectors[req[q].doc]
      BY <3>1, <3>2 DEF Elsewhere
    <3>4. QED
      BY <3>1, <3>3 DEF CatalogTask, At, NoPoints
  <2>4. QED
    BY <2>1, <2>2, <2>3
<1>4. QED
  BY <1>2, <1>3 DEF CatalogInv

\* A request begins on a document on which nothing else is running.
LEMMA CatalogBegin ==
  ASSUME Background, CatalogInv, NEW r \in Requests, NEW d \in Docs, At(r, "idle"),
         req'[r].doc = d, OthersSame(r), \A q \in Requests : ~Busy(q, d),
         UNCHANGED <<status, chunks, vectors>>,
         \A e \in Docs \ {d} : object'[e] = object[e],
         status[d] = "absent" \/ UNCHANGED object,
         CatalogTask(r)'
  PROVE  CatalogInv'
<1>1. ASSUME NEW e \in Docs PROVE CatalogDoc(e)'
  BY DEF CatalogInv, CatalogDoc, NoPoints
<1>2. ASSUME NEW q \in Requests \ {r} PROVE CatalogTask(q)'
  <2>1. req'[q] = req[q] /\ CatalogTask(q) /\ req[q].doc \in Docs
    BY DEF OthersSame, CatalogInv, Background, TypeOK, RequestRecord
  <2>2. req[q].pc \notin {"idle", "done"} => req[q].doc # d
    BY DEF Busy
  <2>3. req[q].pc \notin {"idle", "done"} => object'[req[q].doc] = object[req[q].doc]
    BY <2>1, <2>2
  <2>4. QED
    BY <2>1, <2>3 DEF CatalogTask, At, NoPoints, PipelineSteps
<1>3. QED
  BY <1>1, <1>2 DEF CatalogInv

\* What is known of a running request.
LEMMA Known ==
  ASSUME Background, CatalogInv, NEW r \in Requests, NEW d \in Docs, req[r].doc = d
  PROVE  /\ TypeOK /\ ErasureInv /\ status \in [Docs -> DocumentStatus]
         /\ object \in [Docs -> BOOLEAN] /\ vectors \in [Docs -> PointMaps]
         /\ IndexingTask(r) /\ HoldTask(r) /\ CatalogTask(r) /\ CatalogDoc(d)
         /\ status[d] = "deleted" => ~object[d]
BY DEF Background, TypeOK, PointMaps, SerialInv, HoldInv, CatalogInv, ErasureInv,
   DeletedHasNoObject

----------------------------------------------------------------------------
(* The steps of the handlers.                                              *)

CatalogStep(d) == CatalogInv' /\ Elsewhere(d) /\ StatusMove(d)

LEMMA CatalogApi ==
  ASSUME Serial = TRUE, Kinds \subseteq CatalogKinds, Background, CatalogInv,
         NEW r \in Requests, ApiNext(r)
  PROVE  \E d \in Docs : CatalogStep(d)
<1>0. {"loadedDelete", "loadedRetry", "loadedReindex", "refresh", "publish", "queued",
       "done"} \subseteq Steps
  BY DEF Steps, ApiSteps
<1>1. PICK c \in Docs : req[r].doc = c
  BY DEF Background, TypeOK, RequestRecord
<1>2. /\ TypeOK /\ ErasureInv /\ status \in [Docs -> DocumentStatus]
      /\ object \in [Docs -> BOOLEAN]
      /\ IndexingTask(r) /\ HoldTask(r) /\ CatalogTask(r) /\ CatalogDoc(c)
      /\ status[c] = "deleted" => ~object[c]
  BY <1>1, Known
<1>3. ASSUME NEW d \in Docs, UploadPut(r, d) PROVE CatalogStep(d)
  <2>1. /\ At(r, "idle") /\ \A q \in Requests : ~Busy(q, d)
        /\ UNCHANGED <<status, chunks, vectors>> /\ status[d] = "absent"
        /\ \A e \in Docs \ {d} : object'[e] = object[e]
    BY <1>2, <1>3 DEF UploadPut, Busy
  <2>2. /\ req'[r].pc = "put" /\ req'[r].doc = d /\ OthersSame(r)
        /\ req'[r].unknownArg = req[r].unknownArg
    BY <1>2, <1>3, PutEffect
  <2>3. CatalogTask(r)'
    BY <1>2, <2>2 DEF CatalogTask, At, PipelineSteps, DeleteSteps
  <2>4. CatalogInv'
    BY <2>1, <2>2, <2>3, CatalogBegin
  <2>5. QED
    BY <2>1, <2>4 DEF CatalogStep, Elsewhere, StatusMove
<1>4. ASSUME NEW d \in Docs,
             LoadForDelete(r, d) \/ LoadForRetryDelete(r, d) \/ LoadForReindex(r, d)
      PROVE  CatalogStep(d)
  <2>1. /\ At(r, "idle") /\ Quiet(d) /\ UNCHANGED <<status, object, chunks, vectors>>
    BY <1>4 DEF LoadForDelete, LoadForRetryDelete, LoadForReindex, Load
  <2>2. /\ req'[r].pc \in {"loadedDelete", "loadedReindex"}
        /\ req'[r].doc = d /\ req'[r].seen = status[d] /\ OthersSame(r)
        /\ req'[r].unknownArg = req[r].unknownArg
    <3>1. CASE LoadForDelete(r, d)
      BY <1>0, <1>2, <3>1, LoadEffect DEF LoadForDelete, TaskNames
    <3>2. CASE LoadForReindex(r, d)
      BY <1>0, <1>2, <3>2, LoadEffect DEF LoadForReindex, TaskNames
    <3>3. QED
      BY <1>4, <3>1, <3>2 DEF LoadForRetryDelete, Load, CatalogKinds
  <2>3. CatalogTask(r)'
    BY <1>2, <2>1, <2>2 DEF CatalogTask, At, PipelineSteps, DeleteSteps
  <2>4. CatalogInv'
    BY <2>1, <2>2, <2>3, CatalogBegin DEF Quiet
  <2>5. QED
    BY <2>1, <2>4 DEF CatalogStep, Elsewhere, StatusMove
<1>5. CASE UploadCommit(r)
  <2>1. /\ Moves(r, "refresh") /\ At(r, "put") /\ UNCHANGED <<object, chunks, vectors>>
        /\ status' = [status EXCEPT ![c] = "uploaded"]
    BY <1>0, <1>1, <1>2, <1>5, GotoEffect DEF UploadCommit, SetStatus
  <2>2. req[r].task = "process" /\ status[c] = "absent" /\ object[c]
    BY <1>1, <1>2, <2>1 DEF ErasureInv, PutOwnsDocument
  <2>3. status'[c] = "uploaded" /\ Elsewhere(c)
    BY <1>2, <2>1 DEF Elsewhere
  <2>4. CatalogTask(r)' /\ CatalogDoc(c)'
    BY <1>1, <1>2, <2>1, <2>2, <2>3
       DEF CatalogTask, CatalogDoc, Moves, At, PipelineSteps, DeleteSteps
  <2>5. CatalogInv'
    BY <1>1, <2>1, <2>3, <2>4, CatalogKeep DEF At
  <2>6. QED
    BY <2>1, <2>2, <2>3, <2>5 DEF CatalogStep, StatusMove, Pending, DocumentStatus
<1>6. CASE UploadRollback(r)
  <2>1. /\ Moves(r, "done") /\ UNCHANGED <<status, chunks, vectors>>
        /\ req[r].pc \in {"put", "refresh"} /\ object'[c] \in {object[c], FALSE}
        /\ \A e \in Docs \ {c} : object'[e] = object[e]
    BY <1>0, <1>1, <1>2, <1>6, LeaveEffect DEF UploadRollback
  <2>2. status[c] = "absent" \/ status[c] \in Pending
    <3>1. CASE At(r, "put")
      BY <1>1, <1>2, <3>1 DEF ErasureInv, PutOwnsDocument
    <3>2. CASE At(r, "refresh")
      BY <1>1, <1>2, <3>2 DEF CatalogTask, Pending, At
    <3>3. QED
      BY <2>1, <3>1, <3>2 DEF At
  <2>3. CatalogTask(r)' /\ CatalogDoc(c)' /\ Elsewhere(c)
    BY <1>1, <1>2, <2>1, <2>2
       DEF CatalogTask, CatalogDoc, Moves, At, PipelineSteps, DeleteSteps, Elsewhere,
           Pending, NoPoints
  <2>4. CatalogInv'
    BY <1>1, <2>1, <2>3, CatalogKeep
  <2>5. QED
    BY <2>1, <2>2, <2>3, <2>4 DEF CatalogStep, StatusMove
<1>7. CASE UploadRefresh(r) \/ DeleteSkipped(r) \/ ReindexRefused(r)
           \/ RequestAborted(r) \/ Publish(r)
  <2>1. /\ UNCHANGED <<status, object, chunks, vectors>>
        /\ req[r].pc \notin {"idle", "done"}
        /\ \/ Moves(r, "done")
           \/ Moves(r, "queued") /\ At(r, "publish")
           \/ Moves(r, "publish") /\ At(r, "refresh") /\ req[r].task = "process"
    BY <1>0, <1>2, <1>7, LeaveEffect, GotoEffect
       DEF UploadRefresh, DeleteSkipped, ReindexRefused, RequestAborted, Publish,
           HoldTask, At, ApiSteps
  <2>2. CatalogTask(r)' /\ CatalogDoc(c)' /\ Elsewhere(c)
    BY <1>1, <1>2, <2>1
       DEF CatalogTask, CatalogDoc, Moves, At, PipelineSteps, DeleteSteps, Elsewhere,
           NoPoints
  <2>3. CatalogInv'
    BY <1>1, <2>1, <2>2, CatalogKeep
  <2>4. QED
    BY <2>1, <2>2, <2>3 DEF CatalogStep, StatusMove
<1>8. CASE DeleteRetained(r)
  <2>1. /\ Moves(r, "done") /\ At(r, "loadedDelete") /\ held[c]
        /\ UNCHANGED <<object, chunks, vectors>>
        /\ status' = status \/ status' = [status EXCEPT ![c] = "retained_by_policy"]
    BY <1>0, <1>1, <1>2, <1>8, LeaveEffect DEF DeleteRetained, SetStatus
  <2>2. status[c] \in Pending \cup {"indexed", "deleted"}
    BY <1>1, <1>2, <2>1 DEF HoldTask, At, Pending
  <2>3. /\ Elsewhere(c)
        /\ status'[c] \in {status[c], "retained_by_policy"}
    BY <1>2, <2>1 DEF Elsewhere
  <2>4. CatalogTask(r)' /\ CatalogDoc(c)'
    BY <1>1, <1>2, <2>1, <2>3
       DEF CatalogTask, CatalogDoc, Moves, At, PipelineSteps, DeleteSteps, NoPoints
  <2>5. CatalogInv'
    BY <1>1, <2>1, <2>3, <2>4, CatalogKeep DEF At
  <2>6. QED
    BY <2>1, <2>2, <2>3, <2>5 DEF CatalogStep, StatusMove, Pending, DocumentStatus
<1>9. CASE DeleteCommitRequest(r)
  <2>1. /\ Moves(r, "publish") /\ At(r, "loadedDelete") /\ req[r].task = "delete"
        /\ UNCHANGED <<object, chunks, vectors>> /\ req[r].seen # "deleted"
        /\ status' = [status EXCEPT ![c] = "delete_requested"]
    BY <1>0, <1>1, <1>2, <1>9, GotoEffect
       DEF DeleteCommitRequest, SetStatus, ErasureInv, TaskChosen, At
  <2>2. status[c] \in Pending \cup {"indexed"}
    BY <1>1, <1>2, <2>1 DEF HoldTask, CatalogTask, At, Pending
  <2>3. status'[c] = "delete_requested" /\ Elsewhere(c)
    BY <1>2, <2>1 DEF Elsewhere
  <2>4. CatalogTask(r)' /\ CatalogDoc(c)'
    BY <1>1, <1>2, <2>1, <2>3
       DEF CatalogTask, CatalogDoc, Moves, At, PipelineSteps, DeleteSteps
  <2>5. CatalogInv'
    BY <1>1, <2>1, <2>3, <2>4, CatalogKeep DEF At
  <2>6. QED
    BY <2>1, <2>2, <2>3, <2>5 DEF CatalogStep, StatusMove, Pending, DocumentStatus
<1>10. CASE ReindexCommit(r)
  <2>1. /\ Moves(r, "publish") /\ At(r, "loadedReindex") /\ req[r].seen = status[c]
        /\ UNCHANGED <<object, chunks, vectors>> /\ req[r].seen # "deleted"
        /\ req'[r].seen = req[r].seen
        /\ \/ status' = status /\ status[c] = "processing"
           \/ status' = [status EXCEPT ![c] = "processing"]
    BY <1>0, <1>1, <1>2, <1>10, GotoEffect
       DEF ReindexCommit, ReindexConflict, SetStatus, IndexingTask
  <2>2. status[c] \in Pending \cup {"indexed"}
    BY <1>1, <1>2, <2>1 DEF HoldTask, At, Pending
  <2>3. status'[c] = "processing" /\ Elsewhere(c)
    BY <1>2, <2>1 DEF Elsewhere
  <2>4. CatalogTask(r)' /\ CatalogDoc(c)'
    BY <1>1, <1>2, <2>1, <2>3
       DEF CatalogTask, CatalogDoc, Moves, At, PipelineSteps, DeleteSteps
  <2>5. CatalogInv'
    BY <1>1, <2>1, <2>3, <2>4, CatalogKeep DEF At
  <2>6. QED
    BY <2>1, <2>2, <2>3, <2>5 DEF CatalogStep, StatusMove, Pending, DocumentStatus
<1>11. CASE PublishFails(r)
  <2>1. /\ Moves(r, "done") /\ At(r, "publish") /\ UNCHANGED <<object, chunks, vectors>>
        /\ \/ status' = status
           \/ req[r].task = "reindex" /\ status' = [status EXCEPT ![c] = req[r].seen]
    BY <1>0, <1>1, <1>2, <1>11, LeaveEffect DEF PublishFails, SetStatus
  <2>2. Elsewhere(c)
    BY <1>2, <2>1 DEF Elsewhere
  <2>3. \/ status'[c] = status[c]
        \/ /\ status[c] = "processing" /\ status'[c] = req[r].seen
           /\ req[r].seen \in DocumentStatus \ {"absent", "deleted"}
           /\ req[r].seen = "indexed" => object[c]
    BY <1>1, <1>2, <2>1
       DEF CatalogTask, HoldTask, ErasureInv, ReindexSawNoDeletion, TypeOK,
           RequestRecord, At
  <2>4. CatalogTask(r)' /\ CatalogDoc(c)'
    BY <1>1, <1>2, <2>1, <2>3
       DEF CatalogTask, CatalogDoc, Moves, At, PipelineSteps, DeleteSteps, NoPoints
  <2>5. CatalogInv'
    BY <1>1, <2>1, <2>2, <2>4, CatalogKeep DEF At
  <2>6. StatusMove(c)
    BY <2>1, <2>3 DEF StatusMove, Pending, DocumentStatus
  <2>7. QED
    BY <2>2, <2>5, <2>6 DEF CatalogStep
<1>12. CASE RetryDeleteCommit(r) \/ RetryDeleteRefused(r)
  BY <1>2, <1>12 DEF RetryDeleteCommit, RetryDeleteRefused, HoldTask
<1>13. ASSUME NEW j \in Requests, RetryFailedJob(r, j) PROVE FALSE
  BY <1>13 DEF RetryFailedJob, CatalogKinds
<1>14. QED
  BY <1>3, <1>4, <1>5, <1>6, <1>7, <1>8, <1>9, <1>10, <1>11, <1>12, <1>13 DEF ApiNext

----------------------------------------------------------------------------
(* The steps of the workers.                                               *)

LEMMA CatalogBegins ==
  ASSUME Background, CatalogInv, NEW r \in Requests, NEW d \in Docs, req[r].doc = d,
         Begin(r) \/ Mark(r)
  PROVE  CatalogStep(d)
<1>0. /\ {"queued", "done"} \cup WorkerSteps \subseteq Steps
      /\ TypeOK /\ status \in [Docs -> DocumentStatus]
      /\ HoldTask(r) /\ CatalogTask(r) /\ CatalogDoc(d)
  BY Known DEF Steps
<1>1. /\ req[r].pc \in {"queued", "mark"} /\ UNCHANGED <<object, chunks, vectors>>
      /\ Elsewhere(d)
  BY <1>0 DEF Begin, BeginBadCall, BeginProcess, BeginReindex, BeginDelete, Mark, At,
     SetStatus, Elsewhere
<1>2. status[d] # "absent"
  BY <1>0, <1>1 DEF HoldTask
<1>3. CASE Begin(r)
  <2>1. UNCHANGED status /\ At(r, "queued")
    BY <1>3 DEF Begin, BeginBadCall, BeginProcess, BeginReindex, BeginDelete
  <2>2. \/ /\ req[r].task # "delete" /\ status[d] # "deleted"
           /\ \E step \in {"mark", "ack", "fail", "extract"} : Moves(r, step)
        \/ req[r].task = "delete" /\ Moves(r, "ack")
        \/ /\ req[r].task = "delete" /\ status[d] # "deleted"
           /\ \E step \in {"mark", "delVectors"} : Moves(r, step)
    <3>1. CASE BeginBadCall(r)
      BY <1>0, <3>1 DEF BeginBadCall, CatalogTask
    <3>2. CASE BeginProcess(r)
      BY <1>0, <3>2, GotoEffect DEF BeginProcess, WorkerSteps, CatalogTask, At
    <3>3. CASE BeginReindex(r)
      BY <1>0, <3>3, GotoEffect
         DEF BeginReindex, WorkerSteps, PipelineSteps, CatalogTask, At
    <3>4. CASE BeginDelete(r)
      BY <1>0, <3>4, GotoEffect DEF BeginDelete, WorkerSteps, DeleteSteps
    <3>5. QED
      BY <1>3, <3>1, <3>2, <3>3, <3>4 DEF Begin
  <2>3. \E step : Moves(r, step)
    BY <2>2
  <2>4. CatalogTask(r)' /\ CatalogDoc(d)'
    BY <1>0, <1>1, <2>1, <2>2
       DEF CatalogTask, CatalogDoc, Moves, At, PipelineSteps, DeleteSteps, NoPoints
  <2>5. CatalogInv'
    BY <1>1, <2>3, <2>4, CatalogKeep
  <2>6. QED
    BY <1>1, <2>1, <2>5 DEF CatalogStep, StatusMove
<1>4. CASE Mark(r)
  <2>1. /\ \/ req[r].task = "delete" /\ Moves(r, "delVectors")
           \/ req[r].task # "delete" /\ Moves(r, "extract")
        /\ status'[d] \in {"deleting", "processing"}
        /\ status[d] \in Pending \cup {"indexed"}
    BY <1>0, <1>2, <1>4, GotoEffect
       DEF Mark, SetStatus, WorkerSteps, PipelineSteps, DeleteSteps, CatalogTask, At,
           Pending
  <2>2. CatalogTask(r)' /\ CatalogDoc(d)'
    BY <1>0, <1>1, <2>1
       DEF CatalogTask, CatalogDoc, Moves, At, PipelineSteps, DeleteSteps, NoPoints
  <2>3. CatalogInv'
    BY <1>1, <2>1, <2>2, CatalogKeep
  <2>4. QED
    BY <1>1, <2>1, <2>3 DEF CatalogStep, StatusMove, Pending, DocumentStatus
<1>5. QED
  BY <1>3, <1>4

LEMMA CatalogPipeline ==
  ASSUME Background, CatalogInv, NEW r \in Requests, NEW d \in Docs, req[r].doc = d,
         \/ Extract(r) \/ DlpPass(r) \/ DlpWarn(r) \/ DlpBlock(r)
         \/ Cleanup(r) \/ Chunk(r) \/ Upsert(r) \/ CommitIndexed(r)
  PROVE  CatalogStep(d)
<1>0. /\ {"ack", "fail"} \cup PipelineSteps \subseteq Steps
      /\ TypeOK /\ status \in [Docs -> DocumentStatus]
      /\ object \in [Docs -> BOOLEAN] /\ vectors \in [Docs -> PointMaps]
      /\ IndexingTask(r) /\ CatalogTask(r) /\ CatalogDoc(d)
  BY Known DEF Steps, WorkerSteps
<1>1. req[r].pc \in PipelineSteps /\ UNCHANGED object
  BY DEF Extract, DlpPass, DlpWarn, DlpBlock, Cleanup, Chunk, Upsert, CommitIndexed,
     At, PipelineSteps
<1>2. /\ status[d] = "processing" /\ req[r].task # "delete" /\ ~req[r].unknownArg
      /\ req[r].pc # "extract" => object[d]
      /\ req[r].pc \notin {"idle", "done"}
  BY <1>0, <1>1 DEF IndexingTask, CatalogTask, PipelineSteps
<1>3. Elsewhere(d)
  BY <1>0 DEF Extract, DlpPass, DlpWarn, DlpBlock, Cleanup, Chunk, Upsert,
     CommitIndexed, SetStatus, WritePoints, PointMaps, TypeOK, Elsewhere
<1>4. CASE Extract(r) \/ DlpPass(r) \/ DlpWarn(r) \/ DlpBlock(r)
           \/ Cleanup(r) \/ Chunk(r) \/ Upsert(r)
  <2>1. status'[d] \in {"processing", "quarantined", "blocked"}
    BY <1>0, <1>2, <1>4
       DEF Extract, DlpPass, DlpWarn, DlpBlock, Cleanup, Chunk, Upsert, SetStatus
  <2>2. PICK step \in {"fail"} \cup (PipelineSteps \ {"extract"}) :
          Moves(r, step) /\ (step # "fail" => object[d])
    <3>1. CASE Extract(r)
      BY <1>0, <3>1, GotoEffect DEF Extract, PipelineSteps
    <3>2. CASE DlpBlock(r)
      BY <1>0, <3>2, LeaveEffect DEF DlpBlock
    <3>3. CASE DlpPass(r) \/ DlpWarn(r) \/ Cleanup(r) \/ Chunk(r) \/ Upsert(r)
      BY <1>0, <1>2, <3>3, GotoEffect
         DEF DlpPass, DlpWarn, Cleanup, Chunk, Upsert, At, PipelineSteps
    <3>4. QED
      BY <1>4, <3>1, <3>2, <3>3
  <2>3. CatalogTask(r)' /\ CatalogDoc(d)'
    BY <1>1, <1>2, <2>1, <2>2
       DEF CatalogTask, CatalogDoc, Moves, At, PipelineSteps, DeleteSteps
  <2>4. CatalogInv'
    BY <1>2, <1>3, <2>2, <2>3, CatalogKeep
  <2>5. QED
    BY <1>1, <1>2, <1>3, <2>1, <2>4
       DEF CatalogStep, StatusMove, Pending, DocumentStatus
<1>5. CASE CommitIndexed(r)
  <2>1. PICK step \in {"ack", "fail"} :
          Moves(r, step) /\ status'[d] = "indexed" /\ At(r, "commit")
    BY <1>0, <1>5, LeaveEffect DEF CommitIndexed, Committed, SetStatus
  <2>2. object[d] /\ object'[d]
    BY <1>1, <1>2, <2>1 DEF At
  <2>3. CatalogTask(r)' /\ CatalogDoc(d)'
    BY <1>2, <2>1, <2>2
       DEF CatalogTask, CatalogDoc, Moves, At, PipelineSteps, DeleteSteps
  <2>4. CatalogInv'
    BY <1>2, <1>3, <2>1, <2>3, CatalogKeep
  <2>5. QED
    BY <1>2, <1>3, <2>1, <2>2, <2>4
       DEF CatalogStep, StatusMove, Pending, DocumentStatus
<1>6. QED
  BY <1>4, <1>5

LEMMA CatalogDeletion ==
  ASSUME Background, CatalogInv, NEW r \in Requests, NEW d \in Docs, req[r].doc = d,
         DeleteVectors(r) \/ DeleteObjects(r) \/ DeleteRows(r) \/ DeleteCommit(r)
  PROVE  CatalogStep(d)
<1>0. /\ {"ack", "fail"} \cup DeleteSteps \subseteq Steps
      /\ TypeOK /\ ErasureInv /\ SerialInv /\ status \in [Docs -> DocumentStatus]
      /\ object \in [Docs -> BOOLEAN] /\ vectors \in [Docs -> PointMaps]
      /\ IndexingTask(r) /\ CatalogTask(r) /\ CatalogDoc(d)
  BY Known DEF Steps, WorkerSteps, Background
<1>1. req[r].pc \in DeleteSteps
  BY DEF DeleteVectors, DeleteObjects, DeleteRows, DeleteCommit, At, DeleteSteps
<1>2. /\ status[d] = "deleting" /\ req[r].task = "delete" /\ ~req[r].unknownArg
      /\ req[r].pc # "delVectors" => vectors[d] = NoPoints
      /\ req[r].pc \notin {"idle", "done"}
  BY <1>0, <1>1 DEF IndexingTask, CatalogTask, DeleteSteps
<1>3. Elsewhere(d)
  BY <1>0 DEF DeleteVectors, DeleteObjects, DeleteRows, DeleteCommit, SetStatus, TypeOK,
     Elsewhere
<1>4. CASE DeleteVectors(r) \/ DeleteObjects(r) \/ DeleteRows(r)
  <2>1. /\ UNCHANGED status /\ object'[d] \in {object[d], FALSE}
        /\ vectors'[d] = NoPoints
    BY <1>0, <1>2, <1>4 DEF DeleteVectors, DeleteObjects, DeleteRows, At
  <2>2. PICK step \in {"delObjects", "delRows", "delCommit"} : Moves(r, step)
    BY <1>0, <1>4, DeleteVectorsEffect, GotoEffect, DeleteRowsEffect
       DEF DeleteObjects, DeleteSteps
  <2>3. CatalogTask(r)' /\ CatalogDoc(d)'
    BY <1>2, <2>1, <2>2
       DEF CatalogTask, CatalogDoc, Moves, At, PipelineSteps, DeleteSteps, NoPoints
  <2>4. CatalogInv'
    BY <1>2, <1>3, <2>2, <2>3, CatalogKeep
  <2>5. QED
    BY <1>2, <1>3, <2>1, <2>4 DEF CatalogStep, StatusMove, Pending, DocumentStatus
<1>5. CASE DeleteCommit(r)
  <2>1. PICK step \in {"ack", "fail"} :
          /\ Moves(r, step) /\ At(r, "delCommit") /\ UNCHANGED <<object, vectors>>
          /\ chunks'[d] = NoRun /\ status'[d] = "deleted"
    BY <1>0, <1>5, LeaveEffect, SerialDeleted DEF DeleteCommit, Committed
  <2>2. ~object[d]
    BY <1>0, <2>1 DEF ErasureInv, ErasedBeforeRows, At
  <2>3. CatalogTask(r)' /\ CatalogDoc(d)'
    BY <1>2, <2>1, <2>2
       DEF CatalogTask, CatalogDoc, Moves, At, PipelineSteps, DeleteSteps, NoPoints
  <2>4. CatalogInv'
    BY <1>2, <1>3, <2>1, <2>3, CatalogKeep
  <2>5. QED
    BY <1>2, <1>3, <2>1, <2>2, <2>4
       DEF CatalogStep, StatusMove, Pending, DocumentStatus
<1>6. QED
  BY <1>4, <1>5

LEMMA CatalogEnds ==
  ASSUME Background, CatalogInv, NEW r \in Requests, NEW d \in Docs, req[r].doc = d,
         PersistFailedJob(r) \/ TerminalFailure(r) \/ Ack(r)
  PROVE  CatalogStep(d)
<1>0. /\ {"done", "terminal", "ack"} \subseteq Steps
      /\ TypeOK /\ status \in [Docs -> DocumentStatus]
      /\ HoldTask(r) /\ CatalogTask(r) /\ CatalogDoc(d)
  BY Known DEF Steps, WorkerSteps
<1>1. /\ req[r].pc \in {"fail", "terminal", "ack"}
      /\ UNCHANGED <<object, chunks, vectors>> /\ Elsewhere(d)
      /\ \/ status'[d] = status[d]
         \/ /\ req[r].pc = "terminal" /\ status[d] \in Pending \cup {"indexed", "deleted"}
            /\ status'[d] \in {"failed", "delete_requested"}
  BY <1>0 DEF PersistFailedJob, TerminalFailure, Ack, At, SetStatus, Elsewhere,
     HoldTask, CatalogTask, Pending
<1>2. \/ Moves(r, "terminal") /\ At(r, "fail")
      \/ Moves(r, "ack") /\ At(r, "terminal")
      \/ Moves(r, "done")
  BY <1>0, GotoEffect, LeaveEffect, AckEffect DEF PersistFailedJob, TerminalFailure
<1>3. status'[d] = "deleted" => status[d] = "deleted"
  BY <1>1
<1>4. CatalogTask(r)'
  BY <1>0, <1>1, <1>2, <1>3
     DEF CatalogTask, Moves, At, PipelineSteps, DeleteSteps, NoPoints
<1>5. CatalogDoc(d)'
  BY <1>0, <1>1 DEF CatalogDoc, NoPoints
<1>6. CatalogInv'
  BY <1>1, <1>2, <1>4, <1>5, CatalogKeep
<1>7. QED
  BY <1>1, <1>6 DEF CatalogStep, StatusMove, Pending, DocumentStatus

LEMMA CatalogFault ==
  ASSUME Background, CatalogInv, NEW r \in Requests, NEW d \in Docs, req[r].doc = d,
         WorkerFault(r)
  PROVE  CatalogStep(d)
<1>0. /\ {"queued", "fail"} \subseteq Steps
      /\ TypeOK /\ IndexingTask(r) /\ HoldTask(r) /\ CatalogTask(r) /\ CatalogDoc(d)
      /\ object \in [Docs -> BOOLEAN] /\ vectors \in [Docs -> PointMaps]
  BY Known DEF Steps, WorkerSteps
<1>1. /\ req[r].pc \in {"queued"} \cup WorkerSteps /\ UNCHANGED <<status, chunks>>
      /\ UNCHANGED <<object, vectors>> \/ PartialEffect(r)
      /\ Moves(r, "queued") \/ Moves(r, "fail")
  BY <1>0, TransientRetryEffect, LeaveEffect
     DEF WorkerFault, TransientRetry, RetriesExhausted, TaskRaises, WorkerLost,
         TransientSteps, WorkerSteps, PipelineSteps, DeleteSteps
<1>2. /\ req[r].pc \in PipelineSteps => status[d] = "processing"
      /\ req[r].pc \in DeleteSteps => status[d] = "deleting"
  BY <1>0 DEF IndexingTask
<1>3. /\ Elsewhere(d)
      /\ object'[d] = object[d] \/ (status[d] = "deleting" /\ object'[d] = FALSE)
      /\ vectors'[d] = vectors[d] \/ status[d] = "processing"
  BY <1>0, <1>1, <1>2
     DEF PartialEffect, WritePoints, PointMaps, Elsewhere, At, PipelineSteps, DeleteSteps
<1>4. req[r].task # "delete" => status[d] # "deleted"
  BY <1>0, <1>1, <1>2 DEF CatalogTask, WorkerSteps
<1>5. CatalogTask(r)'
  BY <1>0, <1>1, <1>4 DEF CatalogTask, Moves, At, PipelineSteps, DeleteSteps
<1>6. CatalogDoc(d)'
  BY <1>0, <1>1, <1>3 DEF CatalogDoc, NoPoints
<1>7. CatalogInv'
  <2>1. req[r].pc \notin {"idle", "done"}
    BY <1>1 DEF WorkerSteps, PipelineSteps, DeleteSteps
  <2>2. \E step : Moves(r, step)
    BY <1>1
  <2>3. QED
    BY <1>3, <1>5, <1>6, <2>1, <2>2, CatalogKeep
<1>8. QED
  BY <1>1, <1>3, <1>7 DEF CatalogStep, StatusMove, Pending, DocumentStatus

----------------------------------------------------------------------------
(* The refinement.                                                         *)

LEMMA CatalogSteps ==
  ASSUME Serial = TRUE, Kinds \subseteq CatalogKinds, Background, CatalogInv, Next
  PROVE  \E d \in Docs : CatalogStep(d)
<1>1. ASSUME NEW r \in Requests, ApiNext(r) PROVE \E d \in Docs : CatalogStep(d)
  BY <1>1, CatalogApi
<1>2. ASSUME NEW r \in Requests, WorkerStep(r) \/ WorkerFault(r)
      PROVE  \E d \in Docs : CatalogStep(d)
  <2>1. PICK d \in Docs : req[r].doc = d
    BY DEF Background, TypeOK, RequestRecord
  <2>2. CatalogStep(d)
    BY <1>2, <2>1, CatalogBegins, CatalogPipeline, CatalogDeletion, CatalogEnds,
       CatalogFault DEF WorkerStep
  <2>3. QED
    BY <2>2
<1>3. QED
  BY <1>1, <1>2 DEF Next

LEMMA BackgroundInvariant ==
  ASSUME Serial = TRUE, "retryDelete" \notin Kinds
  PROVE  Spec => []Background
<1>1. Spec => []HoldInv
  BY HoldInvariant
<1>2. QED
  BY <1>1, SerialInvariant, TypeCorrect, ErasureInvariant, PTL DEF Background

LEMMA CatalogInvariant ==
  ASSUME Serial = TRUE, Kinds \subseteq CatalogKinds
  PROVE  Spec => []CatalogInv
<1>1. Background /\ CatalogInv /\ [Next]_vars => CatalogInv'
  <2> SUFFICES ASSUME Background, CatalogInv, [Next]_vars PROVE CatalogInv'
    OBVIOUS
  <2>1. CASE UNCHANGED vars
    BY <2>1 DEF vars, CatalogInv, CatalogDoc, CatalogTask, At, NoPoints
  <2>2. QED
    BY <2>1, CatalogSteps DEF CatalogStep
<1>2. "retryDelete" \notin Kinds
  BY DEF CatalogKinds
<1>3. QED
  BY <1>1, <1>2, CatalogInit, BackgroundInvariant, PTL DEF Spec

\* When a document's tasks do not overlap, and deletions and failed jobs are not
\* retried by the admin, every behaviour of the handlers, the workers and their
\* failures is one of the catalog: a document is offered to search only while its
\* source is stored and its index is exact, is withdrawn before anything of it is
\* erased, and is deleted when nothing of it is left.  A deletion that is
\* delivered again and fails opens a deleted document, for one more deletion.
THEOREM ImplementsCatalogHolds ==
  ASSUME Serial = TRUE, Kinds \subseteq CatalogKinds
  PROVE  Spec => ImplementsCatalog
<1> DEFINE Inv == Background /\ CatalogInv
<1>1. Init => Catalog!Init
  BY DEF Init, Catalog!Init, Phase
<1>2. Inv /\ Inv' /\ [Next]_vars => [Catalog!Next]_<<phases, object>>
  <2> SUFFICES ASSUME Inv, Inv', [Next]_vars
               PROVE  [Catalog!Next]_<<phases, object>>
    OBVIOUS
  <2>1. CASE UNCHANGED vars
    BY <2>1 DEF vars, phases, Phase, IndexOf, NoPoints
  <2>2. CASE Next
    <3>1. PICK d \in Docs : CatalogStep(d)
      BY <2>2, CatalogSteps
    <3>2. /\ TypeOK /\ TypeOK' /\ IndexIsExact /\ IndexIsExact'
          /\ CatalogInv /\ CatalogInv'
      BY DEF Background, SerialInv
    <3>3. QED
      BY <3>1, <3>2, MoveIsCatalogStep DEF CatalogStep
  <2>3. QED
    BY <2>1, <2>2
<1>3. "retryDelete" \notin Kinds
  BY DEF CatalogKinds
<1>4. [Catalog!Next]_<<phases, object>> <=> [Catalog!Next]_<<[d \in Docs |-> Phase(d)], object>>
  BY DEF phases
<1>5. QED
  BY <1>1, <1>2, <1>3, <1>4, CatalogInvariant, BackgroundInvariant, PTL
     DEF Spec, ImplementsCatalog, Catalog!Spec
=============================================================================
