---------------------- MODULE DocumentLifecycleProofs ----------------------
(***************************************************************************)
(* Proofs about the document lifecycle, for every number of documents,     *)
(* requests, chunks, retries and crashes and every choice of faults.       *)
(***************************************************************************)
EXTENDS DocumentLifecycle, TLAPS

----------------------------------------------------------------------------
(* What a step does to the records of the requests.                        *)

OthersSame(r) == \A q \in Requests \ {r} : req'[q] = req[q]

\* The step takes r to another place in its task, keeps what r was published
\* with and leaves the others alone.
Moves(r, step) ==
  /\ req' \in [Requests -> RequestRecord]
  /\ req'[r].pc = step
  /\ req'[r].doc = req[r].doc
  /\ req'[r].task = req[r].task
  /\ req'[r].size = req[r].size
  /\ req'[r].unknownArg = req[r].unknownArg
  /\ OthersSame(r)

LEMMA ReqEffect ==
  ASSUME TypeOK, NEW r \in Requests, NEW rec \in RequestRecord,
         req' = [req EXCEPT ![r] = rec]
  PROVE  /\ req' \in [Requests -> RequestRecord]
         /\ req'[r] = rec
         /\ OthersSame(r)
<1>1. req \in [Requests -> RequestRecord]
  BY DEF TypeOK
<1>2. QED
  BY <1>1 DEF OthersSame

LEMMA GotoEffect ==
  ASSUME TypeOK, NEW r \in Requests, NEW step \in Steps, Goto(r, step)
  PROVE  Moves(r, step) /\ req'[r].seen = req[r].seen
BY DEF TypeOK, Goto, RequestRecord, Moves, OthersSame

LEMMA LeaveEffect ==
  ASSUME TypeOK, NEW r \in Requests, NEW step \in Steps, Leave(r, step)
  PROVE  Moves(r, step) /\ req'[r].seen = "absent"
<1> DEFINE rec == [req[r] EXCEPT !.pc = step, !.seen = "absent", !.snapshot = NoRun]
<1>1. req[r] \in RequestRecord /\ req \in [Requests -> RequestRecord]
  BY DEF TypeOK
<1>2. /\ rec \in RequestRecord
      /\ rec.pc = step /\ rec.seen = "absent"
      /\ rec.doc = req[r].doc /\ rec.task = req[r].task
      /\ rec.size = req[r].size /\ rec.unknownArg = req[r].unknownArg
  BY <1>1 DEF RequestRecord, DocumentStatus
<1>3. req' = [req EXCEPT ![r] = rec]
  BY <1>1 DEF Leave
<1>4. QED
  BY <1>2, <1>3, ReqEffect DEF Moves

\* The records of the four steps that begin a request or publish it again.
LEMMA PutEffect ==
  ASSUME TypeOK, NEW r \in Requests, NEW d \in Docs, UploadPut(r, d)
  PROVE  /\ req' \in [Requests -> RequestRecord]
         /\ req'[r].pc = "put" /\ req'[r].doc = d /\ req'[r].task = "process"
         /\ req'[r].unknownArg = req[r].unknownArg
         /\ OthersSame(r)
<1>1. PICK n \in Points :
        req' = [req EXCEPT ![r] =
                 [@ EXCEPT !.pc = "put", !.task = "process", !.doc = d, !.size = n]]
  BY DEF UploadPut
<1>2. req[r] \in RequestRecord
  BY DEF TypeOK
<1> DEFINE rec ==
      [req[r] EXCEPT !.pc = "put", !.task = "process", !.doc = d, !.size = n]
<1>3. /\ rec \in RequestRecord
      /\ rec.pc = "put" /\ rec.doc = d /\ rec.task = "process"
      /\ rec.unknownArg = req[r].unknownArg
  BY <1>2 DEF RequestRecord, Steps, ApiSteps, TaskNames
<1>4. QED
  BY <1>1, <1>3, ReqEffect

LEMMA LoadEffect ==
  ASSUME TypeOK, NEW r \in Requests, NEW d \in Docs, NEW kind,
         NEW task \in TaskNames, NEW step \in Steps, Load(r, d, kind, task, step)
  PROVE  /\ req' \in [Requests -> RequestRecord]
         /\ req'[r].pc = step /\ req'[r].doc = d /\ req'[r].task = task
         /\ req'[r].seen = status[d] /\ req'[r].unknownArg = req[r].unknownArg
         /\ OthersSame(r)
<1>1. (IF task = "reindex" THEN Points ELSE {1}) \subseteq Points
  BY ConstantsAssumption DEF Points
<1>2. PICK n \in Points :
        req' = [req EXCEPT ![r] =
                 [@ EXCEPT !.pc = step, !.task = task, !.doc = d, !.seen = status[d],
                           !.size = n]]
  BY <1>1 DEF Load
<1> DEFINE rec == [req[r] EXCEPT !.pc = step, !.task = task, !.doc = d,
                                 !.seen = status[d], !.size = n]
<1>3. status[d] \in DocumentStatus /\ req[r] \in RequestRecord
  BY DEF TypeOK
<1>4. /\ rec \in RequestRecord
      /\ rec.pc = step /\ rec.doc = d /\ rec.task = task /\ rec.seen = status[d]
      /\ rec.unknownArg = req[r].unknownArg
  BY <1>3 DEF RequestRecord
<1>5. QED
  BY <1>2, <1>4, ReqEffect

LEMMA RetryJobEffect ==
  ASSUME TypeOK, NEW r \in Requests, NEW j \in Requests, RetryFailedJob(r, j)
  PROVE  /\ req' \in [Requests -> RequestRecord]
         /\ req'[r].pc = "queued" /\ req'[r].doc = req[j].doc
         /\ OthersSame(r)
<1> DEFINE rec == [req[r] EXCEPT !.pc = "queued", !.task = req[j].task,
                                 !.doc = req[j].doc, !.unknownArg = TRUE]
<1>1. req[r] \in RequestRecord /\ req[j] \in RequestRecord
  BY DEF TypeOK
<1>2. rec \in RequestRecord /\ rec.pc = "queued" /\ rec.doc = req[j].doc
  BY <1>1 DEF RequestRecord, Steps
<1>3. req' = [req EXCEPT ![r] = rec]
  BY DEF RetryFailedJob
<1>4. QED
  BY <1>2, <1>3, ReqEffect

LEMMA TransientRetryEffect ==
  ASSUME TypeOK, NEW r \in Requests, TransientRetry(r)
  PROVE  Moves(r, "queued") /\ req'[r].seen = "absent"
<1> DEFINE rec == [req[r] EXCEPT !.pc = "queued", !.tries = @ + 1, !.seen = "absent",
                                 !.snapshot = NoRun]
<1>1. req[r] \in RequestRecord /\ req[r].tries < MaxRetries
  BY DEF TypeOK, TransientRetry
<1>2. req[r].tries + 1 \in 0..MaxRetries
  BY <1>1, ConstantsAssumption DEF RequestRecord
<1>3. /\ rec \in RequestRecord
      /\ rec.pc = "queued" /\ rec.seen = "absent"
      /\ rec.doc = req[r].doc /\ rec.task = req[r].task
      /\ rec.size = req[r].size /\ rec.unknownArg = req[r].unknownArg
  BY <1>1, <1>2 DEF RequestRecord, Steps, DocumentStatus
<1>4. req' = [req EXCEPT ![r] = rec]
  BY DEF TransientRetry
<1>5. QED
  BY <1>3, <1>4, ReqEffect DEF Moves

LEMMA DeleteVectorsEffect ==
  ASSUME TypeOK, NEW r \in Requests, DeleteVectors(r)
  PROVE  Moves(r, "delObjects") /\ req'[r].seen = status[req[r].doc]
<1> DEFINE rec == [req[r] EXCEPT !.pc = "delObjects", !.seen = status[req[r].doc]]
<1>1. req[r] \in RequestRecord /\ req[r].doc \in Docs
  BY DEF TypeOK, RequestRecord
<1>2. status[req[r].doc] \in DocumentStatus
  BY <1>1 DEF TypeOK
<1>3. /\ rec \in RequestRecord
      /\ rec.pc = "delObjects" /\ rec.seen = status[req[r].doc]
      /\ rec.doc = req[r].doc /\ rec.task = req[r].task
      /\ rec.size = req[r].size /\ rec.unknownArg = req[r].unknownArg
  BY <1>1, <1>2 DEF RequestRecord, Steps, WorkerSteps, DeleteSteps
<1>4. req' = [req EXCEPT ![r] = rec]
  BY DEF DeleteVectors
<1>5. QED
  BY <1>3, <1>4, ReqEffect DEF Moves

LEMMA DeleteRowsEffect ==
  ASSUME TypeOK, NEW r \in Requests, DeleteRows(r)
  PROVE  /\ Moves(r, "delCommit") /\ req'[r].seen = req[r].seen
         /\ req'[r].snapshot = chunks[req[r].doc]
<1> DEFINE rec == [req[r] EXCEPT !.pc = "delCommit", !.snapshot = chunks[req[r].doc]]
<1>1. req[r] \in RequestRecord /\ req[r].doc \in Docs
  BY DEF TypeOK, RequestRecord
<1>2. chunks[req[r].doc] \in Requests \cup {NoRun}
  BY <1>1 DEF TypeOK
<1>3. /\ rec \in RequestRecord
      /\ rec.pc = "delCommit" /\ rec.seen = req[r].seen
      /\ rec.snapshot = chunks[req[r].doc]
      /\ rec.doc = req[r].doc /\ rec.task = req[r].task
      /\ rec.size = req[r].size /\ rec.unknownArg = req[r].unknownArg
  BY <1>1, <1>2 DEF RequestRecord, Steps, WorkerSteps, DeleteSteps
<1>4. req' = [req EXCEPT ![r] = rec]
  BY DEF DeleteRows
<1>5. QED
  BY <1>3, <1>4, ReqEffect DEF Moves

LEMMA AckEffect ==
  ASSUME TypeOK, NEW r \in Requests, Ack(r)
  PROVE  Moves(r, "done") /\ req'[r].seen = req[r].seen
<1>1. "done" \in Steps /\ 0 \in 0..MaxRetries
  BY ConstantsAssumption DEF Steps
<1>2. QED
  BY <1>1 DEF Ack, TypeOK, RequestRecord, Moves, OthersSame

----------------------------------------------------------------------------
(* Type correctness.                                                       *)

LEMMA TypeInit == Init => TypeOK
<1> SUFFICES ASSUME Init PROVE TypeOK
  OBVIOUS
<1>1. (CHOOSE d \in Docs : TRUE) \in Docs
  BY ConstantsAssumption
<1>2. 1 \in Points
  BY ConstantsAssumption DEF Points
<1>3. req \in [Requests -> RequestRecord]
  BY <1>1, <1>2, ConstantsAssumption
     DEF Init, RequestRecord, DocumentStatus, TaskNames, Steps
<1>4. QED
  BY <1>3, ConstantsAssumption DEF Init, TypeOK, DocumentStatus, AllContents

LEMMA ApiTypeOK ==
  ASSUME TypeOK, NEW r \in Requests, ApiNext(r)
  PROVE  TypeOK'
<1>0. {"put", "refresh", "loadedDelete", "loadedRetry", "loadedReindex", "publish",
       "queued", "done"} \subseteq Steps
  BY DEF Steps, ApiSteps
<1>1. ASSUME NEW d \in Docs, UploadPut(r, d) PROVE TypeOK'
  <2>1. req' \in [Requests -> RequestRecord]
    BY <1>1, PutEffect
  <2>2. QED
    BY <1>1, <2>1, ConstantsAssumption DEF UploadPut, TypeOK
<1>2. ASSUME NEW d \in Docs,
             LoadForDelete(r, d) \/ LoadForRetryDelete(r, d) \/ LoadForReindex(r, d)
      PROVE  TypeOK'
  <2>1. req' \in [Requests -> RequestRecord]
    BY <1>0, <1>2, LoadEffect
       DEF LoadForDelete, LoadForRetryDelete, LoadForReindex, TaskNames
  <2>2. QED
    BY <1>2, <2>1 DEF LoadForDelete, LoadForRetryDelete, LoadForReindex, Load, TypeOK
<1>3. ASSUME UploadCommit(r) \/ UploadRefresh(r) \/ UploadRollback(r) PROVE TypeOK'
  <2>1. req' \in [Requests -> RequestRecord]
    BY <1>0, <1>3, GotoEffect, LeaveEffect
       DEF UploadCommit, UploadRefresh, UploadRollback, Moves
  <2>2. QED
    BY <1>3, <2>1
       DEF UploadCommit, UploadRefresh, UploadRollback, SetStatus, TypeOK, DocumentStatus
<1>4. ASSUME DeleteRetained(r) \/ DeleteSkipped(r) \/ DeleteCommitRequest(r)
      PROVE  TypeOK'
  <2>1. req' \in [Requests -> RequestRecord]
    BY <1>0, <1>4, GotoEffect, LeaveEffect
       DEF DeleteRetained, DeleteSkipped, DeleteCommitRequest, Moves
  <2>2. QED
    BY <1>4, <2>1 DEF DeleteRetained, DeleteSkipped, DeleteCommitRequest, SetStatus,
       TypeOK, DocumentStatus
<1>5. ASSUME RetryDeleteCommit(r) \/ RetryDeleteRefused(r) PROVE TypeOK'
  <2>1. req' \in [Requests -> RequestRecord]
    BY <1>0, <1>5, GotoEffect, LeaveEffect
       DEF RetryDeleteCommit, RetryDeleteRefused, Moves
  <2>2. QED
    BY <1>5, <2>1 DEF RetryDeleteCommit, RetryDeleteRefused, SetStatus, TypeOK,
       DocumentStatus
<1>6. ASSUME ReindexCommit(r) \/ ReindexRefused(r) PROVE TypeOK'
  <2>1. req' \in [Requests -> RequestRecord]
    BY <1>0, <1>6, GotoEffect, LeaveEffect DEF ReindexCommit, ReindexRefused, Moves
  <2>2. QED
    BY <1>6, <2>1 DEF ReindexCommit, ReindexRefused, SetStatus, TypeOK, DocumentStatus
<1>7. ASSUME Publish(r) \/ PublishFails(r) \/ RequestAborted(r) PROVE TypeOK'
  <2>1. req' \in [Requests -> RequestRecord]
    BY <1>0, <1>7, LeaveEffect DEF Publish, PublishFails, RequestAborted, Moves
  <2>2. req[r].seen \in DocumentStatus
    BY DEF TypeOK, RequestRecord
  <2>3. QED
    BY <1>7, <2>1, <2>2 DEF Publish, PublishFails, RequestAborted, SetStatus, TypeOK
<1>8. ASSUME NEW j \in Requests, RetryFailedJob(r, j) PROVE TypeOK'
  <2>1. req' \in [Requests -> RequestRecord]
    BY <1>8, RetryJobEffect
  <2>2. QED
    BY <1>8, <2>1 DEF RetryFailedJob, TypeOK
<1>9. QED
  BY <1>1, <1>2, <1>3, <1>4, <1>5, <1>6, <1>7, <1>8 DEF ApiNext

PointMaps == [Points -> Requests \cup {NoRun}]

LEMMA WritePointsType ==
  ASSUME TypeOK, NEW r \in Requests, NEW n, WritePoints(r, n)
  PROVE  vectors' \in [Docs -> PointMaps]
<1> DEFINE d == req[r].doc
           written == [i \in Points |-> IF i <= n THEN r ELSE vectors[d][i]]
<1>1. vectors \in [Docs -> PointMaps] /\ d \in Docs
  BY DEF TypeOK, PointMaps, RequestRecord
<1>2. vectors[d] \in PointMaps
  BY <1>1
<1>3. written \in PointMaps
  BY <1>2 DEF PointMaps
<1>4. vectors' = [vectors EXCEPT ![d] = written]
  BY DEF WritePoints
<1>5. QED
  BY <1>1, <1>3, <1>4

LEMMA NoPointsType ==
  ASSUME TypeOK, NEW d, vectors' = [vectors EXCEPT ![d] = NoPoints]
  PROVE  vectors' \in [Docs -> PointMaps]
<1>1. vectors \in [Docs -> PointMaps] /\ NoPoints \in PointMaps
  BY DEF TypeOK, PointMaps, NoPoints
<1>2. QED
  BY <1>1

LEMMA WorkerTypeOK ==
  ASSUME TypeOK, NEW r \in Requests, WorkerStep(r)
  PROVE  TypeOK'
<1>0. {"queued", "done"} \cup WorkerSteps \subseteq Steps
  BY DEF Steps
<1>1. ASSUME Begin(r) PROVE TypeOK'
  <2>1. req' \in [Requests -> RequestRecord]
    BY <1>0, <1>1, GotoEffect, LeaveEffect
       DEF Begin, BeginBadCall, BeginProcess, BeginReindex, BeginDelete, Moves,
           WorkerSteps, PipelineSteps, DeleteSteps
  <2>2. QED
    BY <1>1, <2>1
       DEF Begin, BeginBadCall, BeginProcess, BeginReindex, BeginDelete, TypeOK
<1>2. ASSUME Mark(r) \/ Extract(r) \/ DlpPass(r) \/ DlpWarn(r) \/ DlpBlock(r)
      PROVE  TypeOK'
  <2>1. req' \in [Requests -> RequestRecord]
    BY <1>0, <1>2, GotoEffect, LeaveEffect
       DEF Mark, Extract, DlpPass, DlpWarn, DlpBlock, Moves, WorkerSteps,
           PipelineSteps, DeleteSteps
  <2>2. QED
    BY <1>2, <2>1
       DEF Mark, Extract, DlpPass, DlpWarn, DlpBlock, SetStatus, TypeOK, DocumentStatus
<1>3. ASSUME Cleanup(r) \/ Chunk(r) \/ Upsert(r) PROVE TypeOK'
  <2>1. req' \in [Requests -> RequestRecord]
    BY <1>0, <1>3, GotoEffect
       DEF Cleanup, Chunk, Upsert, Moves, WorkerSteps, PipelineSteps
  <2>2. vectors' \in [Docs -> PointMaps]
    BY <1>3, WritePointsType, NoPointsType
       DEF Cleanup, Chunk, Upsert, TypeOK, PointMaps
  <2>3. QED
    BY <1>3, <2>1, <2>2 DEF Cleanup, Chunk, Upsert, TypeOK, PointMaps
<1>4. ASSUME CommitIndexed(r) \/ DeleteCommit(r) PROVE TypeOK'
  <2>1. req' \in [Requests -> RequestRecord]
    BY <1>0, <1>4, LeaveEffect
       DEF CommitIndexed, DeleteCommit, Committed, Moves, WorkerSteps
  <2>2. status' \in [Docs -> DocumentStatus]
    BY <1>4 DEF CommitIndexed, DeleteCommit, SetStatus, TypeOK, DocumentStatus
  <2>3. lock' \in [Docs -> Requests \cup {NoRun}]
    BY <1>4 DEF CommitIndexed, DeleteCommit, ReleaseRows, TypeOK
  <2>4. chunks' \in [Docs -> Requests \cup {NoRun}]
    BY <1>4 DEF CommitIndexed, DeleteCommit, TypeOK
  <2>5. QED
    BY <1>4, <2>1, <2>2, <2>3, <2>4 DEF CommitIndexed, DeleteCommit, TypeOK
<1>5. ASSUME DeleteVectors(r) \/ DeleteObjects(r) PROVE TypeOK'
  <2>1. req' \in [Requests -> RequestRecord]
    BY <1>0, <1>5, DeleteVectorsEffect, GotoEffect
       DEF DeleteObjects, Moves, WorkerSteps, DeleteSteps
  <2>2. vectors' \in [Docs -> PointMaps]
    BY <1>5, NoPointsType DEF DeleteVectors, DeleteObjects, TypeOK, PointMaps
  <2>3. QED
    BY <1>5, <2>1, <2>2 DEF DeleteVectors, DeleteObjects, TypeOK, PointMaps
<1>6. ASSUME DeleteRows(r) PROVE TypeOK'
  <2>1. req' \in [Requests -> RequestRecord]
    BY <1>6, DeleteRowsEffect DEF Moves
  <2>2. QED
    BY <1>6, <2>1 DEF DeleteRows, TypeOK
<1>7. ASSUME PersistFailedJob(r) \/ TerminalFailure(r) \/ Ack(r) PROVE TypeOK'
  <2>1. req' \in [Requests -> RequestRecord]
    BY <1>0, <1>7, GotoEffect, LeaveEffect, AckEffect
       DEF PersistFailedJob, TerminalFailure, Moves, WorkerSteps
  <2>2. QED
    BY <1>7, <2>1
       DEF PersistFailedJob, TerminalFailure, Ack, SetStatus, TypeOK, DocumentStatus
<1>8. QED
  BY <1>1, <1>2, <1>3, <1>4, <1>5, <1>6, <1>7 DEF WorkerStep

LEMMA FaultTypeOK ==
  ASSUME TypeOK, NEW r \in Requests, WorkerFault(r)
  PROVE  TypeOK'
<1>0. {"queued", "fail"} \subseteq Steps
  BY DEF Steps, WorkerSteps
<1>1. ASSUME PartialEffect(r)
      PROVE  vectors' \in [Docs -> PointMaps] /\ object' \in [Docs -> BOOLEAN]
  <2>1. vectors' \in [Docs -> PointMaps]
    BY <1>1, WritePointsType DEF PartialEffect, TypeOK, PointMaps
  <2>2. object' \in [Docs -> BOOLEAN]
    BY <1>1 DEF PartialEffect, TypeOK
  <2>3. QED
    BY <2>1, <2>2
<1>2. ASSUME TransientRetry(r) \/ RetriesExhausted(r) PROVE TypeOK'
  <2>1. req' \in [Requests -> RequestRecord]
    BY <1>0, <1>2, TransientRetryEffect, LeaveEffect DEF RetriesExhausted, Moves
  <2>2. PartialEffect(r)
    BY <1>2 DEF TransientRetry, RetriesExhausted
  <2>3. QED
    BY <1>1, <1>2, <2>1, <2>2
       DEF TransientRetry, RetriesExhausted, ReleaseRows, TypeOK, PointMaps
<1>3. ASSUME TaskRaises(r) \/ WorkerLost(r) PROVE TypeOK'
  <2>1. req' \in [Requests -> RequestRecord]
    BY <1>0, <1>3, LeaveEffect DEF TaskRaises, WorkerLost, Moves
  <2>2. CASE TaskRaises(r)
    BY <2>1, <2>2 DEF TaskRaises, ReleaseRows, TypeOK
  <2>3. CASE WorkerLost(r)
    <3>1. crashes' \in 0..MaxCrashes
      BY <2>3, ConstantsAssumption DEF WorkerLost, TypeOK
    <3>2. QED
      BY <2>1, <2>3, <3>1 DEF WorkerLost, ReleaseRows, TypeOK
  <2>4. QED
    BY <1>3, <2>2, <2>3
<1>4. QED
  BY <1>2, <1>3 DEF WorkerFault

LEMMA TypeStep == TypeOK /\ [Next]_vars => TypeOK'
<1> SUFFICES ASSUME TypeOK, [Next]_vars PROVE TypeOK'
  OBVIOUS
<1>1. CASE UNCHANGED vars
  BY <1>1 DEF TypeOK, vars
<1>2. ASSUME NEW r \in Requests, ApiNext(r) \/ WorkerStep(r) \/ WorkerFault(r)
      PROVE  TypeOK'
  BY <1>2, ApiTypeOK, WorkerTypeOK, FaultTypeOK
<1>3. QED
  BY <1>1, <1>2 DEF Next

\* Every variable keeps its type: a retry count never passes its limit, and the
\* stores and locks only ever name known requests.
THEOREM TypeCorrect == Spec => []TypeOK
BY TypeInit, TypeStep, PTL DEF Spec

----------------------------------------------------------------------------
(* Nothing says deleted while the object is there.                         *)

\* What a step of r on its own document may not do if the invariant is to hold.
LEMMA ErasureFrame ==
  ASSUME TypeOK, ErasureInv, NEW r \in Requests, ~At(r, "idle"),
         NEW step \in Steps \ {"idle", "put", "loadedDelete", "loadedRetry"},
         Moves(r, step),
         step \in ApiSteps => req[r].pc \in ApiSteps,
         step = "refresh" => req[r].task = "process",
         step = "publish" /\ req[r].task = "reindex"
           => req'[r].seen \notin {"deleting", "deleted"},
         \/ failedJobs' \subseteq failedJobs
         \/ failedJobs' \subseteq failedJobs \cup {r} /\ step \notin ApiSteps,
         \A d \in Docs \ {req[r].doc} : status'[d] = status[d] /\ object'[d] = object[d],
         object'[req[r].doc] => object[req[r].doc],
         step \in {"delRows", "delCommit"} => ~object'[req[r].doc],
         status'[req[r].doc] = "deleted" => ~object'[req[r].doc]
  PROVE  ErasureInv'
<1> USE DEF Moves, At, OthersSame
<1>0. \A q \in Requests : req[q].doc \in Docs
  BY DEF TypeOK, RequestRecord
<1>1. PutOwnsDocument'
  <2> SUFFICES ASSUME NEW q \in Requests, req'[q].pc = "put"
               PROVE  /\ req'[q].task = "process"
                      /\ status'[req'[q].doc] = "absent"
                      /\ object'[req'[q].doc]
                      /\ \A p \in Requests \ {q} :
                           req'[p].pc # "idle" => req'[p].doc # req'[q].doc
    BY DEF PutOwnsDocument
  <2>1. q # r /\ req'[q] = req[q]
    OBVIOUS
  <2>2. /\ req[q].task = "process"
        /\ status[req[q].doc] = "absent" /\ object[req[q].doc]
        /\ \A p \in Requests \ {q} : req[p].pc # "idle" => req[p].doc # req[q].doc
    BY <2>1 DEF ErasureInv, PutOwnsDocument
  <2>3. req[q].doc \in Docs \ {req[r].doc}
    BY <1>0, <2>1, <2>2
  <2>4. QED
    BY <2>1, <2>2, <2>3
<1>2. FailedJobsBegan'
  BY DEF ErasureInv, FailedJobsBegan, TypeOK
<1>3. TaskChosen' /\ ReindexSawNoDeletion'
  BY DEF ErasureInv, TaskChosen, ReindexSawNoDeletion
<1>4. ErasedBeforeRows'
  <2> SUFFICES ASSUME NEW q \in Requests, req'[q].pc \in {"delRows", "delCommit"}
               PROVE  ~object'[req'[q].doc]
    BY DEF ErasedBeforeRows
  <2>1. CASE q = r
    BY <2>1
  <2>2. CASE q # r
    BY <1>0, <2>2 DEF ErasureInv, ErasedBeforeRows
  <2>3. QED
    BY <2>1, <2>2
<1>5. DeletedHasNoObject'
  BY DEF ErasureInv, DeletedHasNoObject
<1>6. QED
  BY <1>1, <1>2, <1>3, <1>4, <1>5 DEF ErasureInv

\* Steps that touch neither the object nor the failed jobs, write no deleted
\* and do not come to the rows.
LEMMA ErasureKept ==
  ASSUME TypeOK, ErasureInv, NEW r \in Requests, ~At(r, "idle"),
         NEW step \in Steps \ {"idle", "put", "loadedDelete", "loadedRetry", "delRows",
                              "delCommit"},
         Moves(r, step), UNCHANGED <<object, failedJobs>>,
         step \in ApiSteps => req[r].pc \in ApiSteps,
         step = "refresh" => req[r].task = "process",
         step = "publish" /\ req[r].task = "reindex"
           => req'[r].seen \notin {"deleting", "deleted"},
         \/ UNCHANGED status
         \/ \E s \in DocumentStatus \ {"deleted"} : SetStatus(r, s)
  PROVE  ErasureInv'
<1>1. req[r].doc \in Docs
  BY DEF TypeOK, RequestRecord
<1>2. \A d \in Docs \ {req[r].doc} : status'[d] = status[d]
  BY DEF SetStatus, TypeOK
<1>3. status'[req[r].doc] = "deleted" => status[req[r].doc] = "deleted"
  BY <1>1 DEF SetStatus, TypeOK
<1>4. status[req[r].doc] = "deleted" => ~object[req[r].doc]
  BY <1>1 DEF ErasureInv, DeletedHasNoObject
<1>5. /\ step \in Steps \ {"idle", "put", "loadedDelete", "loadedRetry"}
      /\ step \notin {"delRows", "delCommit"}
  OBVIOUS
<1>6. \A d \in Docs \ {req[r].doc} : status'[d] = status[d] /\ object'[d] = object[d]
  BY <1>2
<1>7. /\ failedJobs' \subseteq failedJobs
      /\ object'[req[r].doc] => object[req[r].doc]
      /\ status'[req[r].doc] = "deleted" => ~object'[req[r].doc]
  BY <1>3, <1>4
<1>8. QED
  BY <1>5, <1>6, <1>7, ErasureFrame

LEMMA ErasureInit == Init => ErasureInv
BY DEF Init, ErasureInv, PutOwnsDocument, FailedJobsBegan, TaskChosen,
   ReindexSawNoDeletion, ErasedBeforeRows, DeletedHasNoObject, At

\* The steps that begin a request.
LEMMA ErasureBegun ==
  ASSUME TypeOK, ErasureInv, NEW r \in Requests, NEW d \in Docs, At(r, "idle"),
         NEW step \in {"loadedDelete", "loadedRetry", "loadedReindex", "queued"},
         req' \in [Requests -> RequestRecord], req'[r].pc = step, req'[r].doc = d,
         step \in {"loadedDelete", "loadedRetry"} => req'[r].task = "delete",
         OthersSame(r), UNCHANGED <<status, object>>, failedJobs' \subseteq failedJobs,
         \A q \in Requests : At(q, "put") => req[q].doc # d
  PROVE  ErasureInv'
<1> USE DEF At, OthersSame
<1>1. PutOwnsDocument'
  BY DEF ErasureInv, PutOwnsDocument
<1>2. FailedJobsBegan'
  <2>1. r \notin failedJobs
    BY DEF ErasureInv, FailedJobsBegan
  <2>2. QED
    BY <2>1 DEF ErasureInv, FailedJobsBegan, TypeOK
<1>3. TaskChosen' /\ ReindexSawNoDeletion'
  BY DEF ErasureInv, TaskChosen, ReindexSawNoDeletion
<1>4. ErasedBeforeRows'
  BY DEF ErasureInv, ErasedBeforeRows
<1>5. DeletedHasNoObject'
  BY DEF ErasureInv, DeletedHasNoObject
<1>6. QED
  BY <1>1, <1>2, <1>3, <1>4, <1>5 DEF ErasureInv

LEMMA ErasureUpload ==
  ASSUME TypeOK, ErasureInv, NEW r \in Requests, NEW d \in Docs, UploadPut(r, d)
  PROVE  ErasureInv'
<1> USE DEF At, OthersSame
<1>1. /\ req' \in [Requests -> RequestRecord]
      /\ req'[r].pc = "put" /\ req'[r].doc = d /\ req'[r].task = "process"
      /\ \A q \in Requests \ {r} : req'[q] = req[q]
  BY PutEffect
<1>2. /\ At(r, "idle") /\ status[d] = "absent"
      /\ \A q \in Requests : req[q].pc # "idle" => req[q].doc # d
      /\ object' = [object EXCEPT ![d] = TRUE]
      /\ UNCHANGED <<status, failedJobs>>
  BY DEF UploadPut
<1>3. PutOwnsDocument'
  <2>1. object'[d]
    BY <1>2 DEF TypeOK
  <2>2. \A q \in Requests : req[q].doc # d => object'[req[q].doc] = object[req[q].doc]
    BY <1>2 DEF TypeOK, RequestRecord
  <2>3. QED
    BY <1>1, <1>2, <2>1, <2>2 DEF ErasureInv, PutOwnsDocument
<1>4. FailedJobsBegan'
  <2>1. r \notin failedJobs
    BY <1>2 DEF ErasureInv, FailedJobsBegan
  <2>2. QED
    BY <1>1, <1>2, <2>1 DEF ErasureInv, FailedJobsBegan, TypeOK
<1>5. TaskChosen' /\ ReindexSawNoDeletion'
  BY <1>1 DEF ErasureInv, TaskChosen, ReindexSawNoDeletion
<1>6. ErasedBeforeRows'
  BY <1>1, <1>2 DEF ErasureInv, ErasedBeforeRows, TypeOK, RequestRecord
<1>7. DeletedHasNoObject'
  BY <1>2 DEF ErasureInv, DeletedHasNoObject, TypeOK
<1>8. QED
  BY <1>3, <1>4, <1>5, <1>6, <1>7 DEF ErasureInv

LEMMA ErasureApi ==
  ASSUME TypeOK, ErasureInv, NEW r \in Requests, ApiNext(r)
  PROVE  ErasureInv'
<1>0. {"refresh", "loadedDelete", "loadedRetry", "loadedReindex", "publish", "queued",
       "done"} \subseteq Steps
  BY DEF Steps, ApiSteps
<1>1. ASSUME NEW d \in Docs, UploadPut(r, d) PROVE ErasureInv'
  BY <1>1, ErasureUpload
<1>2. ASSUME NEW d \in Docs,
             LoadForDelete(r, d) \/ LoadForRetryDelete(r, d) \/ LoadForReindex(r, d)
      PROVE  ErasureInv'
  <2>1. PICK step \in {"loadedDelete", "loadedRetry", "loadedReindex"} :
          /\ req' \in [Requests -> RequestRecord]
          /\ req'[r].pc = step /\ req'[r].doc = d
          /\ step \in {"loadedDelete", "loadedRetry"} => req'[r].task = "delete"
          /\ OthersSame(r)
    BY <1>0, <1>2, LoadEffect
       DEF LoadForDelete, LoadForRetryDelete, LoadForReindex, TaskNames
  <2>2. /\ At(r, "idle") /\ status[d] # "absent"
        /\ UNCHANGED <<status, object, failedJobs>>
    BY <1>2 DEF LoadForDelete, LoadForRetryDelete, LoadForReindex, Load
  <2>3. \A q \in Requests : At(q, "put") => req[q].doc # d
    BY <2>2 DEF ErasureInv, PutOwnsDocument
  <2>4. QED
    BY <2>1, <2>2, <2>3, ErasureBegun
<1>3. CASE UploadCommit(r) \/ UploadRefresh(r)
  <2>1. PICK step \in {"refresh", "publish"} : Moves(r, step)
    BY <1>0, <1>3, GotoEffect DEF UploadCommit, UploadRefresh
  <2>2. req[r].task = "process"
    BY <1>3 DEF UploadCommit, UploadRefresh, ErasureInv, PutOwnsDocument, TaskChosen
  <2>3. /\ req[r].pc \in ApiSteps /\ ~At(r, "idle")
        /\ UNCHANGED <<object, failedJobs>>
    BY <1>3 DEF UploadCommit, UploadRefresh, At, ApiSteps
  <2>4. \/ UNCHANGED status
        \/ \E s \in DocumentStatus \ {"deleted"} : SetStatus(r, s)
    BY <1>3 DEF UploadCommit, UploadRefresh, DocumentStatus
  <2>5. QED
    BY <1>0, <2>1, <2>2, <2>3, <2>4, ErasureKept
<1>4. CASE UploadRollback(r)
  <2>1. Moves(r, "done") /\ UNCHANGED <<status, failedJobs>>
    BY <1>0, <1>4, LeaveEffect DEF UploadRollback
  <2>2. /\ req[r].doc \in Docs /\ ~At(r, "idle")
        /\ status[req[r].doc] = "deleted" => ~object[req[r].doc]
    BY <1>4 DEF UploadRollback, ErasureInv, DeletedHasNoObject, TypeOK, RequestRecord, At
  <2>3. /\ object'[req[r].doc] => object[req[r].doc]
        /\ \A d \in Docs \ {req[r].doc} : object'[d] = object[d]
    BY <1>4, <2>2 DEF UploadRollback, TypeOK
  <2>4. /\ "done" \in Steps \ {"idle", "put", "loadedDelete", "loadedRetry"}
        /\ "done" \notin ApiSteps
    BY <1>0 DEF ApiSteps
  <2>5. QED
    BY <2>1, <2>2, <2>3, <2>4, ErasureFrame
<1>5. CASE DeleteRetained(r) \/ DeleteSkipped(r)
  <2>1. Moves(r, "done") /\ ~At(r, "idle")
    BY <1>0, <1>5, LeaveEffect DEF DeleteRetained, DeleteSkipped, At
  <2>2. QED
    BY <1>0, <1>5, <2>1, ErasureKept
       DEF DeleteRetained, DeleteSkipped, ApiSteps, DocumentStatus
<1>6. CASE DeleteCommitRequest(r) \/ RetryDeleteCommit(r)
  <2>1. Moves(r, "publish")
    BY <1>0, <1>6, GotoEffect DEF DeleteCommitRequest, RetryDeleteCommit
  <2>2. req[r].pc \in {"loadedDelete", "loadedRetry"} /\ req[r].task = "delete"
    BY <1>6
       DEF DeleteCommitRequest, RetryDeleteCommit, At, ErasureInv, TaskChosen
  <2>3. QED
    BY <1>0, <1>6, <2>1, <2>2, ErasureKept
       DEF DeleteCommitRequest, RetryDeleteCommit, At, ApiSteps, DocumentStatus
<1>7. CASE ReindexCommit(r)
  <2>1. Moves(r, "publish") /\ req'[r].seen = req[r].seen
    BY <1>0, <1>7, GotoEffect DEF ReindexCommit
  <2>2. req[r].seen \notin {"deleting", "deleted"}
    BY <1>7 DEF ReindexCommit, ReindexConflict
  <2>3. QED
    BY <1>0, <1>7, <2>1, <2>2, ErasureKept
       DEF ReindexCommit, At, ApiSteps, DocumentStatus
<1>8. CASE RetryDeleteRefused(r) \/ ReindexRefused(r) \/ RequestAborted(r)
  <2>1. Moves(r, "done") /\ ~At(r, "idle")
    BY <1>0, <1>8, LeaveEffect
       DEF RetryDeleteRefused, ReindexRefused, RequestAborted, At, ApiSteps
  <2>2. QED
    BY <1>0, <1>8, <2>1, ErasureKept
       DEF RetryDeleteRefused, ReindexRefused, RequestAborted, ApiSteps
<1>9. CASE Publish(r)
  <2>1. Moves(r, "queued") /\ ~At(r, "idle")
    BY <1>0, <1>9, LeaveEffect DEF Publish, At
  <2>2. QED
    BY <1>0, <1>9, <2>1, ErasureKept DEF Publish, ApiSteps
<1>10. CASE PublishFails(r)
  <2>1. Moves(r, "done") /\ ~At(r, "idle") /\ UNCHANGED <<object, failedJobs>>
    BY <1>0, <1>10, LeaveEffect DEF PublishFails, At
  <2>2. req[r].seen \in DocumentStatus
    BY DEF TypeOK, RequestRecord
  <2>3. \/ UNCHANGED status
        \/ \E s \in DocumentStatus \ {"deleted"} : SetStatus(r, s)
    BY <1>10, <2>2 DEF PublishFails, ErasureInv, ReindexSawNoDeletion
  <2>4. QED
    BY <1>0, <2>1, <2>3, ErasureKept DEF ApiSteps
<1>11. ASSUME NEW j \in Requests, RetryFailedJob(r, j) PROVE ErasureInv'
  <2>1. /\ At(r, "idle") /\ j \in failedJobs /\ failedJobs' \subseteq failedJobs
        /\ UNCHANGED <<status, object>>
    BY <1>11 DEF RetryFailedJob, RetryableJob
  <2>2. /\ req' \in [Requests -> RequestRecord]
        /\ req'[r].pc = "queued" /\ req'[r].doc = req[j].doc
        /\ OthersSame(r)
    BY <1>11, RetryJobEffect
  <2>3. req[j].doc \in Docs /\ req[j].pc \notin {"idle", "put"}
    BY <2>1 DEF TypeOK, RequestRecord, ErasureInv, FailedJobsBegan, ApiSteps
  <2>4. \A q \in Requests : At(q, "put") => req[q].doc # req[j].doc
    BY <2>3 DEF ErasureInv, PutOwnsDocument, At
  <2>5. QED
    BY <2>1, <2>2, <2>3, <2>4, ErasureBegun
<1>12. QED
  BY <1>1, <1>2, <1>3, <1>4, <1>5, <1>6, <1>7, <1>8, <1>9, <1>10, <1>11 DEF ApiNext

LEMMA ErasureWorker ==
  ASSUME TypeOK, ErasureInv, NEW r \in Requests, WorkerStep(r)
  PROVE  ErasureInv'
<1> DEFINE Inside == {"mark", "fail", "terminal", "ack", "delVectors"} \cup PipelineSteps
<1>0. /\ Inside \cup {"done", "queued", "delObjects", "delRows", "delCommit"} \subseteq Steps
      /\ (Inside \cup {"done", "queued", "delObjects", "delRows", "delCommit"})
           \cap (ApiSteps \cup {"idle"}) = {}
      /\ (Inside \cup {"done", "queued", "delObjects"})
           \cap {"delRows", "delCommit"} = {}
  BY DEF Steps, ApiSteps, WorkerSteps, PipelineSteps, DeleteSteps
<1>1. {"idle", "put", "refresh", "loadedDelete", "loadedRetry", "loadedReindex",
       "publish"} = ApiSteps \cup {"idle"}
  BY DEF ApiSteps
<1>2. CASE Begin(r)
  <2>1. PICK step \in Inside : Moves(r, step)
    BY <1>0, <1>2, GotoEffect, LeaveEffect
       DEF Begin, BeginBadCall, BeginProcess, BeginReindex, BeginDelete, PipelineSteps
  <2>2. ~At(r, "idle") /\ UNCHANGED <<status, object, failedJobs>>
    BY <1>2 DEF Begin, BeginBadCall, BeginProcess, BeginReindex, BeginDelete, At
  <2>3. QED
    BY <1>0, <1>1, <2>1, <2>2, ErasureKept
<1>3. CASE Mark(r) \/ Extract(r) \/ DlpPass(r) \/ DlpWarn(r) \/ DlpBlock(r)
  <2>1. PICK step \in Inside : Moves(r, step)
    BY <1>0, <1>3, GotoEffect, LeaveEffect
       DEF Mark, Extract, DlpPass, DlpWarn, DlpBlock, PipelineSteps
  <2>2. ~At(r, "idle") /\ UNCHANGED <<object, failedJobs>>
    BY <1>3 DEF Mark, Extract, DlpPass, DlpWarn, DlpBlock, At
  <2>3. \/ UNCHANGED status
        \/ \E s \in DocumentStatus \ {"deleted"} : SetStatus(r, s)
    BY <1>3 DEF Mark, Extract, DlpPass, DlpWarn, DlpBlock, DocumentStatus
  <2>4. QED
    BY <1>0, <1>1, <2>1, <2>2, <2>3, ErasureKept
<1>4. CASE Cleanup(r) \/ Chunk(r) \/ Upsert(r) \/ CommitIndexed(r)
  <2>1. PICK step \in Inside : Moves(r, step)
    BY <1>0, <1>4, GotoEffect, LeaveEffect
       DEF Cleanup, Chunk, Upsert, CommitIndexed, Committed, PipelineSteps
  <2>2. ~At(r, "idle") /\ UNCHANGED <<object, failedJobs>>
    BY <1>4 DEF Cleanup, Chunk, Upsert, CommitIndexed, At
  <2>3. \/ UNCHANGED status
        \/ \E s \in DocumentStatus \ {"deleted"} : SetStatus(r, s)
    BY <1>4 DEF Cleanup, Chunk, Upsert, CommitIndexed, DocumentStatus
  <2>4. QED
    BY <1>0, <1>1, <2>1, <2>2, <2>3, ErasureKept
<1>5. CASE DeleteVectors(r)
  <2>1. Moves(r, "delObjects")
    BY <1>5, DeleteVectorsEffect
  <2>2. QED
    BY <1>0, <1>1, <1>5, <2>1, ErasureKept DEF DeleteVectors, At
<1>6. CASE DeleteObjects(r)
  <2>1. Moves(r, "delRows") /\ ~At(r, "idle") /\ UNCHANGED <<status, failedJobs>>
    BY <1>0, <1>6, GotoEffect DEF DeleteObjects, At
  <2>2. req[r].doc \in Docs
    BY DEF TypeOK, RequestRecord
  <2>3. /\ ~object'[req[r].doc]
        /\ \A d \in Docs \ {req[r].doc} : object'[d] = object[d]
    BY <1>6, <2>2 DEF DeleteObjects, TypeOK
  <2>4. QED
    BY <1>0, <1>1, <2>1, <2>3, ErasureFrame
<1>7. CASE DeleteRows(r) \/ DeleteCommit(r)
  <2>1. PICK step \in {"delCommit", "ack", "fail"} : Moves(r, step)
    BY <1>0, <1>7, DeleteRowsEffect, LeaveEffect DEF DeleteCommit, Committed
  <2>2. ~At(r, "idle") /\ UNCHANGED <<object, failedJobs>>
    BY <1>7 DEF DeleteRows, DeleteCommit, At
  <2>3. ~object[req[r].doc]
    BY <1>7 DEF DeleteRows, DeleteCommit, At, ErasureInv, ErasedBeforeRows
  <2>4. \A d \in Docs \ {req[r].doc} : status'[d] = status[d]
    BY <1>7 DEF DeleteRows, DeleteCommit, SetStatus, TypeOK
  <2>5. QED
    BY <1>0, <1>1, <2>1, <2>2, <2>3, <2>4, ErasureFrame
<1>8. CASE PersistFailedJob(r)
  <2>1. /\ Moves(r, "terminal") /\ ~At(r, "idle") /\ UNCHANGED <<status, object>>
        /\ failedJobs' \subseteq failedJobs \cup {r}
    BY <1>0, <1>8, GotoEffect DEF PersistFailedJob, At
  <2>2. status[req[r].doc] = "deleted" => ~object[req[r].doc]
    BY DEF ErasureInv, DeletedHasNoObject, TypeOK, RequestRecord
  <2>3. QED
    BY <1>0, <1>1, <2>1, <2>2, ErasureFrame
<1>9. CASE TerminalFailure(r) \/ Ack(r)
  <2>1. PICK step \in {"ack", "done"} : Moves(r, step)
    BY <1>0, <1>9, LeaveEffect, AckEffect DEF TerminalFailure
  <2>2. ~At(r, "idle") /\ UNCHANGED <<object, failedJobs>>
    BY <1>9 DEF TerminalFailure, Ack, At
  <2>3. \/ UNCHANGED status
        \/ \E s \in DocumentStatus \ {"deleted"} : SetStatus(r, s)
    BY <1>9 DEF TerminalFailure, Ack, DocumentStatus
  <2>4. QED
    BY <1>0, <1>1, <2>1, <2>2, <2>3, ErasureKept
<1>10. QED
  BY <1>2, <1>3, <1>4, <1>5, <1>6, <1>7, <1>8, <1>9 DEF WorkerStep

LEMMA ErasureFault ==
  ASSUME TypeOK, ErasureInv, NEW r \in Requests, WorkerFault(r)
  PROVE  ErasureInv'
<1>0. /\ {"queued", "fail"} \subseteq
           Steps \ ({"idle", "put", "loadedDelete", "loadedRetry", "delRows", "delCommit"}
                    \cup ApiSteps)
      /\ "idle" \notin WorkerSteps \cup TransientSteps
  BY DEF Steps, ApiSteps, WorkerSteps, PipelineSteps, DeleteSteps, TransientSteps
<1>1. CASE TransientRetry(r) \/ RetriesExhausted(r)
  <2>1. PICK step \in {"queued", "fail"} : Moves(r, step)
    BY <1>0, <1>1, TransientRetryEffect, LeaveEffect DEF RetriesExhausted
  <2>2. /\ ~At(r, "idle") /\ UNCHANGED <<status, failedJobs>> /\ PartialEffect(r)
    BY <1>0, <1>1 DEF TransientRetry, RetriesExhausted, At
  <2>3. req[r].doc \in Docs
    BY DEF TypeOK, RequestRecord
  <2>4. /\ object'[req[r].doc] => object[req[r].doc]
        /\ \A d \in Docs \ {req[r].doc} : object'[d] = object[d]
    BY <2>2, <2>3 DEF PartialEffect, TypeOK
  <2>5. status[req[r].doc] = "deleted" => ~object[req[r].doc]
    BY <2>3 DEF ErasureInv, DeletedHasNoObject
  <2>6. QED
    BY <1>0, <2>1, <2>2, <2>4, <2>5, ErasureFrame
<1>2. CASE TaskRaises(r) \/ WorkerLost(r)
  <2>1. PICK step \in {"queued", "fail"} : Moves(r, step)
    BY <1>0, <1>2, LeaveEffect DEF TaskRaises, WorkerLost
  <2>2. ~At(r, "idle") /\ UNCHANGED <<status, object, failedJobs>>
    BY <1>0, <1>2 DEF TaskRaises, WorkerLost, At, WorkerSteps
  <2>3. QED
    BY <1>0, <2>1, <2>2, ErasureKept
<1>3. QED
  BY <1>1, <1>2 DEF WorkerFault

LEMMA ErasureStep == TypeOK /\ ErasureInv /\ [Next]_vars => ErasureInv'
<1> SUFFICES ASSUME TypeOK, ErasureInv, [Next]_vars PROVE ErasureInv'
  OBVIOUS
<1>1. CASE UNCHANGED vars
  BY <1>1 DEF vars, ErasureInv, PutOwnsDocument, FailedJobsBegan, TaskChosen,
     ReindexSawNoDeletion, ErasedBeforeRows, DeletedHasNoObject, At
<1>2. ASSUME NEW r \in Requests, ApiNext(r) \/ WorkerStep(r) \/ WorkerFault(r)
      PROVE  ErasureInv'
  BY <1>2, ErasureApi, ErasureWorker, ErasureFault
<1>3. QED
  BY <1>1, <1>2 DEF Next

\* The inductive invariant of the erasure holds of every behaviour: what a request
\* has stored or read, a failed job names or a deletion has erased stays true while
\* other requests, tasks and failures run on the document.
THEOREM ErasureInvariant == Spec => []ErasureInv
BY TypeCorrect, ErasureInit, ErasureStep, PTL DEF Spec

\* A row says deleted only when the source object is gone, whatever requests,
\* redeliveries, retries and failures interleave on the document.
THEOREM DeletedHasNoObjectHolds == Spec => []DeletedHasNoObject
<1>1. ErasureInv => DeletedHasNoObject
  BY DEF ErasureInv
<1>2. QED
  BY <1>1, ErasureInvariant, PTL

----------------------------------------------------------------------------
(* No deletion is stranded.                                                *)

\* Who writes deleting owns it, and an owner hands on its task or ends the status.
LEMMA OwnerFrame ==
  ASSUME TypeOK, DeletingIsOwned, NEW r \in Requests, OthersSame(r),
         WillSettle(r) => \/ WillSettle(r)' /\ req'[r].doc = req[r].doc
                          \/ status'[req[r].doc] # "deleting",
         \A d \in Docs :
           status'[d] = "deleting" => \/ status[d] = "deleting"
                                      \/ WillSettle(r)' /\ req'[r].doc = d
  PROVE  DeletingIsOwned'
<1> SUFFICES ASSUME NEW d \in Docs, status'[d] = "deleting"
             PROVE  \E q \in Requests : req'[q].doc = d /\ WillSettle(q)'
  BY DEF DeletingIsOwned
<1>1. CASE WillSettle(r)' /\ req'[r].doc = d
  BY <1>1
<1>2. CASE status[d] = "deleting"
  <2>1. PICK q \in Requests : req[q].doc = d /\ WillSettle(q)
    BY <1>2 DEF DeletingIsOwned
  <2>2. CASE q = r
    BY <2>1, <2>2
  <2>3. CASE q # r
    <3>1. req'[q] = req[q]
      BY <2>3 DEF OthersSame
    <3>2. WillSettle(q)'
      BY <2>1, <3>1 DEF WillSettle
    <3>3. QED
      BY <2>1, <3>1, <3>2
  <2>4. QED
    BY <2>2, <2>3
<1>3. QED
  BY <1>1, <1>2

\* Steps of requests and tasks that own nothing and write no deleting.
LEMMA OwnerElsewhere ==
  ASSUME TypeOK, DeletingIsOwned, NEW r \in Requests, OthersSame(r), ~WillSettle(r),
         \/ UNCHANGED status
         \/ \E s \in DocumentStatus \ {"deleting"} : SetStatus(r, s)
  PROVE  DeletingIsOwned'
<1>1. \A d \in Docs : status'[d] = "deleting" => status[d] = "deleting"
  BY DEF SetStatus, TypeOK, RequestRecord
<1>2. QED
  BY <1>1, OwnerFrame

\* Steps of an owner that leave the status alone and keep it an owner.
LEMMA OwnerGoesOn ==
  ASSUME TypeOK, DeletingIsOwned, NEW r \in Requests, OthersSame(r), UNCHANGED status,
         req'[r].doc = req[r].doc, WillSettle(r) => WillSettle(r)'
  PROVE  DeletingIsOwned'
BY OwnerFrame

\* Steps that end the status deleting of their document.
LEMMA OwnerSettles ==
  ASSUME TypeOK, DeletingIsOwned, NEW r \in Requests, OthersSame(r),
         NEW s \in DocumentStatus \ {"deleting"}, SetStatus(r, s)
  PROVE  DeletingIsOwned'
<1>1. req[r].doc \in Docs
  BY DEF TypeOK, RequestRecord
<1>2. status'[req[r].doc] # "deleting"
  BY <1>1 DEF SetStatus, TypeOK
<1>3. \A d \in Docs : status'[d] = "deleting" => status[d] = "deleting"
  BY DEF SetStatus, TypeOK, RequestRecord
<1>4. QED
  BY <1>2, <1>3, OwnerFrame

LEMMA OwnerApi ==
  ASSUME TypeOK, ErasureInv, DeletingIsOwned, NEW r \in Requests, ApiNext(r)
  PROVE  DeletingIsOwned'
<1>0. /\ {"refresh", "loadedDelete", "loadedRetry", "loadedReindex", "publish", "queued",
          "done"} \subseteq Steps
      /\ \A q \in Requests : req[q].pc \in ApiSteps \cup {"idle"} => ~WillSettle(q)
  BY DEF Steps, ApiSteps, WillSettle
<1>1. ASSUME NEW d \in Docs, UploadPut(r, d) PROVE DeletingIsOwned'
  <2>1. OthersSame(r) /\ At(r, "idle") /\ UNCHANGED status
    BY <1>1, PutEffect DEF UploadPut
  <2>2. QED
    BY <1>0, <2>1, OwnerElsewhere DEF At
<1>2. ASSUME NEW d \in Docs,
             LoadForDelete(r, d) \/ LoadForRetryDelete(r, d) \/ LoadForReindex(r, d)
      PROVE  DeletingIsOwned'
  <2>1. OthersSame(r)
    BY <1>0, <1>2, LoadEffect
       DEF LoadForDelete, LoadForRetryDelete, LoadForReindex, TaskNames
  <2>2. At(r, "idle") /\ UNCHANGED status
    BY <1>2 DEF LoadForDelete, LoadForRetryDelete, LoadForReindex, Load
  <2>3. QED
    BY <1>0, <2>1, <2>2, OwnerElsewhere DEF At
<1>3. CASE \/ UploadCommit(r) \/ UploadRefresh(r) \/ DeleteCommitRequest(r)
           \/ RetryDeleteCommit(r) \/ ReindexCommit(r)
  <2>1. PICK step \in {"refresh", "publish"} : Moves(r, step)
    BY <1>0, <1>3, GotoEffect
       DEF UploadCommit, UploadRefresh, DeleteCommitRequest, RetryDeleteCommit,
           ReindexCommit
  <2>2. /\ req[r].pc \in ApiSteps
        /\ \/ UNCHANGED status
           \/ \E s \in DocumentStatus \ {"deleting"} : SetStatus(r, s)
    BY <1>3 DEF UploadCommit, UploadRefresh, DeleteCommitRequest, RetryDeleteCommit,
       ReindexCommit, At, ApiSteps, DocumentStatus
  <2>3. QED
    BY <1>0, <2>1, <2>2, OwnerElsewhere DEF Moves
<1>4. CASE \/ UploadRollback(r) \/ DeleteRetained(r) \/ DeleteSkipped(r)
           \/ RetryDeleteRefused(r) \/ ReindexRefused(r) \/ RequestAborted(r)
  <2>1. Moves(r, "done")
    BY <1>0, <1>4, LeaveEffect
       DEF UploadRollback, DeleteRetained, DeleteSkipped, RetryDeleteRefused,
           ReindexRefused, RequestAborted
  <2>2. /\ req[r].pc \in ApiSteps
        /\ \/ UNCHANGED status
           \/ \E s \in DocumentStatus \ {"deleting"} : SetStatus(r, s)
    BY <1>4 DEF UploadRollback, DeleteRetained, DeleteSkipped, RetryDeleteRefused,
       ReindexRefused, RequestAborted, At, ApiSteps, DocumentStatus
  <2>3. QED
    BY <1>0, <2>1, <2>2, OwnerElsewhere DEF Moves
<1>5. CASE Publish(r)
  <2>1. Moves(r, "queued") /\ req[r].pc \in ApiSteps /\ UNCHANGED status
    BY <1>0, <1>5, LeaveEffect DEF Publish, At, ApiSteps
  <2>2. QED
    BY <1>0, <2>1, OwnerElsewhere DEF Moves
<1>6. CASE PublishFails(r)
  <2>1. Moves(r, "done") /\ req[r].pc \in ApiSteps
    BY <1>0, <1>6, LeaveEffect DEF PublishFails, At, ApiSteps
  <2>2. req[r].seen \in DocumentStatus
    BY DEF TypeOK, RequestRecord
  <2>3. \/ UNCHANGED status
        \/ \E s \in DocumentStatus \ {"deleting"} : SetStatus(r, s)
    BY <1>6, <2>2 DEF PublishFails, ErasureInv, ReindexSawNoDeletion
  <2>4. QED
    BY <1>0, <2>1, <2>3, OwnerElsewhere DEF Moves
<1>7. ASSUME NEW j \in Requests, RetryFailedJob(r, j) PROVE DeletingIsOwned'
  <2>1. OthersSame(r) /\ At(r, "idle") /\ UNCHANGED status
    BY <1>7, RetryJobEffect DEF RetryFailedJob
  <2>2. QED
    BY <1>0, <2>1, OwnerElsewhere DEF At
<1>8. QED
  BY <1>1, <1>2, <1>3, <1>4, <1>5, <1>6, <1>7 DEF ApiNext

LEMMA OwnerWorker ==
  ASSUME TypeOK, DeletingIsOwned, "terminal" \notin Faults, NEW r \in Requests,
         WorkerStep(r)
  PROVE  DeletingIsOwned'
<1>0. {"queued", "done"} \cup WorkerSteps \subseteq Steps
  BY DEF Steps
<1> USE DEF WillSettle
<1>1. CASE Begin(r) /\ req[r].task = "delete"
  <2>1. PICK step \in {"fail", "ack", "delVectors", "mark"} :
          Moves(r, step) /\ (step = "ack" => status[req[r].doc] = "deleted")
    BY <1>0, <1>1, GotoEffect, LeaveEffect
       DEF Begin, BeginBadCall, BeginProcess, BeginReindex, BeginDelete, WorkerSteps,
           DeleteSteps
  <2>2. UNCHANGED status
    BY <1>1 DEF Begin, BeginBadCall, BeginProcess, BeginReindex, BeginDelete
  <2>3. QED
    BY <2>1, <2>2, OwnerFrame DEF Moves
<1>2. CASE Begin(r) /\ req[r].task # "delete"
  <2>1. OthersSame(r)
    BY <1>0, <1>2, GotoEffect, LeaveEffect
       DEF Begin, BeginBadCall, BeginProcess, BeginReindex, BeginDelete, WorkerSteps,
           PipelineSteps, Moves
  <2>2. UNCHANGED status
    BY <1>2 DEF Begin, BeginBadCall, BeginProcess, BeginReindex, BeginDelete
  <2>3. QED
    BY <1>2, <2>1, <2>2, OwnerElsewhere
<1>3. CASE Mark(r) /\ req[r].task = "delete"
  <2>1. Moves(r, "delVectors") /\ SetStatus(r, "deleting")
    BY <1>0, <1>3, GotoEffect DEF Mark, WorkerSteps, DeleteSteps
  <2>2. \A d \in Docs \ {req[r].doc} : status'[d] = status[d]
    BY <2>1 DEF SetStatus, TypeOK
  <2>3. WillSettle(r)' /\ req'[r].doc = req[r].doc
    BY <1>3, <2>1 DEF Moves
  <2>4. QED
    BY <2>1, <2>2, <2>3, OwnerFrame DEF Moves
<1>4. CASE Mark(r) /\ req[r].task # "delete"
  <2>1. Moves(r, "extract") /\ SetStatus(r, "processing")
    BY <1>0, <1>4, GotoEffect DEF Mark, WorkerSteps, PipelineSteps
  <2>2. QED
    BY <2>1, OwnerSettles DEF Moves, DocumentStatus
<1>5. CASE \/ Extract(r) \/ DlpPass(r) \/ DlpWarn(r) \/ DlpBlock(r)
           \/ Cleanup(r) \/ Chunk(r) \/ Upsert(r) \/ CommitIndexed(r)
  <2>1. OthersSame(r)
    BY <1>0, <1>5, GotoEffect, LeaveEffect
       DEF Extract, DlpPass, DlpWarn, DlpBlock, Cleanup, Chunk, Upsert, CommitIndexed,
           Committed, WorkerSteps, PipelineSteps, Moves
  <2>2. req[r].pc \in PipelineSteps
    BY <1>5 DEF Extract, DlpPass, DlpWarn, DlpBlock, Cleanup, Chunk, Upsert,
       CommitIndexed, At, PipelineSteps
  <2>3. ~WillSettle(r)
    BY <2>2 DEF PipelineSteps
  <2>4. \/ UNCHANGED status
        \/ \E s \in DocumentStatus \ {"deleting"} : SetStatus(r, s)
    BY <1>5 DEF Extract, DlpPass, DlpWarn, DlpBlock, Cleanup, Chunk, Upsert,
       CommitIndexed, DocumentStatus
  <2>5. QED
    BY <2>1, <2>3, <2>4, OwnerElsewhere
<1>6. CASE DeleteVectors(r)
  <2>1. /\ Moves(r, "delObjects") /\ req'[r].seen = status[req[r].doc]
        /\ UNCHANGED status /\ req[r].doc \in Docs
    BY <1>6, DeleteVectorsEffect DEF DeleteVectors, TypeOK, RequestRecord
  <2>2. QED
    BY <2>1, OwnerFrame DEF Moves
<1>7. CASE DeleteObjects(r) \/ DeleteRows(r)
  <2>1. PICK step \in {"delRows", "delCommit"} :
          Moves(r, step) /\ req'[r].seen = req[r].seen
    BY <1>0, <1>7, GotoEffect, DeleteRowsEffect DEF DeleteObjects, WorkerSteps, DeleteSteps
  <2>2. UNCHANGED status /\ req[r].pc \in {"delObjects", "delRows"}
    BY <1>7 DEF DeleteObjects, DeleteRows, At
  <2>3. QED
    BY <2>1, <2>2, OwnerGoesOn DEF Moves
<1>8. CASE DeleteCommit(r)
  <2>1. OthersSame(r)
    BY <1>0, <1>8, LeaveEffect DEF DeleteCommit, Committed, WorkerSteps, Moves
  <2>2. CASE req[r].seen = "deleted"
    BY <1>8, <2>1, <2>2, OwnerElsewhere DEF DeleteCommit, At
  <2>3. CASE req[r].seen # "deleted"
    BY <1>8, <2>1, <2>3, OwnerSettles DEF DeleteCommit, DocumentStatus
  <2>4. QED
    BY <2>2, <2>3
<1>9. CASE PersistFailedJob(r)
  <2>1. Moves(r, "terminal") /\ req[r].pc = "fail" /\ UNCHANGED status
    BY <1>0, <1>9, GotoEffect DEF PersistFailedJob, At, WorkerSteps
  <2>2. QED
    BY <2>1, OwnerGoesOn DEF Moves
<1>10. CASE TerminalFailure(r)
  <2>1. Moves(r, "ack")
    BY <1>0, <1>10, LeaveEffect DEF TerminalFailure, WorkerSteps
  <2>2. \E s \in DocumentStatus \ {"deleting"} : SetStatus(r, s)
    BY <1>10 DEF TerminalFailure, DocumentStatus
  <2>3. QED
    BY <2>1, <2>2, OwnerSettles DEF Moves
<1>11. CASE Ack(r)
  <2>1. Moves(r, "done") /\ req[r].pc = "ack" /\ UNCHANGED status
    BY <1>11, AckEffect DEF Ack, At
  <2>2. QED
    BY <2>1, OwnerElsewhere DEF Moves
<1>12. QED
  BY <1>1, <1>2, <1>3, <1>4, <1>5, <1>6, <1>7, <1>8, <1>9, <1>10, <1>11
     DEF WorkerStep

LEMMA OwnerFault ==
  ASSUME TypeOK, DeletingIsOwned, NEW r \in Requests, WorkerFault(r)
  PROVE  DeletingIsOwned'
<1>0. {"queued", "fail"} \subseteq Steps
  BY DEF Steps, WorkerSteps
<1>1. PICK step \in {"queued", "fail"} : Moves(r, step)
  BY <1>0, TransientRetryEffect, LeaveEffect
     DEF WorkerFault, RetriesExhausted, TaskRaises, WorkerLost
<1>2. UNCHANGED status
  BY DEF WorkerFault, TransientRetry, RetriesExhausted, TaskRaises, WorkerLost
<1>3. QED
  BY <1>1, <1>2, OwnerGoesOn DEF Moves, WillSettle

\* Unless a write of the terminal-failure handler is lost, a document in deleting
\* has a delete task that is still going to write its status.
THEOREM OwnerInvariant ==
  ASSUME "terminal" \notin Faults
  PROVE  Spec => []DeletingIsOwned
<1>1. Init => DeletingIsOwned
  BY DEF Init, DeletingIsOwned
<1>2. TypeOK /\ ErasureInv /\ DeletingIsOwned /\ [Next]_vars => DeletingIsOwned'
  <2> SUFFICES ASSUME TypeOK, ErasureInv, DeletingIsOwned, [Next]_vars
               PROVE  DeletingIsOwned'
    OBVIOUS
  <2>1. CASE UNCHANGED vars
    BY <2>1 DEF vars, DeletingIsOwned, WillSettle
  <2>2. ASSUME NEW r \in Requests, ApiNext(r) \/ WorkerStep(r) \/ WorkerFault(r)
        PROVE  DeletingIsOwned'
    BY <2>2, OwnerApi, OwnerWorker, OwnerFault
  <2>3. QED
    BY <2>1, <2>2 DEF Next
<1>3. QED
  BY <1>1, <1>2, TypeCorrect, ErasureInvariant, PTL DEF Spec

\* Unless a write of the terminal-failure handler is lost, no document is left
\* in deleting with nothing running on it.
THEOREM NoStrandedDeleteHolds ==
  ASSUME "terminal" \notin Faults
  PROVE  Spec => []NoStrandedDelete
<1>1. DeletingIsOwned => NoStrandedDelete
  BY DEF DeletingIsOwned, WillSettle, NoStrandedDelete, Quiet, Busy
<1>2. QED
  BY <1>1, OwnerInvariant, PTL

----------------------------------------------------------------------------
(* No deletion removes the source of a document under legal hold.          *)

\* What a request and its task rely on: the row is there and stays there, a
\* task that erases is a deletion, and a deletion looked at the hold, which
\* an admin's retry of one would not.
HoldTask(r) ==
  /\ req[r].pc \notin {"idle", "put", "done"} => status[req[r].doc] # "absent"
  /\ ~At(r, "loadedRetry")
  /\ At(r, "refresh") => req[r].task = "process"
  /\ At(r, "loadedReindex") => req[r].task = "reindex"
  /\ req[r].pc \in DeleteSteps => req[r].task = "delete"
  /\ req[r].task = "delete" /\ req[r].pc \in {"publish", "queued"} \cup WorkerSteps
       => ~held[req[r].doc]
  /\ At(r, "loadedReindex") \/ (At(r, "publish") /\ req[r].task = "reindex")
       => req[r].seen # "absent"

HoldInv ==
  /\ \A r \in Requests : HoldTask(r)
  /\ \A j \in failedJobs : status[req[j].doc] # "absent"

LEMMA HoldInit == Init => HoldInv
BY DEF Init, HoldInv, HoldTask, At, DeleteSteps, WorkerSteps

\* A step neither makes nor removes a row.
RowsStay ==
  /\ status' \in [Docs -> DocumentStatus]
  /\ \A d \in Docs : status'[d] = "absent" <=> status[d] = "absent"

LEMMA SetStatusStays ==
  ASSUME TypeOK, NEW r \in Requests, status[req[r].doc] # "absent",
         NEW s \in DocumentStatus \ {"absent"}, SetStatus(r, s)
  PROVE  RowsStay
BY DEF TypeOK, SetStatus, RowsStay, RequestRecord

\* A step of a request or task on a document that has a row.
LEMMA HoldFrame ==
  ASSUME TypeOK, ErasureInv, HoldInv, NEW r \in Requests,
         ~At(r, "idle"), req[r].pc \notin {"put", "done"},
         req'[r].doc = req[r].doc, OthersSame(r),
         UNCHANGED held, RowsStay,
         failedJobs' \subseteq failedJobs \cup {r},
         HoldTask(r)'
  PROVE  HoldInv'
<1>1. \A q \in Requests : req[q].doc \in Docs /\ req'[q].doc = req[q].doc
  BY DEF TypeOK, RequestRecord, OthersSame
<1>2. ASSUME NEW q \in Requests PROVE HoldTask(q)'
  <2>1. CASE q = r
    BY <2>1
  <2>2. CASE q # r
    <3>1. req'[q] = req[q] /\ HoldTask(q)
      BY <2>2 DEF OthersSame, HoldInv
    <3>2. (status[req[q].doc])' # "absent" <=> status[req[q].doc] # "absent"
      BY <1>1, <3>1 DEF RowsStay
    <3>3. QED
      BY <3>1, <3>2 DEF HoldTask, At
  <2>3. QED
    BY <2>1, <2>2
<1>3. ASSUME NEW j \in failedJobs' PROVE (status[req[j].doc])' # "absent"
  <2>1. j \in Requests /\ status[req[j].doc] # "absent"
    BY <1>3 DEF HoldInv, HoldTask, TypeOK, At
  <2>2. QED
    BY <1>1, <2>1 DEF RowsStay
<1>4. QED
  BY <1>2, <1>3 DEF HoldInv

\* The same for a step that goes on to the queue, a worker's step or the end.
LEMMA HoldMoves ==
  ASSUME TypeOK, ErasureInv, HoldInv, NEW r \in Requests,
         ~At(r, "idle"), req[r].pc \notin {"put", "done"},
         NEW step, Moves(r, step), step \in {"queued", "done"} \cup WorkerSteps,
         step # "done" => req[r].pc \in {"publish", "queued"} \cup WorkerSteps,
         step \in DeleteSteps => req[r].task = "delete",
         UNCHANGED held, RowsStay,
         failedJobs' \subseteq failedJobs \cup {r}
  PROVE  HoldInv'
<1>1. HoldTask(r) /\ req[r].doc \in Docs
  BY DEF HoldInv, TypeOK, RequestRecord
<1>2. /\ step \notin {"refresh", "loadedRetry", "loadedReindex", "publish"}
      /\ "done" \notin {"publish", "queued"} \cup WorkerSteps
  BY DEF WorkerSteps, PipelineSteps, DeleteSteps
<1>3. status'[req[r].doc] # "absent"
  BY <1>1 DEF HoldTask, RowsStay, At
<1>4. req[r].task = "delete" /\ step \in {"publish", "queued"} \cup WorkerSteps
        => ~held[req[r].doc]
  BY <1>1, <1>2 DEF HoldTask
<1>5. HoldTask(r)'
  BY <1>2, <1>3, <1>4 DEF HoldTask, Moves, At
<1>6. QED
  BY <1>5, HoldFrame DEF Moves

LEMMA HoldApi ==
  ASSUME "retryDelete" \notin Kinds, TypeOK, ErasureInv, HoldInv,
         NEW r \in Requests, ApiNext(r)
  PROVE  HoldInv'
<1>0. /\ {"refresh", "loadedDelete", "loadedRetry", "loadedReindex", "publish", "queued",
          "done"} \subseteq Steps
      /\ req[r].doc \in Docs /\ HoldTask(r)
      /\ req \in [Requests -> RequestRecord]
  BY DEF Steps, ApiSteps, TypeOK, RequestRecord, HoldInv
<1>1. ASSUME NEW d \in Docs, UploadPut(r, d) PROVE HoldInv'
  <2>1. /\ At(r, "idle") /\ status[d] = "absent" /\ UNCHANGED <<status, failedJobs>>
        /\ \A q \in Requests : req[q].pc # "idle" => req[q].doc # d
    BY <1>1 DEF UploadPut
  <2>2. /\ req'[r].pc = "put" /\ OthersSame(r)
    BY <1>1, PutEffect
  <2>3. \A e \in Docs \ {d} : held'[e] = held[e]
    BY <1>1 DEF UploadPut, TypeOK
  <2>4. ASSUME NEW q \in Requests PROVE HoldTask(q)'
    <3>1. CASE req'[q].pc \in {"idle", "put"}
      BY <3>1 DEF HoldTask, At, DeleteSteps, WorkerSteps, PipelineSteps
    <3>2. CASE req'[q].pc \notin {"idle", "put"}
      <4>1. req'[q] = req[q] /\ HoldTask(q)
        BY <2>2, <3>2 DEF OthersSame, HoldInv
      <4>2. req[q].doc \in Docs \ {d}
        BY <2>1, <3>2, <4>1 DEF TypeOK, RequestRecord
      <4>3. held'[req[q].doc] = held[req[q].doc]
        BY <2>3, <4>2
      <4>4. QED
        BY <2>1, <4>1, <4>3 DEF HoldTask, At
    <3>3. QED
      BY <3>1, <3>2
  <2>5. ASSUME NEW j \in failedJobs PROVE req'[j] = req[j]
    BY <2>1, <2>2 DEF ErasureInv, FailedJobsBegan, TypeOK, At, OthersSame
  <2>6. QED
    BY <2>1, <2>4, <2>5 DEF HoldInv
<1>2. ASSUME NEW d \in Docs,
             LoadForDelete(r, d) \/ LoadForRetryDelete(r, d) \/ LoadForReindex(r, d)
      PROVE  HoldInv'
  <2>1. /\ At(r, "idle") /\ status[d] # "absent"
        /\ UNCHANGED <<status, held, object, failedJobs>>
    BY <1>2 DEF LoadForDelete, LoadForRetryDelete, LoadForReindex, Load
  <2>2. /\ req'[r].doc = d /\ OthersSame(r) /\ req'[r].seen = status[d]
        /\ \/ req'[r].pc = "loadedDelete"
           \/ req'[r].pc = "loadedReindex" /\ req'[r].task = "reindex"
    <3>1. CASE LoadForDelete(r, d)
      BY <1>0, <3>1, LoadEffect DEF LoadForDelete, TaskNames
    <3>2. CASE LoadForReindex(r, d)
      BY <1>0, <3>2, LoadEffect DEF LoadForReindex, TaskNames
    <3>3. QED
      BY <1>2, <3>1, <3>2 DEF LoadForRetryDelete, Load
  <2>3. HoldTask(r)'
    BY <2>1, <2>2 DEF HoldTask, At, DeleteSteps, WorkerSteps, PipelineSteps
  <2>4. \A q \in Requests \ {r} : HoldTask(q)'
    BY <2>1, <2>2 DEF HoldInv, HoldTask, At, OthersSame
  <2>5. \A j \in failedJobs : req'[j] = req[j]
    BY <2>1, <2>2 DEF ErasureInv, FailedJobsBegan, TypeOK, At, OthersSame
  <2>6. QED
    BY <2>1, <2>3, <2>4, <2>5 DEF HoldInv
<1>3. ASSUME At(r, "put"),
             UploadCommit(r) \/ UploadRollback(r) \/ RequestAborted(r)
      PROVE  HoldInv'
  <2>1. /\ req[r].task = "process" /\ status[req[r].doc] = "absent"
        /\ \A q \in Requests \ {r} : req[q].pc # "idle" => req[q].doc # req[r].doc
    BY <1>3 DEF ErasureInv, PutOwnsDocument, At
  <2>2. /\ UNCHANGED <<held, failedJobs>> /\ OthersSame(r)
        /\ req'[r].doc = req[r].doc
        /\ \/ req'[r].pc = "done" /\ UNCHANGED status
           \/ /\ req'[r].pc = "refresh" /\ req'[r].task = "process"
              /\ status' = [status EXCEPT ![req[r].doc] = "uploaded"]
    BY <1>0, <1>3, <2>1, GotoEffect, LeaveEffect
       DEF UploadCommit, UploadRollback, RequestAborted, SetStatus, Moves
  <2>3. \A e \in Docs \ {req[r].doc} : status'[e] = status[e]
    BY <1>3, <2>2 DEF UploadCommit, UploadRollback, RequestAborted, TypeOK
  <2>4. HoldTask(r)'
    BY <1>0, <2>2 DEF HoldTask, At, DeleteSteps, WorkerSteps, PipelineSteps, TypeOK
  <2>5. ASSUME NEW q \in Requests \ {r} PROVE HoldTask(q)'
    <3>1. req'[q] = req[q] /\ HoldTask(q) /\ req[q].doc \in Docs
      BY <2>2 DEF OthersSame, HoldInv, TypeOK, RequestRecord
    <3>2. req[q].pc # "idle" => status'[req[q].doc] = status[req[q].doc]
      BY <2>1, <2>3, <3>1
    <3>3. QED
      BY <2>2, <3>1, <3>2 DEF HoldTask, At
  <2>6. ASSUME NEW j \in failedJobs PROVE (status[req[j].doc])' # "absent"
    <3>1. /\ j \in Requests /\ req[j].pc \notin {"idle", "put"}
          /\ req[j].doc \in Docs /\ status[req[j].doc] # "absent"
      BY DEF ErasureInv, FailedJobsBegan, TypeOK, ApiSteps, RequestRecord, HoldInv
    <3>2. j # r /\ req'[j] = req[j]
      BY <1>3, <2>2, <3>1 DEF At, OthersSame
    <3>3. QED
      BY <2>1, <2>3, <3>1, <3>2
  <2>7. QED
    BY <2>2, <2>4, <2>5, <2>6 DEF HoldInv
<1>4. CASE DeleteRetained(r) \/ DeleteSkipped(r) \/ RetryDeleteRefused(r)
           \/ ReindexRefused(r) \/ Publish(r)
  <2>1. PICK step \in {"done", "queued"} :
          /\ Moves(r, step)
          /\ step = "queued" => req[r].pc = "publish"
    BY <1>0, <1>4, LeaveEffect
       DEF DeleteRetained, DeleteSkipped, RetryDeleteRefused, ReindexRefused, Publish, At
  <2>2. ~At(r, "idle") /\ req[r].pc \notin {"put", "done"}
    BY <1>4 DEF DeleteRetained, DeleteSkipped, RetryDeleteRefused, ReindexRefused,
       Publish, At
  <2>3. RowsStay
    BY <1>0, <1>4, <2>2, SetStatusStays
       DEF DeleteRetained, DeleteSkipped, RetryDeleteRefused, ReindexRefused, Publish,
           HoldTask, At, DocumentStatus, RowsStay, TypeOK
  <2>4. UNCHANGED <<held, object, failedJobs>>
    BY <1>4 DEF DeleteRetained, DeleteSkipped, RetryDeleteRefused, ReindexRefused,
       Publish
  <2>5. /\ step \in {"queued", "done"} \cup WorkerSteps
        /\ step \notin DeleteSteps
        /\ step # "done" => req[r].pc \in {"publish", "queued"} \cup WorkerSteps
    BY <2>1 DEF DeleteSteps
  <2>6. Moves(r, step) /\ failedJobs' \subseteq failedJobs \cup {r}
    BY <2>1, <2>4
  <2>7. QED
    BY <2>2, <2>3, <2>4, <2>5, <2>6, HoldMoves
<1>5. ASSUME UploadRollback(r) \/ RequestAborted(r), ~At(r, "put") PROVE HoldInv'
  <2>1. Moves(r, "done") /\ UNCHANGED <<status, held, failedJobs>>
    BY <1>0, <1>5, LeaveEffect DEF UploadRollback, RequestAborted
  <2>2. ~At(r, "idle") /\ req[r].pc \notin {"put", "done"} /\ RowsStay
    BY <1>5, <2>1 DEF UploadRollback, RequestAborted, At, ApiSteps, RowsStay, TypeOK
  <2>3. "done" \notin DeleteSteps
    BY DEF DeleteSteps
  <2>4. QED
    BY <2>1, <2>2, <2>3, HoldMoves
<1>6. CASE PublishFails(r)
  <2>1. Moves(r, "done") /\ UNCHANGED <<held, object, failedJobs>>
    BY <1>0, <1>6, LeaveEffect DEF PublishFails
  <2>2. /\ ~At(r, "idle") /\ req[r].pc \notin {"put", "done"}
        /\ status[req[r].doc] # "absent"
        /\ req[r].task = "reindex" => req[r].seen # "absent"
    BY <1>0, <1>6 DEF PublishFails, HoldTask, At
  <2>3. req[r].seen \in DocumentStatus
    BY <1>0 DEF RequestRecord
  <2>4. RowsStay
    BY <1>6, <2>2, <2>3, SetStatusStays DEF PublishFails, RowsStay, TypeOK
  <2>5. "done" \notin DeleteSteps
    BY DEF DeleteSteps
  <2>6. QED
    BY <2>1, <2>2, <2>4, <2>5, HoldMoves
<1>7. CASE DeleteCommitRequest(r)
  <2>1. /\ Moves(r, "publish") /\ req[r].task = "delete" /\ ~held[req[r].doc]
        /\ UNCHANGED <<held, object, failedJobs>>
    BY <1>0, <1>7, GotoEffect
       DEF DeleteCommitRequest, ErasureInv, TaskChosen, At
  <2>2. /\ ~At(r, "idle") /\ req[r].pc \notin {"put", "done"}
        /\ status[req[r].doc] # "absent"
    BY <1>0, <1>7 DEF DeleteCommitRequest, HoldTask, At
  <2>3. RowsStay
    BY <1>7, <2>2, SetStatusStays DEF DeleteCommitRequest, DocumentStatus
  <2>4. HoldTask(r)'
    BY <1>0, <2>1, <2>2, <2>3
       DEF HoldTask, Moves, RowsStay, At, DeleteSteps
  <2>5. QED
    BY <2>1, <2>2, <2>3, <2>4, HoldFrame DEF Moves
<1>8. CASE RetryDeleteCommit(r)
  BY <1>0, <1>8 DEF RetryDeleteCommit, HoldTask
<1>9. CASE ReindexCommit(r)
  <2>1. /\ Moves(r, "publish") /\ req[r].task = "reindex"
        /\ req'[r].seen = req[r].seen /\ req[r].seen # "absent"
        /\ UNCHANGED <<held, object, failedJobs>>
    BY <1>0, <1>9, GotoEffect DEF ReindexCommit, HoldTask
  <2>2. /\ ~At(r, "idle") /\ req[r].pc \notin {"put", "done"}
        /\ status[req[r].doc] # "absent"
    BY <1>0, <1>9 DEF ReindexCommit, HoldTask, At
  <2>3. RowsStay
    BY <1>9, <2>2, SetStatusStays DEF ReindexCommit, DocumentStatus, RowsStay, TypeOK
  <2>4. HoldTask(r)'
    BY <1>0, <2>1, <2>2, <2>3
       DEF HoldTask, Moves, RowsStay, At, DeleteSteps
  <2>5. QED
    BY <2>1, <2>2, <2>3, <2>4, HoldFrame DEF Moves
<1>10. ASSUME NEW j \in Requests, RetryFailedJob(r, j) PROVE HoldInv'
  <2>1. /\ At(r, "idle") /\ j \in failedJobs /\ req[j].task # "delete"
        /\ failedJobs' \subseteq failedJobs
        /\ UNCHANGED <<status, held, object>>
    BY <1>10 DEF RetryFailedJob, RetryableJob
  <2>2. /\ req'[r].pc = "queued" /\ req'[r].doc = req[j].doc
        /\ req'[r].task = req[j].task /\ OthersSame(r)
    BY <1>0, <1>10 DEF RetryFailedJob, RequestRecord, OthersSame
  <2>3. status[req[j].doc] # "absent"
    BY <2>1 DEF HoldInv
  <2>4. HoldTask(r)'
    BY <2>1, <2>2, <2>3 DEF HoldTask, At, DeleteSteps
  <2>5. \A q \in Requests \ {r} : HoldTask(q)'
    BY <2>1, <2>2 DEF HoldInv, HoldTask, At, OthersSame
  <2>6. \A i \in failedJobs : req'[i] = req[i]
    BY <2>1, <2>2 DEF ErasureInv, FailedJobsBegan, TypeOK, At, OthersSame
  <2>7. QED
    BY <2>1, <2>4, <2>5, <2>6 DEF HoldInv
<1>11. CASE UploadRefresh(r)
  <2>1. /\ Moves(r, "publish") /\ req[r].task = "process"
        /\ UNCHANGED <<status, held, failedJobs>>
    BY <1>0, <1>11, GotoEffect DEF UploadRefresh, HoldTask
  <2>2. /\ ~At(r, "idle") /\ req[r].pc \notin {"put", "done"}
        /\ status[req[r].doc] # "absent"
    BY <1>0, <1>11 DEF UploadRefresh, HoldTask, At
  <2>3. RowsStay
    BY <2>1 DEF RowsStay, TypeOK
  <2>4. HoldTask(r)'
    BY <2>1, <2>2 DEF HoldTask, Moves, At, DeleteSteps
  <2>5. QED
    BY <2>1, <2>2, <2>3, <2>4, HoldFrame DEF Moves
<1>12. QED
  BY <1>1, <1>2, <1>3, <1>4, <1>5, <1>6, <1>7, <1>8, <1>9, <1>10, <1>11
     DEF ApiNext, UploadCommit

LEMMA HoldWorker ==
  ASSUME TypeOK, ErasureInv, HoldInv, NEW r \in Requests, WorkerStep(r)
  PROVE  HoldInv'
<1>0. {"queued", "done"} \cup WorkerSteps \subseteq Steps
  BY DEF Steps
<1>1. /\ req[r].doc \in Docs
      /\ req[r].pc \in DeleteSteps => req[r].task = "delete"
      /\ req[r].task = "delete" /\ req[r].pc \in {"publish", "queued"} \cup WorkerSteps
           => ~held[req[r].doc]
  BY DEF TypeOK, RequestRecord, HoldInv, HoldTask
<1>2. /\ req[r].pc \in {"queued"} \cup WorkerSteps
      /\ \E step \in {"done"} \cup WorkerSteps :
           Moves(r, step) /\ (step \in DeleteSteps => req[r].task = "delete")
  <2>1. CASE Begin(r) \/ Mark(r)
    BY <1>0, <2>1, GotoEffect, LeaveEffect
       DEF Begin, BeginBadCall, BeginProcess, BeginReindex, BeginDelete, Mark, At,
           WorkerSteps, PipelineSteps, DeleteSteps
  <2>2. CASE Extract(r) \/ DlpPass(r) \/ DlpWarn(r) \/ DlpBlock(r)
    BY <1>0, <2>2, GotoEffect, LeaveEffect
       DEF Extract, DlpPass, DlpWarn, DlpBlock, At, WorkerSteps, PipelineSteps,
           DeleteSteps
  <2>3. CASE Cleanup(r) \/ Chunk(r) \/ Upsert(r) \/ CommitIndexed(r)
    BY <1>0, <2>3, GotoEffect, LeaveEffect
       DEF Cleanup, Chunk, Upsert, CommitIndexed, Committed, At, WorkerSteps,
           PipelineSteps, DeleteSteps
  <2>4. CASE DeleteVectors(r) \/ DeleteObjects(r) \/ DeleteRows(r) \/ DeleteCommit(r)
    <3>1. req[r].pc \in DeleteSteps
      BY <2>4
         DEF DeleteVectors, DeleteObjects, DeleteRows, DeleteCommit, At, DeleteSteps
    <3>2. \E step \in {"done"} \cup WorkerSteps : Moves(r, step)
      BY <1>0, <2>4, GotoEffect, LeaveEffect, DeleteVectorsEffect, DeleteRowsEffect
         DEF DeleteObjects, DeleteCommit, Committed, WorkerSteps, DeleteSteps
    <3>3. QED
      BY <1>1, <3>1, <3>2 DEF WorkerSteps
  <2>5. CASE PersistFailedJob(r) \/ TerminalFailure(r) \/ Ack(r)
    BY <1>0, <2>5, GotoEffect, LeaveEffect, AckEffect
       DEF PersistFailedJob, TerminalFailure, Ack, At, WorkerSteps, DeleteSteps
  <2>6. QED
    BY <2>1, <2>2, <2>3, <2>4, <2>5 DEF WorkerStep
<1>3. status[req[r].doc] # "absent" /\ ~At(r, "idle") /\ req[r].pc \notin {"put", "done"}
  BY <1>2 DEF HoldInv, HoldTask, At, WorkerSteps, PipelineSteps, DeleteSteps
<1>4. RowsStay
  <2>1. \/ UNCHANGED status
        \/ \E s \in DocumentStatus \ {"absent"} : SetStatus(r, s)
    BY DEF WorkerStep, Begin, BeginBadCall, BeginProcess, BeginReindex, BeginDelete,
       Mark, Extract, DlpPass, DlpWarn, DlpBlock, Cleanup, Chunk, Upsert, CommitIndexed,
       DeleteVectors, DeleteObjects, DeleteRows, DeleteCommit, PersistFailedJob,
       TerminalFailure, Ack, DocumentStatus
  <2>2. QED
    BY <1>3, <2>1, SetStatusStays DEF RowsStay, TypeOK
<1>5. UNCHANGED held /\ failedJobs' \subseteq failedJobs \cup {r}
  BY DEF WorkerStep, Begin, BeginBadCall, BeginProcess, BeginReindex, BeginDelete,
     Mark, Extract, DlpPass, DlpWarn, DlpBlock, Cleanup, Chunk, Upsert, CommitIndexed,
     DeleteVectors, DeleteObjects, DeleteRows, DeleteCommit, PersistFailedJob,
     TerminalFailure, Ack
<1>6. PICK step \in {"done"} \cup WorkerSteps :
        Moves(r, step) /\ (step \in DeleteSteps => req[r].task = "delete")
  BY <1>2
<1>7. QED
  BY <1>2, <1>3, <1>4, <1>5, <1>6, HoldMoves

LEMMA HoldFault ==
  ASSUME TypeOK, ErasureInv, HoldInv, NEW r \in Requests, WorkerFault(r)
  PROVE  HoldInv'
<1>0. {"queued", "fail"} \subseteq Steps
  BY DEF Steps, WorkerSteps
<1>1. PICK step \in {"queued", "fail"} : Moves(r, step)
  BY <1>0, TransientRetryEffect, LeaveEffect
     DEF WorkerFault, RetriesExhausted, TaskRaises, WorkerLost
<1>2. /\ req[r].pc \in {"queued"} \cup WorkerSteps
      /\ UNCHANGED <<status, held, failedJobs>>
  BY DEF WorkerFault, TransientRetry, RetriesExhausted, TaskRaises, WorkerLost,
     TransientSteps, WorkerSteps, PipelineSteps, DeleteSteps
<1>3. ~At(r, "idle") /\ req[r].pc \notin {"put", "done"}
  BY <1>2 DEF At, WorkerSteps, PipelineSteps, DeleteSteps
<1>4. RowsStay
  BY <1>2 DEF RowsStay, TypeOK
<1>5. step \in {"queued", "done"} \cup WorkerSteps /\ step \notin DeleteSteps
  BY <1>1 DEF WorkerSteps, DeleteSteps
<1>6. QED
  BY <1>1, <1>2, <1>3, <1>4, <1>5, HoldMoves

LEMMA HoldInvariant ==
  ASSUME "retryDelete" \notin Kinds
  PROVE  Spec => []HoldInv
<1>1. TypeOK /\ ErasureInv /\ HoldInv /\ [Next]_vars => HoldInv'
  <2> SUFFICES ASSUME TypeOK, ErasureInv, HoldInv, [Next]_vars
               PROVE  HoldInv'
    OBVIOUS
  <2>1. CASE UNCHANGED vars
    BY <2>1 DEF vars, HoldInv, HoldTask, At
  <2>2. ASSUME NEW r \in Requests, ApiNext(r) \/ WorkerStep(r) \/ WorkerFault(r)
        PROVE  HoldInv'
    BY <2>2, HoldApi, HoldWorker, HoldFault
  <2>3. QED
    BY <2>1, <2>2 DEF Next
<1>2. QED
  BY <1>1, HoldInit, TypeCorrect, ErasureInvariant, PTL DEF Spec

\* Who removes a source object: a deletion of its document, or the clean-up of
\* the upload that stored it.
LEMMA ObjectRemoved ==
  ASSUME TypeOK, NEW r \in Requests, ApiNext(r) \/ WorkerStep(r) \/ WorkerFault(r),
         NEW d \in Docs, object[d], ~object'[d]
  PROVE  req[r].doc = d /\ (At(r, "delObjects") \/ UploadRollback(r))
<1>1. CASE DeleteObjects(r) \/ (WorkerFault(r) /\ PartialEffect(r))
  BY <1>1 DEF DeleteObjects, PartialEffect, TypeOK
<1>2. CASE UploadRollback(r)
  BY <1>2 DEF UploadRollback, TypeOK
<1>3. ASSUME NEW e \in Docs, UploadPut(r, e) PROVE FALSE
  BY <1>3 DEF UploadPut, TypeOK
<1>4. CASE UNCHANGED object
  BY <1>4
<1>5. CASE ApiNext(r)
  <2>1. UNCHANGED object \/ UploadRollback(r) \/ \E e \in Docs : UploadPut(r, e)
    BY <1>5
       DEF ApiNext, LoadForDelete, LoadForRetryDelete, LoadForReindex, Load, UploadCommit,
           UploadRefresh, DeleteRetained, DeleteSkipped, DeleteCommitRequest,
           RetryDeleteCommit, RetryDeleteRefused, ReindexCommit, ReindexRefused, Publish,
           PublishFails, RequestAborted, RetryFailedJob
  <2>2. QED
    BY <1>2, <1>3, <1>4, <2>1
<1>6. CASE WorkerStep(r)
  <2>1. UNCHANGED object \/ DeleteObjects(r)
    BY <1>6
       DEF WorkerStep, Begin, BeginBadCall, BeginProcess, BeginReindex, BeginDelete,
           Mark, Extract, DlpPass, DlpWarn, DlpBlock, Cleanup, Chunk, Upsert,
           CommitIndexed, DeleteVectors, DeleteRows, DeleteCommit, PersistFailedJob,
           TerminalFailure, Ack
  <2>2. QED
    BY <1>1, <1>4, <2>1
<1>7. CASE WorkerFault(r)
  <2>1. UNCHANGED object \/ PartialEffect(r)
    BY <1>7 DEF WorkerFault, TransientRetry, RetriesExhausted, TaskRaises, WorkerLost
  <2>2. QED
    BY <1>1, <1>4, <1>7, <2>1
<1>8. QED
  BY <1>5, <1>6, <1>7

\* When the admin's retry of deletions is not used, nothing but the clean-up of a
\* failing upload removes the source of a document under legal hold, whatever
\* requests, tasks and failures overlap on it: the check of the hold by the
\* handler that publishes a deletion is enough.
THEOREM HeldSourceKeptHolds ==
  ASSUME "retryDelete" \notin Kinds
  PROVE  Spec => HeldSourceKept
<1>1. ASSUME TypeOK, ErasureInv, HoldInv, [Next]_vars, NEW d \in Docs, held[d], object[d],
             ~object'[d]
      PROVE  \E r \in Requests : req[r].doc = d /\ req[r].pc \in {"put", "refresh"}
                                 /\ At(r, "done")'
  <2>1. object' # object
    BY <1>1
  <2>2. PICK r \in Requests : ApiNext(r) \/ WorkerStep(r) \/ WorkerFault(r)
    BY <1>1, <2>1 DEF Next, vars
  <2>3. req[r].doc = d /\ (At(r, "delObjects") \/ UploadRollback(r))
    BY <1>1, <2>2, ObjectRemoved
  <2>4. At(r, "delObjects") => ~held[req[r].doc]
    BY <1>1 DEF HoldInv, HoldTask, At, WorkerSteps, DeleteSteps
  <2>5. UploadRollback(r)
    BY <1>1, <2>3, <2>4
  <2>6. "done" \in Steps
    BY DEF Steps
  <2>7. Moves(r, "done") /\ req[r].pc \in {"put", "refresh"}
    BY <1>1, <2>5, <2>6, LeaveEffect DEF UploadRollback
  <2>8. QED
    BY <2>3, <2>7 DEF Moves, At
<1>2. TypeOK /\ ErasureInv /\ HoldInv /\ [Next]_vars
        => [\A d \in Docs : held[d] /\ object[d] /\ ~object'[d] =>
              \E r \in Requests : req[r].doc = d /\ req[r].pc \in {"put", "refresh"}
                                 /\ At(r, "done")']_vars
  BY <1>1
<1>3. QED
  BY <1>2, HoldInvariant, TypeCorrect, ErasureInvariant, PTL DEF Spec, HeldSourceKept
=============================================================================
