------------------------- MODULE DocumentIndexProofs -------------------------
(***************************************************************************)
(* Proofs about the index of a document: that it is exact when the         *)
(* document's tasks do not overlap, and that the row locks leave it        *)
(* complete when indexing runs do.                                         *)
(***************************************************************************)
EXTENDS DocumentLifecycleProofs

----------------------------------------------------------------------------
(* One task at a time: the inductive invariant.                            *)

Exact(d) == chunks[d] # NoRun /\ vectors[d] = IndexOf(chunks[d])

OneTaskAtATime ==
  \A q, r \in Requests, d \in Docs : Busy(q, d) /\ Busy(r, d) => q = r

\* A committed run is that of a request that has begun, whose chunking
\* profile is settled.
RunsBegan == \A d \in Docs : chunks[d] # NoRun => ~At(chunks[d], "idle")

\* What a handler has read is still so, and a task finds the stores as its own
\* steps have left them.
IndexingTask(r) ==
  LET d == req[r].doc
  IN /\ At(r, "loadedReindex") => req[r].seen = status[d]
     /\ At(r, "publish") /\ req[r].task = "reindex" /\ req[r].seen = "indexed"
          => Exact(d)
     /\ req[r].pc \in PipelineSteps => status[d] = "processing"
     /\ req[r].pc \in {"chunk", "upsert"} => vectors[d] = NoPoints
     /\ At(r, "commit") => vectors[d] = IndexOf(r)
     /\ req[r].pc \in DeleteSteps => status[d] = "deleting"
     /\ req[r].pc \in DeleteSteps \ {"delVectors"} => req[r].seen = "deleting"
     /\ At(r, "delCommit") => req[r].snapshot = chunks[d]

SerialInv ==
  /\ OneTaskAtATime
  /\ RunsBegan
  /\ IndexIsExact
  /\ \A r \in Requests : IndexingTask(r)

LEMMA SerialInit == Init => SerialInv
BY DEF Init, SerialInv, OneTaskAtATime, Busy, RunsBegan, IndexIsExact, IndexingTask,
   At, PipelineSteps, DeleteSteps

----------------------------------------------------------------------------
(* What a step of one request leaves alone.                                *)

LEMMA ExactSame ==
  ASSUME NEW d \in Docs, chunks'[d] = chunks[d], vectors'[d] = vectors[d],
         chunks[d] # NoRun => req'[chunks[d]].size = req[chunks[d]].size
  PROVE  Exact(d)' <=> Exact(d)
BY DEF Exact, IndexOf

LEMMA IndexOfSame ==
  ASSUME NEW run, req'[run].size = req[run].size
  PROVE  IndexOf(run)' = IndexOf(run)
BY DEF IndexOf

\* A step of a running request that touches no document but its own.
Local(r) ==
  /\ req[r].pc \notin {"idle", "done"}
  /\ \E step \in Steps \ {"idle"} : Moves(r, step)
  /\ \A d \in Docs \ {req[r].doc} :
       status'[d] = status[d] /\ chunks'[d] = chunks[d] /\ vectors'[d] = vectors[d]

LEMMA SizesSame ==
  ASSUME TypeOK, SerialInv, NEW r \in Requests, Local(r), NEW d \in Docs,
         chunks[d] # NoRun
  PROVE  req'[chunks[d]].size = req[chunks[d]].size /\ req'[chunks[d]].pc # "idle"
<1> DEFINE run == chunks[d]
<1>1. run \in Requests /\ req[run].pc # "idle"
  BY DEF TypeOK, SerialInv, RunsBegan, At
<1>2. CASE run = r
  BY <1>2 DEF Local, Moves
<1>3. CASE run # r
  BY <1>1, <1>3 DEF Local, Moves, OthersSame
<1>4. QED
  BY <1>2, <1>3

LEMMA SerialFrame ==
  ASSUME TypeOK, SerialInv, NEW r \in Requests, NEW d \in Docs, req[r].doc = d, Local(r),
         chunks'[d] \in {NoRun, r, chunks[d]},
         status'[d] = "indexed" => Exact(d)',
         IndexingTask(r)'
  PROVE  SerialInv'
<1>0. /\ req'[r].doc = d
      /\ \A q \in Requests : req[q].doc \in Docs
      /\ \A q \in Requests \ {r} : req'[q] = req[q]
      /\ req[r].pc \notin {"idle", "done"} /\ ~At(r, "idle")'
  BY DEF TypeOK, RequestRecord, Local, Moves, OthersSame, At
<1>1. OneTaskAtATime'
  BY <1>0 DEF SerialInv, OneTaskAtATime, Busy
<1>2. RunsBegan'
  <2> SUFFICES ASSUME NEW e \in Docs, chunks'[e] # NoRun
               PROVE  ~At(chunks[e], "idle")'
    BY DEF RunsBegan
  <2>1. CASE chunks'[e] = chunks[e]
    BY <2>1, SizesSame DEF At
  <2>2. CASE chunks'[e] # chunks[e]
    BY <1>0, <2>2 DEF Local, At
  <2>3. QED
    BY <2>1, <2>2
<1>3. ASSUME NEW e \in Docs \ {d} PROVE Exact(e)' <=> Exact(e)
  BY ExactSame, SizesSame DEF Local
<1>4. IndexIsExact'
  <2> SUFFICES ASSUME NEW e \in Docs, status'[e] = "indexed" PROVE Exact(e)'
    BY DEF IndexIsExact, Exact
  <2>1. CASE e = d
    BY <2>1
  <2>2. CASE e # d
    BY <1>3, <2>2 DEF SerialInv, IndexIsExact, Exact, Local
  <2>3. QED
    BY <2>1, <2>2
<1>5. ASSUME NEW q \in Requests PROVE IndexingTask(q)'
  <2>1. CASE q = r
    BY <2>1
  <2>2. CASE q # r /\ req[q].pc \in {"idle", "done"}
    BY <1>0, <2>2 DEF IndexingTask, At, PipelineSteps, DeleteSteps
  <2>3. CASE q # r /\ req[q].pc \notin {"idle", "done"}
    <3>1. req[q].doc \in Docs \ {d}
      BY <1>0, <2>3 DEF SerialInv, OneTaskAtATime, Busy
    <3>2. /\ status'[req[q].doc] = status[req[q].doc]
          /\ chunks'[req[q].doc] = chunks[req[q].doc]
          /\ vectors'[req[q].doc] = vectors[req[q].doc]
          /\ Exact(req[q].doc)' <=> Exact(req[q].doc)
      BY <1>0, <1>3, <2>3, <3>1 DEF Local, Exact, IndexOf
    <3>3. IndexOf(q)' = IndexOf(q) /\ NoPoints' = NoPoints /\ req'[q] = req[q]
      BY <1>0, <2>3, IndexOfSame DEF NoPoints
    <3>4. QED
      BY <3>2, <3>3 DEF SerialInv, IndexingTask, At
  <2>4. QED
    BY <2>1, <2>2, <2>3
<1>6. QED
  BY <1>1, <1>2, <1>4, <1>5 DEF SerialInv

\* Steps that do not touch the index, unless the document is not offered.
LEMMA SerialKeep ==
  ASSUME TypeOK, SerialInv, NEW r \in Requests, NEW d \in Docs, req[r].doc = d,
         req[r].pc \notin {"idle", "done"},
         NEW step \in Steps \ {"idle"}, Moves(r, step), UNCHANGED chunks,
         \A e \in Docs \ {d} : status'[e] = status[e] /\ vectors'[e] = vectors[e],
         status'[d] = "indexed" => status[d] = "indexed" /\ vectors'[d] = vectors[d],
         IndexingTask(r)'
  PROVE  SerialInv'
<1>1. Local(r)
  BY DEF Local
<1>2. ASSUME status'[d] = "indexed" PROVE Exact(d)'
  <2>1. Exact(d)
    BY <1>2 DEF SerialInv, IndexIsExact, Exact
  <2>2. QED
    BY <1>1, <1>2, <2>1, ExactSame, SizesSame
<1>3. QED
  BY <1>1, <1>2, SerialFrame

\* Steps to a place where a request or task relies on nothing.
LEMMA SerialLeave ==
  ASSUME TypeOK, SerialInv, NEW r \in Requests, NEW d \in Docs, req[r].doc = d,
         req[r].pc \notin {"idle", "done"},
         NEW step \in {"queued", "done", "mark", "fail", "terminal", "ack"},
         Moves(r, step), UNCHANGED chunks,
         \A e \in Docs \ {d} : status'[e] = status[e] /\ vectors'[e] = vectors[e],
         status'[d] = "indexed" => status[d] = "indexed" /\ vectors'[d] = vectors[d]
  PROVE  SerialInv'
<1>1. IndexingTask(r)'
  BY DEF IndexingTask, Moves, At, PipelineSteps, DeleteSteps
<1>2. step \in Steps \ {"idle"}
  BY DEF Steps, WorkerSteps
<1>3. QED
  BY <1>1, <1>2, SerialKeep

\* A request begins on a document on which nothing else is running.
LEMMA SerialBegin ==
  ASSUME TypeOK, SerialInv, NEW r \in Requests, NEW d \in Docs, At(r, "idle"),
         req'[r].doc = d, req'[r].pc \notin {"idle", "done"}, OthersSame(r),
         \A q \in Requests : ~Busy(q, d),
         UNCHANGED <<status, chunks, vectors>>,
         IndexingTask(r)'
  PROVE  SerialInv'
<1>1. \A q \in Requests \ {r} : req'[q] = req[q]
  BY DEF OthersSame
<1>2. OneTaskAtATime'
  BY <1>1 DEF SerialInv, OneTaskAtATime, Busy
<1>3. ASSUME NEW e \in Docs, chunks[e] # NoRun
      PROVE  chunks[e] \in Requests \ {r}
  BY <1>3 DEF TypeOK, SerialInv, RunsBegan
<1>4. RunsBegan'
  BY <1>1, <1>3 DEF SerialInv, RunsBegan, At
<1>5. ASSUME NEW e \in Docs PROVE Exact(e)' <=> Exact(e)
  BY <1>1, <1>3, ExactSame
<1>6. IndexIsExact'
  <2> SUFFICES ASSUME NEW e \in Docs, status'[e] = "indexed" PROVE Exact(e)'
    BY DEF IndexIsExact, Exact
  <2>1. QED
    BY <1>5 DEF SerialInv, IndexIsExact, Exact
<1>7. ASSUME NEW q \in Requests \ {r} PROVE IndexingTask(q)'
  <2>1. IndexingTask(q) /\ req[q].doc \in Docs /\ req'[q] = req[q]
    BY <1>1 DEF SerialInv, TypeOK, RequestRecord
  <2>2. Exact(req[q].doc)' <=> Exact(req[q].doc)
    BY <1>5, <2>1 DEF Exact, IndexOf
  <2>3. IndexOf(q)' = IndexOf(q) /\ NoPoints' = NoPoints
    BY <2>1, IndexOfSame DEF NoPoints
  <2>4. QED
    BY <2>1, <2>2, <2>3 DEF IndexingTask, At
<1>8. QED
  BY <1>2, <1>4, <1>6, <1>7 DEF SerialInv

----------------------------------------------------------------------------
(* One task at a time: the steps.                                          *)

LEMMA SerialApi ==
  ASSUME Serial = TRUE, TypeOK, ErasureInv, SerialInv, NEW r \in Requests,
         NEW d \in Docs, req[r].doc = d, ApiNext(r)
  PROVE  SerialInv'
<1>0. /\ {"loadedDelete", "loadedRetry", "loadedReindex", "refresh", "publish", "queued",
          "done"} \subseteq Steps
      /\ status \in [Docs -> DocumentStatus]
      /\ req[r].seen \in DocumentStatus
      /\ IndexingTask(r)
  BY DEF Steps, ApiSteps, TypeOK, RequestRecord, SerialInv
<1>1. ASSUME NEW e \in Docs, UploadPut(r, e) PROVE SerialInv'
  <2>1. /\ At(r, "idle") /\ \A q \in Requests : ~Busy(q, e)
        /\ UNCHANGED <<status, chunks, vectors>>
    BY <1>1 DEF UploadPut, Busy
  <2>2. req'[r].pc = "put" /\ req'[r].doc = e /\ OthersSame(r)
    BY <1>1, PutEffect
  <2>3. IndexingTask(r)'
    BY <2>2 DEF IndexingTask, At, PipelineSteps, DeleteSteps
  <2>4. QED
    BY <2>1, <2>2, <2>3, SerialBegin
<1>2. ASSUME NEW e \in Docs,
             LoadForDelete(r, e) \/ LoadForRetryDelete(r, e) \/ LoadForReindex(r, e)
      PROVE  SerialInv'
  <2>1. /\ At(r, "idle") /\ Quiet(e) /\ UNCHANGED <<status, chunks, vectors>>
    BY <1>2 DEF LoadForDelete, LoadForRetryDelete, LoadForReindex, Load
  <2>2. /\ req'[r].pc \in {"loadedDelete", "loadedRetry", "loadedReindex"}
        /\ req'[r].doc = e /\ req'[r].seen = status[e] /\ OthersSame(r)
    <3>1. CASE LoadForDelete(r, e)
      BY <1>0, <3>1, LoadEffect DEF LoadForDelete, TaskNames
    <3>2. CASE LoadForRetryDelete(r, e)
      BY <1>0, <3>2, LoadEffect DEF LoadForRetryDelete, TaskNames
    <3>3. CASE LoadForReindex(r, e)
      BY <1>0, <3>3, LoadEffect DEF LoadForReindex, TaskNames
    <3>4. QED
      BY <1>2, <3>1, <3>2, <3>3
  <2>3. IndexingTask(r)'
    BY <2>1, <2>2 DEF IndexingTask, At, PipelineSteps, DeleteSteps
  <2>4. QED
    BY <2>1, <2>2, <2>3, SerialBegin DEF Quiet
<1>3. ASSUME NEW j \in Requests, RetryFailedJob(r, j) PROVE SerialInv'
  <2>1. /\ At(r, "idle") /\ Quiet(req[j].doc) /\ UNCHANGED <<status, chunks, vectors>>
        /\ req[j].doc \in Docs
    BY <1>3 DEF RetryFailedJob, TypeOK, RequestRecord
  <2>2. req'[r].pc = "queued" /\ req'[r].doc = req[j].doc /\ OthersSame(r)
    BY <1>3, RetryJobEffect
  <2>3. IndexingTask(r)'
    BY <2>2 DEF IndexingTask, At, PipelineSteps, DeleteSteps
  <2>4. QED
    BY <2>1, <2>2, <2>3, SerialBegin DEF Quiet
<1>4. CASE UploadRollback(r) \/ DeleteRetained(r) \/ DeleteSkipped(r)
           \/ RetryDeleteRefused(r) \/ ReindexRefused(r) \/ Publish(r)
           \/ RequestAborted(r)
  <2>1. PICK step \in {"queued", "done"} : Moves(r, step)
    BY <1>0, <1>4, LeaveEffect
       DEF UploadRollback, DeleteRetained, DeleteSkipped, RetryDeleteRefused,
           ReindexRefused, Publish, RequestAborted
  <2>2. req[r].pc \notin {"idle", "done"} /\ UNCHANGED <<chunks, vectors>>
    BY <1>4
       DEF UploadRollback, DeleteRetained, DeleteSkipped, RetryDeleteRefused,
           ReindexRefused, Publish, RequestAborted, At, ApiSteps
  <2>3. /\ \A e \in Docs \ {d} : status'[e] = status[e]
        /\ status'[d] = "indexed" => status[d] = "indexed"
    BY <1>0, <1>4
       DEF UploadRollback, DeleteRetained, DeleteSkipped, RetryDeleteRefused,
           ReindexRefused, Publish, RequestAborted, SetStatus
  <2>4. QED
    BY <1>0, <2>1, <2>2, <2>3, SerialLeave
<1>5. CASE PublishFails(r)
  <2>1. Moves(r, "done") /\ UNCHANGED <<chunks, vectors>> /\ At(r, "publish")
    BY <1>0, <1>5, LeaveEffect DEF PublishFails
  <2>2. Local(r)
    BY <1>0, <1>5, <2>1 DEF PublishFails, Local, At, SetStatus
  <2>3. IndexingTask(r)'
    BY <2>1 DEF IndexingTask, Moves, At, PipelineSteps, DeleteSteps
  <2>4. ASSUME status'[d] = "indexed" PROVE Exact(d)
    BY <1>0, <1>5, <2>1, <2>4
       DEF PublishFails, SetStatus, IndexingTask, SerialInv, IndexIsExact, Exact
  <2>5. QED
    <3>1. Exact(d)' <=> Exact(d)
      BY <1>0, <2>1, <2>2, ExactSame, SizesSame
    <3>2. QED
      BY <1>0, <2>1, <2>2, <2>3, <2>4, <3>1, SerialFrame
<1>6. CASE UploadCommit(r) \/ UploadRefresh(r) \/ DeleteCommitRequest(r)
           \/ RetryDeleteCommit(r) \/ ReindexCommit(r)
  <2>1. PICK step \in {"refresh", "publish"} :
          /\ Moves(r, step) /\ req'[r].seen = req[r].seen
          /\ UNCHANGED <<chunks, vectors>>
          /\ req[r].pc \in {"put", "refresh", "loadedDelete", "loadedRetry", "loadedReindex"}
    BY <1>0, <1>6, GotoEffect
       DEF UploadCommit, UploadRefresh, DeleteCommitRequest, RetryDeleteCommit,
           ReindexCommit, At
  <2>2. Local(r)
    BY <1>0, <1>6, <2>1
       DEF UploadCommit, UploadRefresh, DeleteCommitRequest, RetryDeleteCommit,
           ReindexCommit, Local, SetStatus
  <2>3. Exact(d)' <=> Exact(d)
    BY <1>0, <2>1, <2>2, ExactSame, SizesSame
  <2>4. status'[d] = "indexed" => Exact(d)
    BY <1>0, <1>6
       DEF UploadCommit, UploadRefresh, DeleteCommitRequest, RetryDeleteCommit,
           ReindexCommit, SetStatus, SerialInv, IndexIsExact, Exact
  <2>5. req[r].task = "reindex" /\ req[r].seen = "indexed" => Exact(d)
    <3>1. CASE At(r, "loadedReindex")
      BY <1>0, <3>1 DEF IndexingTask, SerialInv, IndexIsExact, Exact
    <3>2. CASE ~At(r, "loadedReindex")
      BY <2>1, <3>2 DEF ErasureInv, PutOwnsDocument, TaskChosen, At
    <3>3. QED
      BY <3>1, <3>2
  <2>6. IndexingTask(r)'
    <3>1. req'[r].doc = d /\ req'[r].pc = step /\ req'[r].task = req[r].task
      BY <2>1 DEF Moves
    <3>2. Exact(req[r].doc)' <=> Exact(d)'
      BY <3>1 DEF Exact, IndexOf
    <3>3. QED
      BY <2>1, <2>3, <2>5, <3>1, <3>2 DEF IndexingTask, At, PipelineSteps, DeleteSteps
  <2>7. QED
    BY <2>1, <2>2, <2>3, <2>4, <2>6, SerialFrame
<1>7. QED
  BY <1>1, <1>2, <1>3, <1>4, <1>5, <1>6 DEF ApiNext

LEMMA SerialBegins ==
  ASSUME TypeOK, SerialInv, NEW r \in Requests, NEW d \in Docs, req[r].doc = d,
         Begin(r) \/ Mark(r)
  PROVE  SerialInv'
<1>0. /\ {"queued", "done"} \cup WorkerSteps \subseteq Steps
      /\ status \in [Docs -> DocumentStatus]
  BY DEF Steps, TypeOK
<1>1. /\ req[r].pc \notin {"idle", "done"} /\ UNCHANGED <<chunks, vectors>>
      /\ \A e \in Docs \ {d} : status'[e] = status[e]
      /\ status'[d] = "indexed" => status[d] = "indexed"
  BY <1>0 DEF Begin, BeginBadCall, BeginProcess, BeginReindex, BeginDelete, Mark, At,
     SetStatus
<1>2. \E step \in {"mark", "fail", "ack", "extract", "delVectors"} :
        /\ Moves(r, step)
        /\ step = "extract" => status'[d] = "processing"
        /\ step = "delVectors" => status'[d] = "deleting"
  <2>1. CASE BeginBadCall(r)
    BY <1>0, <2>1, LeaveEffect DEF BeginBadCall, WorkerSteps
  <2>2. CASE BeginProcess(r)
    BY <1>0, <2>2, GotoEffect DEF BeginProcess, WorkerSteps
  <2>3. CASE BeginReindex(r)
    BY <1>0, <2>3, GotoEffect DEF BeginReindex, WorkerSteps, PipelineSteps
  <2>4. CASE BeginDelete(r)
    BY <1>0, <2>4, GotoEffect DEF BeginDelete, WorkerSteps, DeleteSteps
  <2>5. CASE Mark(r)
    BY <1>0, <2>5, GotoEffect
       DEF Mark, SetStatus, WorkerSteps, PipelineSteps, DeleteSteps
  <2>6. QED
    BY <2>1, <2>2, <2>3, <2>4, <2>5 DEF Begin
<1>3. PICK step \in {"mark", "fail", "ack", "extract", "delVectors"} :
        /\ Moves(r, step)
        /\ step = "extract" => status'[d] = "processing"
        /\ step = "delVectors" => status'[d] = "deleting"
  BY <1>2
<1>4. IndexingTask(r)'
  BY <1>3 DEF IndexingTask, Moves, At, PipelineSteps, DeleteSteps
<1>5. step \in Steps \ {"idle"}
  BY <1>3 DEF Steps, WorkerSteps, PipelineSteps, DeleteSteps
<1>6. QED
  BY <1>1, <1>3, <1>4, <1>5, SerialKeep

LEMMA SerialPipeline ==
  ASSUME TypeOK, SerialInv, NEW r \in Requests, NEW d \in Docs, req[r].doc = d,
         \/ Extract(r) \/ DlpPass(r) \/ DlpWarn(r) \/ DlpBlock(r)
         \/ Cleanup(r) \/ Chunk(r) \/ Upsert(r)
  PROVE  SerialInv'
<1>0. /\ {"dlp", "cleanup", "chunk", "upsert", "commit", "fail"} \subseteq Steps
      /\ status \in [Docs -> DocumentStatus] /\ IndexingTask(r)
      /\ vectors \in [Docs -> PointMaps]
  BY DEF Steps, WorkerSteps, PipelineSteps, TypeOK, SerialInv, PointMaps
<1>1. /\ req[r].pc \in PipelineSteps /\ UNCHANGED chunks
      /\ \A e \in Docs \ {d} : status'[e] = status[e] /\ vectors'[e] = vectors[e]
      /\ status'[d] # "indexed"
  <2>1. req[r].pc \in PipelineSteps
    BY DEF Extract, DlpPass, DlpWarn, DlpBlock, Cleanup, Chunk, Upsert, At,
       PipelineSteps
  <2>2. status[d] = "processing"
    BY <1>0, <2>1 DEF IndexingTask
  <2>3. QED
    BY <1>0, <2>1, <2>2
       DEF Extract, DlpPass, DlpWarn, DlpBlock, Cleanup, Chunk, Upsert, SetStatus,
           WritePoints, PointMaps
<1>2. status[d] = "processing" /\ req[r].pc \notin {"idle", "done"}
  BY <1>0, <1>1 DEF IndexingTask, PipelineSteps
<1>3. CASE DlpBlock(r) \/ (Extract(r) /\ At(r, "fail")')
  <2>1. Moves(r, "fail")
    BY <1>0, <1>3, LeaveEffect, GotoEffect DEF DlpBlock, Extract, At, Moves
  <2>2. QED
    BY <1>1, <1>2, <2>1, SerialLeave
<1>4. CASE (Extract(r) /\ ~At(r, "fail")') \/ DlpPass(r) \/ DlpWarn(r)
  <2>1. PICK step \in {"dlp", "cleanup"} : Moves(r, step)
    BY <1>0, <1>4, GotoEffect DEF Extract, DlpPass, DlpWarn, At, Moves
  <2>2. status'[d] = "processing"
    BY <1>0, <1>2, <1>4 DEF Extract, DlpPass, DlpWarn, SetStatus
  <2>3. IndexingTask(r)'
    BY <2>1, <2>2 DEF IndexingTask, Moves, At, PipelineSteps, DeleteSteps
  <2>4. step \in Steps \ {"idle"}
    BY <1>0, <2>1
  <2>5. QED
    BY <1>1, <1>2, <2>1, <2>3, <2>4, SerialKeep
<1>5. CASE Cleanup(r) \/ Chunk(r)
  <2>1. PICK step \in {"chunk", "upsert"} : Moves(r, step)
    BY <1>0, <1>5, GotoEffect DEF Cleanup, Chunk
  <2>2. vectors'[d] = NoPoints /\ UNCHANGED status
    BY <1>0, <1>5 DEF Cleanup, Chunk, IndexingTask, At
  <2>3. IndexingTask(r)'
    BY <1>2, <2>1, <2>2 DEF IndexingTask, Moves, At, PipelineSteps, DeleteSteps, NoPoints
  <2>4. step \in Steps \ {"idle"}
    BY <1>0, <2>1
  <2>5. QED
    BY <1>1, <1>2, <2>1, <2>3, <2>4, SerialKeep
<1>6. CASE Upsert(r)
  <2>1. Moves(r, "commit") /\ UNCHANGED status
    BY <1>0, <1>6, GotoEffect DEF Upsert
  <2>2. vectors[d] = NoPoints
    BY <1>0, <1>6 DEF Upsert, IndexingTask, At
  <2>3. vectors'[d] = [i \in Points |-> IF i <= req[r].size THEN r ELSE NoPoints[i]]
    BY <1>0, <1>6, <2>2 DEF Upsert, WritePoints
  <2>4. vectors'[d] = IndexOf(r)
    BY <2>3 DEF NoPoints, IndexOf
  <2>5. IndexOf(r)' = IndexOf(r)
    BY <2>1, IndexOfSame DEF Moves
  <2>6. IndexingTask(r)'
    BY <1>2, <2>1, <2>4, <2>5 DEF IndexingTask, Moves, At, PipelineSteps, DeleteSteps
  <2>7. QED
    BY <1>0, <1>1, <1>2, <2>1, <2>6, SerialKeep
<1>7. QED
  BY <1>3, <1>4, <1>5, <1>6

LEMMA SerialCommit ==
  ASSUME TypeOK, SerialInv, NEW r \in Requests, NEW d \in Docs, req[r].doc = d,
         CommitIndexed(r)
  PROVE  SerialInv' /\ chunks'[d] = r /\ status'[d] = "indexed"
<1>1. PICK step \in {"ack", "fail"} : Moves(r, step) /\ UNCHANGED vectors /\ At(r, "commit")
  BY LeaveEffect DEF CommitIndexed, Committed, Steps, WorkerSteps
<1>2. /\ chunks'[d] = r /\ status'[d] = "indexed"
      /\ \A e \in Docs \ {d} : status'[e] = status[e] /\ chunks'[e] = chunks[e]
  BY DEF CommitIndexed, SetStatus, TypeOK
<1>3. Local(r)
  BY <1>1, <1>2 DEF Local, At, Steps, WorkerSteps
<1>4. IndexingTask(r)'
  BY <1>1 DEF IndexingTask, Moves, At, PipelineSteps, DeleteSteps
<1>5. Exact(d)'
  <2>1. vectors[d] = IndexOf(r)
    BY <1>1 DEF SerialInv, IndexingTask
  <2>2. r # NoRun
    BY ConstantsAssumption
  <2>3. req'[r].size = req[r].size
    BY <1>1 DEF Moves
  <2>4. QED
    BY <1>1, <1>2, <2>1, <2>2, <2>3 DEF Exact, IndexOf
<1>6. QED
  BY <1>2, <1>3, <1>4, <1>5, SerialFrame

LEMMA SerialDeletion ==
  ASSUME TypeOK, SerialInv, NEW r \in Requests, NEW d \in Docs, req[r].doc = d,
         DeleteVectors(r) \/ DeleteObjects(r) \/ DeleteRows(r)
  PROVE  SerialInv'
<1>0. /\ {"delObjects", "delRows", "delCommit"} \subseteq Steps
      /\ IndexingTask(r) /\ vectors \in [Docs -> PointMaps]
  BY DEF Steps, WorkerSteps, DeleteSteps, TypeOK, SerialInv, PointMaps
<1>1. /\ req[r].pc \in DeleteSteps /\ UNCHANGED <<status, chunks>>
      /\ \A e \in Docs \ {d} : vectors'[e] = vectors[e]
  BY <1>0 DEF DeleteVectors, DeleteObjects, DeleteRows, At, DeleteSteps
<1>2. status[d] = "deleting" /\ req[r].pc \notin {"idle", "done"}
  BY <1>0, <1>1 DEF IndexingTask, DeleteSteps
<1>3. PICK step \in {"delObjects", "delRows", "delCommit"} :
        /\ Moves(r, step) /\ req'[r].seen = "deleting"
        /\ step = "delCommit" => req'[r].snapshot = chunks[d]
  <2>1. CASE DeleteVectors(r)
    BY <1>2, <2>1, DeleteVectorsEffect
  <2>2. CASE DeleteObjects(r)
    BY <1>0, <2>2, GotoEffect DEF DeleteObjects, IndexingTask, At, DeleteSteps
  <2>3. CASE DeleteRows(r)
    BY <1>0, <2>3, DeleteRowsEffect DEF DeleteRows, IndexingTask, At, DeleteSteps
  <2>4. QED
    BY <2>1, <2>2, <2>3
<1>4. IndexingTask(r)'
  BY <1>1, <1>2, <1>3 DEF IndexingTask, Moves, At, PipelineSteps, DeleteSteps
<1>5. step \in Steps \ {"idle"}
  BY <1>0, <1>3
<1>6. QED
  BY <1>1, <1>2, <1>3, <1>4, <1>5, SerialKeep

LEMMA SerialDeleted ==
  ASSUME TypeOK, SerialInv, NEW r \in Requests, NEW d \in Docs, req[r].doc = d,
         DeleteCommit(r)
  PROVE  SerialInv' /\ chunks'[d] = NoRun /\ status'[d] = "deleted"
<1>1. PICK step \in {"ack", "fail"} :
        Moves(r, step) /\ UNCHANGED vectors /\ At(r, "delCommit")
  BY LeaveEffect DEF DeleteCommit, Committed, Steps, WorkerSteps
<1>2. req[r].seen = "deleting" /\ req[r].snapshot = chunks[d]
  BY <1>1 DEF SerialInv, IndexingTask, At, DeleteSteps
<1>3. /\ chunks'[d] = NoRun /\ status'[d] = "deleted"
      /\ \A e \in Docs \ {d} : status'[e] = status[e] /\ chunks'[e] = chunks[e]
  BY <1>2 DEF DeleteCommit, SetStatus, TypeOK
<1>4. Local(r)
  BY <1>1, <1>3 DEF Local, At, Steps, WorkerSteps
<1>5. IndexingTask(r)'
  BY <1>1 DEF IndexingTask, Moves, At, PipelineSteps, DeleteSteps
<1>6. QED
  BY <1>3, <1>4, <1>5, SerialFrame

LEMMA SerialEnds ==
  ASSUME TypeOK, SerialInv, NEW r \in Requests, NEW d \in Docs, req[r].doc = d,
         PersistFailedJob(r) \/ TerminalFailure(r) \/ Ack(r)
  PROVE  SerialInv'
<1>1. {"done", "terminal", "ack"} \subseteq Steps
  BY DEF Steps, WorkerSteps
<1>2. PICK step \in {"done", "terminal", "ack"} : Moves(r, step)
  BY <1>1, GotoEffect, LeaveEffect, AckEffect DEF PersistFailedJob, TerminalFailure
<1>3. /\ req[r].pc \notin {"idle", "done"} /\ UNCHANGED <<chunks, vectors>>
      /\ \A e \in Docs \ {d} : status'[e] = status[e]
      /\ status'[d] = "indexed" => status[d] = "indexed"
  BY DEF PersistFailedJob, TerminalFailure, Ack, At, SetStatus, TypeOK
<1>4. QED
  BY <1>2, <1>3, SerialLeave

LEMMA SerialFault ==
  ASSUME TypeOK, SerialInv, NEW r \in Requests, NEW d \in Docs, req[r].doc = d,
         WorkerFault(r)
  PROVE  SerialInv'
<1>1. {"queued", "fail"} \subseteq Steps
  BY DEF Steps, WorkerSteps
<1>2. PICK step \in {"queued", "fail"} : Moves(r, step)
  BY <1>1, TransientRetryEffect, LeaveEffect
     DEF WorkerFault, RetriesExhausted, TaskRaises, WorkerLost
<1>3. /\ req[r].pc \in {"queued"} \cup WorkerSteps /\ UNCHANGED <<status, chunks>>
      /\ UNCHANGED vectors \/ PartialEffect(r)
  BY DEF WorkerFault, TransientRetry, RetriesExhausted, TaskRaises, WorkerLost,
     TransientSteps, WorkerSteps, PipelineSteps, DeleteSteps
<1>4. /\ \A e \in Docs \ {d} : vectors'[e] = vectors[e]
      /\ status'[d] = "indexed" => vectors'[d] = vectors[d]
  <2>1. At(r, "upsert") => status[d] = "processing"
    BY DEF SerialInv, IndexingTask, At, PipelineSteps
  <2>2. QED
    BY <1>3, <2>1 DEF PartialEffect, WritePoints, TypeOK
<1>5. req[r].pc \notin {"idle", "done"}
  BY <1>3 DEF WorkerSteps, PipelineSteps, DeleteSteps
<1>6. QED
  BY <1>2, <1>3, <1>4, <1>5, SerialLeave

LEMMA SerialWorker ==
  ASSUME TypeOK, SerialInv, NEW r \in Requests, WorkerStep(r) \/ WorkerFault(r)
  PROVE  SerialInv'
<1>1. PICK d \in Docs : req[r].doc = d
  BY DEF TypeOK, RequestRecord
<1>2. QED
  BY <1>1, SerialBegins, SerialPipeline, SerialCommit, SerialDeletion, SerialDeleted,
     SerialEnds, SerialFault DEF WorkerStep

LEMMA SerialStep ==
  ASSUME Serial = TRUE
  PROVE  TypeOK /\ ErasureInv /\ SerialInv /\ [Next]_vars => SerialInv'
<1> SUFFICES ASSUME TypeOK, ErasureInv, SerialInv, [Next]_vars PROVE SerialInv'
  OBVIOUS
<1>1. CASE UNCHANGED vars
  BY <1>1 DEF vars, SerialInv, OneTaskAtATime, Busy, RunsBegan, IndexIsExact, IndexOf,
     IndexingTask, Exact, At, NoPoints
<1>2. ASSUME NEW r \in Requests, ApiNext(r) PROVE SerialInv'
  <2>1. PICK d \in Docs : req[r].doc = d
    BY DEF TypeOK, RequestRecord
  <2>2. QED
    BY <1>2, <2>1, SerialApi
<1>3. QED
  BY <1>1, <1>2, SerialWorker DEF Next

LEMMA SerialInvariant ==
  ASSUME Serial = TRUE
  PROVE  Spec => []SerialInv
BY SerialInit, SerialStep, TypeCorrect, ErasureInvariant, PTL DEF Spec

\* When a document's tasks do not overlap, an indexed document has exactly one
\* point per committed chunk row, written by the run that wrote the row, whatever
\* is retried, redelivered, lost or fails: no failed run leaves a point behind.
THEOREM IndexIsExactHolds ==
  ASSUME Serial = TRUE
  PROVE  Spec => []IndexIsExact
<1>1. SerialInv => IndexIsExact
  BY DEF SerialInv
<1>2. QED
  BY <1>1, SerialInvariant, PTL

\* When a document's tasks do not overlap, committed chunk rows change only in the
\* transaction that writes indexed or deleted.
THEOREM RowsChangeWithStatusHolds ==
  ASSUME Serial = TRUE
  PROVE  Spec => RowsChangeWithStatus
<1> DEFINE Change ==
      \A d \in Docs : chunks'[d] # chunks[d] =>
        \/ status'[d] = "indexed" /\ chunks'[d] # NoRun
        \/ status'[d] = "deleted" /\ chunks'[d] = NoRun
<1>1. TypeOK /\ SerialInv /\ [Next]_vars => [Change]_vars
  <2> SUFFICES ASSUME TypeOK, SerialInv, Next PROVE Change
    OBVIOUS
  <2>1. PICK r \in Requests : ApiNext(r) \/ WorkerStep(r) \/ WorkerFault(r)
    BY DEF Next
  <2>2. PICK d \in Docs : req[r].doc = d
    BY DEF TypeOK, RequestRecord
  <2>3. CASE CommitIndexed(r)
    <3>1. chunks'[d] = r /\ status'[d] = "indexed" /\ r # NoRun
      BY <2>2, <2>3, SerialCommit, ConstantsAssumption
    <3>2. \A e \in Docs \ {d} : chunks'[e] = chunks[e]
      BY <2>2, <2>3 DEF CommitIndexed, TypeOK
    <3>3. QED
      BY <3>1, <3>2
  <2>4. CASE DeleteCommit(r)
    <3>1. chunks'[d] = NoRun /\ status'[d] = "deleted"
      BY <2>2, <2>4, SerialDeleted
    <3>2. \A e \in Docs \ {d} : chunks'[e] = chunks[e]
      BY <2>2, <2>4 DEF DeleteCommit, TypeOK
    <3>3. QED
      BY <3>1, <3>2
  <2>5. ASSUME ~CommitIndexed(r), ~DeleteCommit(r) PROVE UNCHANGED chunks
    <3>1. ASSUME ApiNext(r) PROVE UNCHANGED chunks
      BY <3>1 DEF ApiNext, UploadPut, LoadForDelete, LoadForRetryDelete,
         LoadForReindex, Load, UploadCommit, UploadRefresh, UploadRollback,
         DeleteRetained, DeleteSkipped, DeleteCommitRequest, RetryDeleteCommit,
         RetryDeleteRefused, ReindexCommit, ReindexRefused, Publish, PublishFails,
         RequestAborted, RetryFailedJob
    <3>2. ASSUME WorkerFault(r) PROVE UNCHANGED chunks
      BY <3>2 DEF WorkerFault, TransientRetry, RetriesExhausted, TaskRaises, WorkerLost
    <3>3. ASSUME WorkerStep(r) PROVE UNCHANGED chunks
      BY <2>5, <3>3 DEF WorkerStep, Begin, BeginBadCall, BeginProcess, BeginReindex,
         BeginDelete, Mark, Extract, DlpPass, DlpWarn, DlpBlock, Cleanup, Chunk, Upsert,
         DeleteVectors, DeleteObjects, DeleteRows, PersistFailedJob, TerminalFailure,
         Ack
    <3>4. QED
      BY <2>1, <3>1, <3>2, <3>3
  <2>6. QED
    BY <2>3, <2>4, <2>5
<1>2. QED
  BY <1>1, SerialInvariant, TypeCorrect, PTL DEF Spec, RowsChangeWithStatus

----------------------------------------------------------------------------
(* Overlapping runs: a document offered for retrieval has its rows.        *)

DeletionKinds == {"delete", "retryDelete"}

\* Nothing deletes, so rows once committed are replaced and never removed, and a
\* re-index that read indexed may write it back.
SawRows(r) ==
  \/ At(r, "loadedReindex")
  \/ At(r, "publish") /\ req[r].task = "reindex"

KeptTask(r) ==
  /\ req[r].task # "delete"
  /\ req[r].pc \notin {"loadedDelete", "loadedRetry"} \cup DeleteSteps
  /\ SawRows(r) /\ req[r].seen = "indexed" => chunks[req[r].doc] # NoRun

RowsKeptInv ==
  /\ IndexedHasChunks
  /\ \A r \in Requests : KeptTask(r)

LEMMA RowsKeptInit == Init => RowsKeptInv
BY DEF Init, RowsKeptInv, IndexedHasChunks, KeptTask, SawRows, At, DeleteSteps

LEMMA RowsKeptFrame ==
  ASSUME TypeOK, RowsKeptInv, NEW r \in Requests, OthersSame(r),
         \A e \in Docs : chunks[e] # NoRun => chunks'[e] # NoRun,
         \A e \in Docs : status'[e] = "indexed" => status[e] = "indexed" \/ chunks'[e] # NoRun,
         KeptTask(r)'
  PROVE  RowsKeptInv'
<1>1. IndexedHasChunks'
  BY DEF RowsKeptInv, IndexedHasChunks
<1>2. ASSUME NEW q \in Requests \ {r} PROVE KeptTask(q)'
  <2>1. req'[q] = req[q] /\ req[q].doc \in Docs /\ KeptTask(q)
    BY DEF OthersSame, TypeOK, RequestRecord, RowsKeptInv
  <2>2. QED
    BY <2>1 DEF KeptTask, SawRows, At
<1>3. QED
  BY <1>1, <1>2 DEF RowsKeptInv

\* Steps after which the request has nothing left to write back.
LEMMA RowsKeptLeave ==
  ASSUME TypeOK, RowsKeptInv, NEW r \in Requests, NEW step, Moves(r, step),
         step \notin {"loadedDelete", "loadedRetry", "loadedReindex", "publish"} \cup DeleteSteps,
         \A e \in Docs : chunks[e] # NoRun => chunks'[e] # NoRun,
         \A e \in Docs : status'[e] = "indexed" => status[e] = "indexed" \/ chunks'[e] # NoRun
  PROVE  RowsKeptInv'
<1>1. KeptTask(r)'
  BY DEF KeptTask, RowsKeptInv, SawRows, At, Moves
<1>2. QED
  BY <1>1, RowsKeptFrame DEF Moves

LEMMA RowsKeptApi ==
  ASSUME Kinds \cap DeletionKinds = {}, TypeOK, ErasureInv, RowsKeptInv,
         NEW r \in Requests, ApiNext(r)
  PROVE  RowsKeptInv'
<1>0. /\ {"refresh", "publish", "queued", "done", "loadedReindex"} \subseteq Steps
      /\ "reindex" \in TaskNames
      /\ req[r].doc \in Docs /\ status \in [Docs -> DocumentStatus]
  BY DEF Steps, ApiSteps, TaskNames, TypeOK, RequestRecord
<1>1. KeptTask(r)
  BY DEF RowsKeptInv
<1>2. ASSUME NEW d \in Docs, UploadPut(r, d) PROVE RowsKeptInv'
  <2>1. KeptTask(r)'
    BY <1>2, PutEffect DEF KeptTask, SawRows, At, DeleteSteps
  <2>2. UNCHANGED <<status, chunks>> /\ OthersSame(r)
    BY <1>2, PutEffect DEF UploadPut
  <2>3. QED
    BY <2>1, <2>2, RowsKeptFrame
<1>3. ASSUME NEW d \in Docs, LoadForReindex(r, d) PROVE RowsKeptInv'
  <2>1. /\ OthersSame(r) /\ req'[r].pc = "loadedReindex" /\ req'[r].doc = d
        /\ req'[r].task = "reindex" /\ req'[r].seen = status[d]
    BY <1>0, <1>3, LoadEffect DEF LoadForReindex
  <2>2. UNCHANGED <<status, chunks>>
    BY <1>3 DEF LoadForReindex, Load
  <2>3. KeptTask(r)'
    BY <2>1, <2>2 DEF KeptTask, SawRows, At, DeleteSteps, RowsKeptInv, IndexedHasChunks
  <2>4. QED
    BY <2>1, <2>2, <2>3, RowsKeptFrame
<1>4. ASSUME NEW d \in Docs, LoadForDelete(r, d) \/ LoadForRetryDelete(r, d) PROVE FALSE
  BY <1>4 DEF LoadForDelete, LoadForRetryDelete, Load, DeletionKinds
<1>5. ASSUME DeleteRetained(r) \/ DeleteSkipped(r) \/ DeleteCommitRequest(r)
             \/ RetryDeleteCommit(r) \/ RetryDeleteRefused(r)
      PROVE  FALSE
  BY <1>1, <1>5 DEF KeptTask, At, DeleteRetained, DeleteSkipped, DeleteCommitRequest,
     RetryDeleteCommit, RetryDeleteRefused
<1>6. CASE UploadCommit(r) \/ UploadRefresh(r)
  <2>1. PICK step \in {"refresh", "publish"} : Moves(r, step) /\ req[r].task = "process"
    BY <1>0, <1>6, GotoEffect
       DEF UploadCommit, UploadRefresh, ErasureInv, PutOwnsDocument, TaskChosen
  <2>2. UNCHANGED chunks
    BY <1>6 DEF UploadCommit, UploadRefresh
  <2>3. \A e \in Docs : status'[e] = "indexed" => status[e] = "indexed"
    BY <1>0, <1>6 DEF UploadCommit, UploadRefresh, SetStatus
  <2>4. KeptTask(r)'
    BY <2>1 DEF KeptTask, SawRows, Moves, At, DeleteSteps
  <2>5. QED
    BY <2>1, <2>2, <2>3, <2>4, RowsKeptFrame DEF Moves
<1>7. CASE ReindexCommit(r)
  <2>1. Moves(r, "publish") /\ req'[r].seen = req[r].seen
    BY <1>0, <1>7, GotoEffect DEF ReindexCommit
  <2>2. UNCHANGED chunks /\ At(r, "loadedReindex")
    BY <1>7 DEF ReindexCommit
  <2>3. \A e \in Docs : status'[e] = "indexed" => status[e] = "indexed"
    BY <1>0, <1>7 DEF ReindexCommit, SetStatus
  <2>4. KeptTask(r)'
    BY <1>1, <2>1, <2>2 DEF KeptTask, SawRows, Moves, At, DeleteSteps
  <2>5. QED
    BY <2>1, <2>2, <2>3, <2>4, RowsKeptFrame DEF Moves
<1>8. CASE UploadRollback(r) \/ ReindexRefused(r) \/ Publish(r) \/ RequestAborted(r)
  <2>1. PICK step \in {"queued", "done"} : Moves(r, step)
    BY <1>0, <1>8, LeaveEffect DEF UploadRollback, ReindexRefused, Publish, RequestAborted
  <2>2. UNCHANGED <<status, chunks>>
    BY <1>8 DEF UploadRollback, ReindexRefused, Publish, RequestAborted
  <2>3. QED
    BY <2>1, <2>2, RowsKeptLeave DEF DeleteSteps
<1>9. CASE PublishFails(r)
  <2>1. Moves(r, "done") /\ UNCHANGED chunks
    BY <1>0, <1>9, LeaveEffect DEF PublishFails
  <2>2. \A e \in Docs : status'[e] = "indexed" => status[e] = "indexed" \/ chunks[e] # NoRun
    BY <1>0, <1>1, <1>9 DEF PublishFails, SetStatus, KeptTask, SawRows, At
  <2>3. QED
    BY <2>1, <2>2, RowsKeptLeave DEF DeleteSteps
<1>10. ASSUME NEW j \in Requests, RetryFailedJob(r, j) PROVE RowsKeptInv'
  <2>1. OthersSame(r) /\ req'[r].pc = "queued" /\ UNCHANGED <<status, chunks>>
    BY <1>10, RetryJobEffect DEF RetryFailedJob
  <2>2. req'[r].task # "delete"
    BY <1>10 DEF RetryFailedJob, RetryableJob, TypeOK, RequestRecord
  <2>3. KeptTask(r)'
    BY <2>1, <2>2 DEF KeptTask, SawRows, At, DeleteSteps
  <2>4. QED
    BY <2>1, <2>2, <2>3, RowsKeptFrame
<1>11. QED
  BY <1>2, <1>3, <1>4, <1>5, <1>6, <1>7, <1>8, <1>9, <1>10 DEF ApiNext

LEMMA RowsKeptWorker ==
  ASSUME TypeOK, RowsKeptInv, NEW r \in Requests, WorkerStep(r)
  PROVE  RowsKeptInv'
<1>0. /\ WorkerSteps \cup {"done"} \subseteq Steps
      /\ KeptTask(r)
      /\ req[r].doc \in Docs /\ status \in [Docs -> DocumentStatus]
      /\ chunks \in [Docs -> Requests \cup {NoRun}]
  BY DEF Steps, TypeOK, RequestRecord, RowsKeptInv
<1>1. ~DeleteVectors(r) /\ ~DeleteObjects(r) /\ ~DeleteRows(r) /\ ~DeleteCommit(r)
  BY <1>0 DEF KeptTask, DeleteVectors, DeleteObjects, DeleteRows, DeleteCommit, At,
     DeleteSteps
<1> DEFINE Onward == {"mark"} \cup PipelineSteps \cup {"fail", "terminal", "ack", "done"}
<1>2. Onward \subseteq Steps
  BY DEF Steps, WorkerSteps
<1>3. PICK step \in Onward : Moves(r, step)
  <2>1. CASE Begin(r)
    BY <1>0, <1>2, <2>1, GotoEffect, LeaveEffect
       DEF Begin, BeginBadCall, BeginProcess, BeginReindex, BeginDelete, KeptTask,
           PipelineSteps
  <2>2. CASE Mark(r) \/ Extract(r) \/ DlpPass(r) \/ DlpWarn(r) \/ DlpBlock(r)
    BY <1>0, <1>2, <2>2, GotoEffect, LeaveEffect
       DEF Mark, Extract, DlpPass, DlpWarn, DlpBlock, KeptTask, PipelineSteps
  <2>3. CASE Cleanup(r) \/ Chunk(r) \/ Upsert(r) \/ CommitIndexed(r)
    BY <1>2, <2>3, GotoEffect, LeaveEffect
       DEF Cleanup, Chunk, Upsert, CommitIndexed, Committed, PipelineSteps
  <2>4. CASE PersistFailedJob(r) \/ TerminalFailure(r) \/ Ack(r)
    BY <1>2, <2>4, GotoEffect, LeaveEffect, AckEffect
       DEF PersistFailedJob, TerminalFailure
  <2>5. QED
    BY <1>1, <2>1, <2>2, <2>3, <2>4 DEF WorkerStep
<1>4. /\ \A e \in Docs : chunks[e] # NoRun => chunks'[e] # NoRun
      /\ \A e \in Docs : status'[e] = "indexed" => status[e] = "indexed" \/ chunks'[e] # NoRun
  <2>1. CASE CommitIndexed(r)
    <3>1. r # NoRun
      BY ConstantsAssumption
    <3>2. QED
      BY <1>0, <2>1, <3>1 DEF CommitIndexed, SetStatus
  <2>2. CASE ~CommitIndexed(r)
    BY <1>0, <1>1, <2>2
       DEF WorkerStep, Begin, BeginBadCall, BeginProcess, BeginReindex, BeginDelete, Mark,
           Extract, DlpPass, DlpWarn, DlpBlock, Cleanup, Chunk, Upsert, PersistFailedJob,
           TerminalFailure, Ack, SetStatus
  <2>3. QED
    BY <2>1, <2>2
<1>5. step \notin {"loadedDelete", "loadedRetry", "loadedReindex", "publish"} \cup DeleteSteps
  BY <1>3 DEF PipelineSteps, DeleteSteps
<1>6. QED
  BY <1>3, <1>4, <1>5, RowsKeptLeave

LEMMA RowsKeptFault ==
  ASSUME TypeOK, RowsKeptInv, NEW r \in Requests, WorkerFault(r)
  PROVE  RowsKeptInv'
<1>1. {"queued", "fail"} \subseteq Steps
  BY DEF Steps, WorkerSteps
<1>2. PICK step \in {"queued", "fail"} : Moves(r, step)
  BY <1>1, TransientRetryEffect, LeaveEffect
     DEF WorkerFault, RetriesExhausted, TaskRaises, WorkerLost
<1>3. UNCHANGED <<status, chunks>>
  BY DEF WorkerFault, TransientRetry, RetriesExhausted, TaskRaises, WorkerLost
<1>4. QED
  BY <1>2, <1>3, RowsKeptLeave DEF DeleteSteps

LEMMA RowsKeptInvariant ==
  ASSUME Kinds \cap DeletionKinds = {}
  PROVE  Spec => []RowsKeptInv
<1>1. TypeOK /\ ErasureInv /\ RowsKeptInv /\ [Next]_vars => RowsKeptInv'
  <2> SUFFICES ASSUME TypeOK, ErasureInv, RowsKeptInv, [Next]_vars PROVE RowsKeptInv'
    OBVIOUS
  <2>1. CASE UNCHANGED vars
    BY <2>1 DEF vars, RowsKeptInv, IndexedHasChunks, KeptTask, SawRows, At
  <2>2. QED
    BY <2>1, RowsKeptApi, RowsKeptWorker, RowsKeptFault DEF Next
<1>2. QED
  BY <1>1, RowsKeptInit, TypeCorrect, ErasureInvariant, PTL DEF Spec

\* When nothing is being deleted, a document is never offered for retrieval
\* without committed chunk rows, however runs overlap, fail and are repeated: a
\* re-index that could not be published writes indexed back only over rows.
THEOREM IndexedHasChunksHolds ==
  ASSUME Kinds \cap DeletionKinds = {}
  PROVE  Spec => []IndexedHasChunks
<1>1. RowsKeptInv => IndexedHasChunks
  BY DEF RowsKeptInv
<1>2. QED
  BY <1>1, RowsKeptInvariant, PTL

----------------------------------------------------------------------------
(* Overlapping runs: the row locks keep the index complete.                *)

RowSteps == {"chunk", "upsert", "commit"}
Indexing(q, d) == req[q].doc = d /\ req[q].pc \in RowSteps

Complete(run, d) == \A i \in 1..req[run].size : vectors[d][i] = run

\* The points of the committed run are there, or a run that has deleted them is
\* to commit its own.
CommittedOrIndexing(d) ==
  chunks[d] # NoRun => Complete(chunks[d], d) \/ \E q \in Requests : Indexing(q, d)

\* A run that has upserted holds the rows: another can delete its points, and
\* then waits for the rows, but cannot write points before it has them.
HoldsRows(r) ==
  /\ req[r].pc \in {"upsert", "commit"} => lock[req[r].doc] = r
  /\ At(r, "commit") =>
       \/ Complete(r, req[r].doc)
       \/ \E q \in Requests : At(q, "chunk") /\ req[q].doc = req[r].doc

OverlapInv ==
  /\ RunsBegan
  /\ \A d \in Docs : CommittedOrIndexing(d)
  /\ \A r \in Requests : HoldsRows(r)

LEMMA OverlapInit == Init => OverlapInv
BY DEF Init, OverlapInv, RunsBegan, CommittedOrIndexing, HoldsRows, At

\* What r leaves alone: the size of every run there is, and what others do.
KeepsSizes(r) ==
  /\ OthersSame(r)
  /\ req'[r].pc # "idle"
  /\ At(r, "idle") \/ req'[r].size = req[r].size

LEMMA MovesKeepsSizes ==
  ASSUME NEW r \in Requests, NEW step, step # "idle", Moves(r, step)
  PROVE  KeepsSizes(r)
BY DEF Moves, KeepsSizes

LEMMA CompleteSame ==
  ASSUME TypeOK, NEW r \in Requests, KeepsSizes(r), NEW run \in Requests,
         ~At(run, "idle"), NEW d \in Docs, vectors'[d] = vectors[d]
  PROVE  Complete(run, d)' <=> Complete(run, d)
<1>1. req'[run].size = req[run].size
  BY DEF KeepsSizes, OthersSame, At
<1>2. QED
  BY <1>1 DEF Complete

\* A step on document d alone: what is left to show is about d.
LEMMA OverlapFrame ==
  ASSUME TypeOK, OverlapInv, NEW r \in Requests, NEW d \in Docs,
         KeepsSizes(r), req[r].doc = d, req'[r].doc = d,
         chunks'[d] \in {r, chunks[d]},
         \A e \in Docs \ {d} :
           chunks'[e] = chunks[e] /\ vectors'[e] = vectors[e] /\ lock'[e] = lock[e],
         CommittedOrIndexing(d)',
         \A q \in Requests : req'[q].doc = d => HoldsRows(q)'
  PROVE  OverlapInv'
<1>1. /\ \A q \in Requests \ {r} : req'[q] = req[q]
      /\ \A q \in Requests : req[q].doc \in Docs
      /\ \A e \in Docs : chunks[e] \in Requests \cup {NoRun}
  BY DEF KeepsSizes, OthersSame, TypeOK, RequestRecord
<1>2. RunsBegan'
  BY <1>1 DEF OverlapInv, RunsBegan, At, KeepsSizes
<1>3. ASSUME NEW e \in Docs \ {d} PROVE CommittedOrIndexing(e)'
  <2> SUFFICES ASSUME chunks[e] # NoRun
               PROVE  Complete(chunks[e], e)' \/ \E q \in Requests : Indexing(q, e)'
    BY DEF CommittedOrIndexing
  <2>1. CASE Complete(chunks[e], e)
    BY <1>1, <2>1, CompleteSame DEF OverlapInv, RunsBegan
  <2>2. CASE \E q \in Requests : Indexing(q, e)
    BY <1>1, <2>2 DEF Indexing
  <2>3. QED
    BY <2>1, <2>2 DEF OverlapInv, CommittedOrIndexing
<1>4. ASSUME NEW q \in Requests, req'[q].doc # d PROVE HoldsRows(q)'
  <2>1. /\ q # r /\ req'[q] = req[q] /\ req[q].doc \in Docs \ {d}
        /\ lock'[req[q].doc] = lock[req[q].doc]
        /\ HoldsRows(q)
    BY <1>1, <1>4 DEF OverlapInv
  <2>2. ~At(q, "idle") => (Complete(q, req[q].doc)' <=> Complete(q, req[q].doc))
    <3> DEFINE e == req[q].doc
    <3>1. e \in Docs /\ vectors'[e] = vectors[e]
      BY <2>1
    <3>2. ~At(q, "idle") => (Complete(q, e)' <=> Complete(q, e))
      BY <2>1, <3>1, CompleteSame DEF At
    <3>3. QED
      BY <2>1, <3>2
  <2>3. ASSUME At(q, "commit"), ~Complete(q, req[q].doc)
        PROVE  \E p \in Requests : At(p, "chunk")' /\ req'[p].doc = req[q].doc
    <3>1. PICK p \in Requests : At(p, "chunk") /\ req[p].doc = req[q].doc
      BY <2>1, <2>3 DEF HoldsRows
    <3>2. p # r
      BY <2>1, <3>1
    <3>3. QED
      BY <1>1, <3>1, <3>2 DEF At
  <2>4. QED
    BY <2>1, <2>2, <2>3 DEF HoldsRows, At
<1>5. QED
  BY <1>2, <1>3, <1>4 DEF OverlapInv

\* Steps that do not concern rows and points.
LEMMA OverlapKeep ==
  ASSUME TypeOK, OverlapInv, NEW r \in Requests, KeepsSizes(r),
         req[r].pc \notin RowSteps, req'[r].pc \notin RowSteps,
         UNCHANGED <<chunks, vectors, lock>>
  PROVE  OverlapInv'
<1>1. /\ \A q \in Requests \ {r} : req'[q] = req[q]
      /\ \A q \in Requests : req[q].doc \in Docs
      /\ \A e \in Docs : chunks[e] \in Requests \cup {NoRun}
  BY DEF KeepsSizes, OthersSame, TypeOK, RequestRecord
<1>2. RunsBegan'
  BY <1>1 DEF OverlapInv, RunsBegan, At, KeepsSizes
<1>3. ASSUME NEW e \in Docs PROVE CommittedOrIndexing(e)'
  <2> SUFFICES ASSUME chunks[e] # NoRun
               PROVE  Complete(chunks[e], e)' \/ \E q \in Requests : Indexing(q, e)'
    BY DEF CommittedOrIndexing
  <2>1. CASE Complete(chunks[e], e)
    BY <1>1, <2>1, CompleteSame DEF OverlapInv, RunsBegan
  <2>2. CASE \E q \in Requests : Indexing(q, e)
    BY <1>1, <2>2 DEF Indexing
  <2>3. QED
    BY <2>1, <2>2 DEF OverlapInv, CommittedOrIndexing
<1>4. ASSUME NEW q \in Requests PROVE HoldsRows(q)'
  <2>1. CASE q = r
    BY <2>1 DEF HoldsRows, At, RowSteps
  <2>2. CASE q # r
    <3>1. req'[q] = req[q] /\ req[q].doc \in Docs /\ HoldsRows(q)
      BY <1>1, <2>2 DEF OverlapInv
    <3>2. At(q, "commit") => (Complete(q, req[q].doc)' <=> Complete(q, req[q].doc))
      <4> DEFINE e == req[q].doc
      <4>1. At(q, "commit") => (Complete(q, e)' <=> Complete(q, e))
        BY <3>1, CompleteSame DEF At
      <4>2. QED
        BY <3>1, <4>1
    <3>3. \A p \in Requests : At(p, "chunk") => At(p, "chunk")' /\ req'[p].doc = req[p].doc
      BY <1>1 DEF At, RowSteps
    <3>4. QED
      BY <3>1, <3>2, <3>3 DEF HoldsRows, At
  <2>3. QED
    BY <2>1, <2>2
<1>5. QED
  BY <1>2, <1>3, <1>4 DEF OverlapInv

\* Deleting the points: the run that does it is then to index the document.
LEMMA OverlapCleanup ==
  ASSUME TypeOK, OverlapInv, NEW r \in Requests, NEW d \in Docs, req[r].doc = d, Cleanup(r)
  PROVE  OverlapInv'
<1>1. Moves(r, "chunk") /\ At(r, "cleanup")
  BY GotoEffect DEF Cleanup, Steps, WorkerSteps, PipelineSteps
<1>2. /\ UNCHANGED <<chunks, lock>>
      /\ \A e \in Docs \ {d} : vectors'[e] = vectors[e]
  BY DEF Cleanup, TypeOK
<1>3. At(r, "chunk")' /\ req'[r].doc = d /\ \A q \in Requests \ {r} : req'[q] = req[q]
  BY <1>1 DEF Moves, At, OthersSame
<1>4. CommittedOrIndexing(d)'
  BY <1>3 DEF CommittedOrIndexing, Indexing, At, RowSteps
<1>5. ASSUME NEW q \in Requests, req'[q].doc = d PROVE HoldsRows(q)'
  BY <1>2, <1>3, <1>5 DEF HoldsRows, OverlapInv, At
<1>6. QED
  BY <1>1, <1>2, <1>3, <1>4, <1>5, OverlapFrame, MovesKeepsSizes

\* Taking the rows: no run of the document is between its upsert and its commit.
LEMMA OverlapChunk ==
  ASSUME TypeOK, OverlapInv, NEW r \in Requests, NEW d \in Docs, req[r].doc = d, Chunk(r)
  PROVE  OverlapInv'
<1>1. Moves(r, "upsert") /\ At(r, "chunk")
  BY GotoEffect DEF Chunk, Steps, WorkerSteps, PipelineSteps
<1>2. /\ UNCHANGED <<chunks, vectors>>
      /\ lock[d] = NoRun /\ lock'[d] = r
      /\ \A e \in Docs \ {d} : lock'[e] = lock[e]
  BY DEF Chunk, TypeOK
<1>3. req'[r].pc = "upsert" /\ req'[r].doc = d /\ \A q \in Requests \ {r} : req'[q] = req[q]
  BY <1>1 DEF Moves, OthersSame
<1>4. CommittedOrIndexing(d)'
  BY <1>3 DEF CommittedOrIndexing, Indexing, RowSteps
<1>5. ASSUME NEW q \in Requests, req'[q].doc = d PROVE HoldsRows(q)'
  <2>1. CASE q = r
    BY <1>2, <1>3, <2>1 DEF HoldsRows, At
  <2>2. CASE q # r
    <3>1. req[q].pc \notin {"upsert", "commit"}
      BY <1>2, <1>3, <1>5, <2>2, ConstantsAssumption DEF OverlapInv, HoldsRows
    <3>2. QED
      BY <1>3, <2>2, <3>1 DEF HoldsRows, At
  <2>3. QED
    BY <2>1, <2>2
<1>6. QED
  BY <1>1, <1>2, <1>3, <1>4, <1>5, OverlapFrame, MovesKeepsSizes

\* Writing the points under the row lock: they are complete.
LEMMA OverlapUpsert ==
  ASSUME TypeOK, OverlapInv, NEW r \in Requests, NEW d \in Docs, req[r].doc = d, Upsert(r)
  PROVE  OverlapInv'
<1>1. Moves(r, "commit") /\ At(r, "upsert")
  BY GotoEffect DEF Upsert, Steps, WorkerSteps, PipelineSteps
<1>2. /\ UNCHANGED <<chunks, lock>>
      /\ \A e \in Docs \ {d} : vectors'[e] = vectors[e]
      /\ vectors'[d] = [i \in Points |-> IF i <= req[r].size THEN r ELSE vectors[d][i]]
  BY DEF Upsert, WritePoints, TypeOK
<1>3. /\ req'[r].pc = "commit" /\ req'[r].doc = d /\ req'[r].size = req[r].size
      /\ \A q \in Requests \ {r} : req'[q] = req[q]
  BY <1>1 DEF Moves, OthersSame
<1>4. Complete(r, d)'
  <2>1. req[r].size \in 1..MaxChunks /\ MaxChunks \in Nat
    BY ConstantsAssumption DEF TypeOK, RequestRecord, Points
  <2>2. \A i \in 1..req[r].size : i \in Points /\ i <= req[r].size
    BY <2>1 DEF Points
  <2>3. QED
    BY <1>2, <1>3, <2>2 DEF Complete
<1>5. CommittedOrIndexing(d)'
  BY <1>3 DEF CommittedOrIndexing, Indexing, RowSteps
<1>6. ASSUME NEW q \in Requests, req'[q].doc = d PROVE HoldsRows(q)'
  <2>1. lock[d] = r
    BY <1>1 DEF OverlapInv, HoldsRows, At
  <2>2. CASE q = r
    BY <1>2, <1>3, <1>4, <2>1, <2>2 DEF HoldsRows, At
  <2>3. CASE q # r
    <3>1. req[q].pc \notin {"upsert", "commit"}
      BY <1>3, <1>6, <2>1, <2>3 DEF OverlapInv, HoldsRows
    <3>2. QED
      BY <1>3, <2>3, <3>1 DEF HoldsRows, At
  <2>4. QED
    BY <2>2, <2>3
<1>7. QED
  BY <1>1, <1>2, <1>3, <1>5, <1>6, OverlapFrame, MovesKeepsSizes

\* Committing: the points are the run's own, or somebody is waiting for the rows.
LEMMA OverlapCommit ==
  ASSUME TypeOK, OverlapInv, NEW r \in Requests, NEW d \in Docs, req[r].doc = d,
         CommitIndexed(r)
  PROVE  OverlapInv'
<1>1. PICK step \in {"ack", "fail"} : Moves(r, step) /\ At(r, "commit")
  BY LeaveEffect DEF CommitIndexed, Committed, Steps, WorkerSteps
<1>2. /\ UNCHANGED vectors /\ chunks'[d] = r
      /\ \A e \in Docs \ {d} : chunks'[e] = chunks[e] /\ lock'[e] = lock[e]
  BY DEF CommitIndexed, ReleaseRows, TypeOK
<1>3. /\ req'[r].pc \in {"ack", "fail"} /\ req'[r].doc = d
      /\ \A q \in Requests \ {r} : req'[q] = req[q]
  BY <1>1 DEF Moves, OthersSame
<1>4. lock[d] = r /\ HoldsRows(r)
  BY <1>1 DEF OverlapInv, HoldsRows, At
<1>5. CommittedOrIndexing(d)'
  <2>1. CASE Complete(r, d)
    <3>1. Complete(r, d)'
      BY <1>1, <1>2, <2>1, CompleteSame, MovesKeepsSizes DEF At
    <3>2. QED
      BY <1>2, <3>1 DEF CommittedOrIndexing
  <2>2. CASE ~Complete(r, d)
    <3>1. PICK q \in Requests : At(q, "chunk") /\ req[q].doc = d
      BY <1>1, <1>4, <2>2 DEF HoldsRows
    <3>2. q # r
      BY <1>1, <3>1 DEF At
    <3>3. QED
      BY <1>3, <3>1, <3>2 DEF CommittedOrIndexing, Indexing, At, RowSteps
  <2>3. QED
    BY <2>1, <2>2
<1>6. ASSUME NEW q \in Requests, req'[q].doc = d PROVE HoldsRows(q)'
  <2>1. req'[q].pc \notin {"upsert", "commit"}
    BY <1>3, <1>4, <1>6 DEF OverlapInv, HoldsRows
  <2>2. QED
    BY <2>1 DEF HoldsRows, At
<1>7. QED
  BY <1>1, <1>2, <1>3, <1>5, <1>6, OverlapFrame, MovesKeepsSizes

LEMMA OverlapApi ==
  ASSUME TypeOK, OverlapInv, NEW r \in Requests, ApiNext(r)
  PROVE  OverlapInv'
<1>0. {"refresh", "publish", "queued", "done", "loadedDelete", "loadedRetry",
       "loadedReindex"} \subseteq Steps /\ {"reindex", "delete"} \subseteq TaskNames
  BY DEF Steps, ApiSteps, TaskNames
<1>1. UNCHANGED <<chunks, vectors, lock>> /\ req[r].pc \notin RowSteps
  BY DEF ApiNext, UploadPut, LoadForDelete, LoadForRetryDelete, LoadForReindex, Load,
     UploadCommit, UploadRefresh, UploadRollback, DeleteRetained, DeleteSkipped,
     DeleteCommitRequest, RetryDeleteCommit, RetryDeleteRefused, ReindexCommit,
     ReindexRefused, Publish, PublishFails, RequestAborted, RetryFailedJob, At, ApiSteps,
     RowSteps
<1>2. CASE At(r, "idle")
  <2>1. OthersSame(r) /\ req'[r].pc \in {"put", "loadedDelete", "loadedRetry",
                                         "loadedReindex", "queued"}
    <3>1. ASSUME NEW d \in Docs, UploadPut(r, d)
          PROVE  OthersSame(r) /\ req'[r].pc = "put"
      BY <3>1, PutEffect
    <3>2. ASSUME NEW d \in Docs, LoadForDelete(r, d)
          PROVE  OthersSame(r) /\ req'[r].pc = "loadedDelete"
      <4>1. Load(r, d, "delete", "delete", "loadedDelete")
        BY <3>2 DEF LoadForDelete
      <4>2. "delete" \in TaskNames /\ "loadedDelete" \in Steps
        BY <1>0
      <4>3. QED
        BY <4>1, <4>2, LoadEffect, SMTT(30)
    <3>3. ASSUME NEW d \in Docs, LoadForRetryDelete(r, d)
          PROVE  OthersSame(r) /\ req'[r].pc = "loadedRetry"
      <4>1. Load(r, d, "retryDelete", "delete", "loadedRetry")
        BY <3>3 DEF LoadForRetryDelete
      <4>2. "delete" \in TaskNames /\ "loadedRetry" \in Steps
        BY <1>0
      <4>3. QED
        BY <4>1, <4>2, LoadEffect, SMTT(30)
    <3>4. ASSUME NEW d \in Docs, LoadForReindex(r, d)
          PROVE  OthersSame(r) /\ req'[r].pc = "loadedReindex"
      <4>1. Load(r, d, "reindex", "reindex", "loadedReindex")
        BY <3>4 DEF LoadForReindex
      <4>2. "reindex" \in TaskNames /\ "loadedReindex" \in Steps
        BY <1>0
      <4>3. QED
        BY <4>1, <4>2, LoadEffect, SMTT(30)
    <3>5. ASSUME NEW j \in Requests, RetryFailedJob(r, j)
          PROVE  OthersSame(r) /\ req'[r].pc = "queued"
      BY <3>5, RetryJobEffect
    <3>6. QED
      BY <1>2, <3>1, <3>2, <3>3, <3>4, <3>5
         DEF ApiNext, UploadCommit, UploadRefresh, UploadRollback, DeleteRetained,
             DeleteSkipped, DeleteCommitRequest, RetryDeleteCommit, RetryDeleteRefused, ReindexCommit,
             ReindexRefused, Publish, PublishFails, RequestAborted, At, ApiSteps
  <2>2. KeepsSizes(r) /\ req'[r].pc \notin RowSteps
    BY <1>2, <2>1 DEF KeepsSizes, RowSteps
  <2>3. QED
    BY <1>1, <2>2, OverlapKeep
<1>3. CASE ~At(r, "idle")
  <2>1. PICK step \in {"refresh", "publish", "queued", "done"} : Moves(r, step)
    BY <1>0, <1>3, GotoEffect, LeaveEffect
       DEF ApiNext, UploadPut, LoadForDelete, LoadForRetryDelete, LoadForReindex, Load,
           UploadCommit, UploadRefresh, UploadRollback, DeleteRetained, DeleteSkipped,
           DeleteCommitRequest, RetryDeleteCommit, RetryDeleteRefused, ReindexCommit,
           ReindexRefused, Publish, PublishFails, RequestAborted, RetryFailedJob
  <2>2. KeepsSizes(r)
    BY <2>1, MovesKeepsSizes
  <2>3. req'[r].pc \notin RowSteps
    BY <2>1 DEF Moves, RowSteps
  <2>4. QED
    BY <1>1, <2>2, <2>3, OverlapKeep
<1>4. QED
  BY <1>2, <1>3

\* The steps of a task on either side of the work on rows and points.
LEMMA OverlapAround ==
  ASSUME TypeOK, RowsKeptInv, OverlapInv, NEW r \in Requests,
         Begin(r) \/ Mark(r) \/ Extract(r) \/ DlpPass(r) \/ DlpWarn(r) \/ DlpBlock(r)
         \/ PersistFailedJob(r) \/ TerminalFailure(r) \/ Ack(r)
  PROVE  OverlapInv'
<1> DEFINE Around ==
      {"mark", "extract", "dlp", "cleanup", "fail", "terminal", "ack", "done"}
<1>1. /\ Around \subseteq Steps /\ KeptTask(r)
  BY DEF Steps, WorkerSteps, PipelineSteps, RowsKeptInv
<1>2. PICK step \in Around : Moves(r, step)
  <2>1. CASE Begin(r)
    BY <1>1, <2>1, GotoEffect, LeaveEffect
       DEF Begin, BeginBadCall, BeginProcess, BeginReindex, BeginDelete, KeptTask
  <2>2. CASE Mark(r) \/ Extract(r) \/ DlpPass(r) \/ DlpWarn(r) \/ DlpBlock(r)
    BY <1>1, <2>2, GotoEffect, LeaveEffect
       DEF Mark, Extract, DlpPass, DlpWarn, DlpBlock, KeptTask
  <2>3. CASE PersistFailedJob(r) \/ TerminalFailure(r) \/ Ack(r)
    BY <1>1, <2>3, GotoEffect, LeaveEffect, AckEffect DEF PersistFailedJob, TerminalFailure
  <2>4. QED
    BY <2>1, <2>2, <2>3
<1>3. UNCHANGED <<chunks, vectors, lock>> /\ req[r].pc \notin RowSteps
  BY DEF Begin, BeginBadCall, BeginProcess, BeginReindex, BeginDelete, Mark, Extract,
     DlpPass, DlpWarn, DlpBlock, PersistFailedJob, TerminalFailure, Ack, At, RowSteps
<1>4. KeepsSizes(r) /\ req'[r].pc \notin RowSteps
  BY <1>2, MovesKeepsSizes DEF Moves, RowSteps
<1>5. QED
  BY <1>3, <1>4, OverlapKeep

LEMMA OverlapWorker ==
  ASSUME TypeOK, RowsKeptInv, OverlapInv, NEW r \in Requests, WorkerStep(r)
  PROVE  OverlapInv'
<1>1. PICK d \in Docs : req[r].doc = d
  BY DEF TypeOK, RequestRecord
<1>2. ~DeleteVectors(r) /\ ~DeleteObjects(r) /\ ~DeleteRows(r) /\ ~DeleteCommit(r)
  BY DEF RowsKeptInv, KeptTask, DeleteVectors, DeleteObjects, DeleteRows, DeleteCommit,
     At, DeleteSteps
<1>3. QED
  BY <1>1, <1>2, OverlapAround, OverlapCleanup, OverlapChunk, OverlapUpsert, OverlapCommit
     DEF WorkerStep

NoTaskFails == Faults \cap {"transient", "permanent"} = {} /\ MaxCrashes = 0

LEMMA OverlapInvariant ==
  ASSUME Kinds \cap DeletionKinds = {}, NoTaskFails
  PROVE  Spec => []OverlapInv
<1>1. TypeOK /\ RowsKeptInv /\ OverlapInv /\ [Next]_vars => OverlapInv'
  <2> SUFFICES ASSUME TypeOK, RowsKeptInv, OverlapInv, [Next]_vars PROVE OverlapInv'
    OBVIOUS
  <2>1. CASE UNCHANGED vars
    BY <2>1 DEF vars, OverlapInv, RunsBegan, CommittedOrIndexing, HoldsRows, Indexing,
       Complete, At
  <2>2. ASSUME NEW r \in Requests PROVE ~WorkerFault(r)
    <3>1. ~(crashes < MaxCrashes)
      BY DEF NoTaskFails, TypeOK
    <3>2. QED
      BY <3>1 DEF NoTaskFails, WorkerFault, TransientRetry, RetriesExhausted, TaskRaises,
         WorkerLost
  <2>3. QED
    BY <2>1, <2>2, OverlapApi, OverlapWorker DEF Next
<1>2. QED
  BY <1>1, OverlapInit, TypeCorrect, RowsKeptInvariant, PTL DEF Spec

\* When nothing is being deleted and no task body fails part-way, an indexed
\* document on which nothing is running has a point of the committing run for each
\* of its chunk rows, in whatever order overlapping runs delete points, take the
\* rows, upsert and commit: the lock on the rows covers the upsert.
THEOREM IndexIsCompleteHolds ==
  ASSUME Kinds \cap DeletionKinds = {}, NoTaskFails
  PROVE  Spec => []IndexIsComplete
<1>1. RowsKeptInv /\ OverlapInv => IndexIsComplete
  <2> SUFFICES ASSUME RowsKeptInv, OverlapInv, NEW d \in Docs,
                      status[d] = "indexed", Quiet(d)
               PROVE  chunks[d] # NoRun /\ Complete(chunks[d], d)
    BY DEF IndexIsComplete, Complete
  <2>1. chunks[d] # NoRun
    BY DEF RowsKeptInv, IndexedHasChunks
  <2>2. \A q \in Requests : ~Indexing(q, d)
    BY DEF Quiet, Busy, Indexing, RowSteps
  <2>3. QED
    BY <2>1, <2>2 DEF OverlapInv, CommittedOrIndexing
<1>2. QED
  BY <1>1, RowsKeptInvariant, OverlapInvariant, PTL
=============================================================================
