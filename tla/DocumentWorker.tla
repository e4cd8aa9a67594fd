--------------------------- MODULE DocumentWorker ---------------------------
(***************************************************************************)
(* The Celery tasks documents.process, documents.reindex and               *)
(* documents.delete.  Acknowledgement is late and a lost worker's message  *)
(* is requeued, so a task may run again from the start after any of its    *)
(* steps, its last one included.  Reading the status and writing the first *)
(* new one are two transactions; the writes to Qdrant and MinIO take       *)
(* effect at once and are never rolled back; page and chunk rows change    *)
(* together with the final status in one Postgres transaction.             *)
(***************************************************************************)
EXTENDS DocumentStore

----------------------------------------------------------------------------
(* A task's first steps: the status decides whether there is work to do.   *)

\* An unexpected keyword argument fails the call before the body runs.
BeginBadCall(r) ==
  /\ At(r, "queued")
  /\ req[r].unknownArg
  /\ Leave(r, "fail")
  /\ UNCHANGED <<status, content, held, object, chunks, vectors, lock, failedJobs,
                 crashes>>

BeginProcess(r) ==
  /\ At(r, "queued") /\ ~req[r].unknownArg /\ req[r].task = "process"
  /\ Goto(r, IF status[req[r].doc] \in {"processing", "indexed", "deleted"}
               THEN "ack" ELSE "mark")
  /\ UNCHANGED <<status, content, held, object, chunks, vectors, lock, failedJobs,
                 crashes>>

BeginReindex(r) ==
  /\ At(r, "queued") /\ ~req[r].unknownArg /\ req[r].task = "reindex"
  /\ LET s == status[req[r].doc]
     IN Goto(r, IF s \in {"deleted", "deleting"} THEN "fail"
                ELSE IF s = "processing" THEN "extract" ELSE "mark")
  /\ UNCHANGED <<status, content, held, object, chunks, vectors, lock, failedJobs,
                 crashes>>

\* Mutant: a document already deleting is left to whoever set that.
BeginDeleteSkipping(r) ==
  /\ At(r, "queued") /\ ~req[r].unknownArg /\ req[r].task = "delete"
  /\ Goto(r, IF status[req[r].doc] \in {"deleting", "deleted"} THEN "ack" ELSE "mark")
  /\ UNCHANGED <<status, content, held, object, chunks, vectors, lock, failedJobs,
                 crashes>>

BeginDelete(r) ==
  /\ At(r, "queued") /\ ~req[r].unknownArg /\ req[r].task = "delete"
  /\ LET s == status[req[r].doc]
     IN Goto(r, IF s = "deleted" THEN "ack"
                ELSE IF s = "deleting" THEN "delVectors" ELSE "mark")
  /\ UNCHANGED <<status, content, held, object, chunks, vectors, lock, failedJobs,
                 crashes>>

\* Blind write of the working status, in a transaction of its own.
Mark(r) ==
  /\ At(r, "mark")
  /\ IF req[r].task = "delete"
       THEN SetStatus(r, "deleting") /\ Goto(r, "delVectors")
       ELSE SetStatus(r, "processing") /\ Goto(r, "extract")
  /\ UNCHANGED <<content, held, object, chunks, vectors, lock, failedJobs, crashes>>

----------------------------------------------------------------------------
(* The indexing pipeline.                                                  *)

\* Read the object, extract and clean its text.  A missing object and bytes
\* with no usable text are permanent errors.
Extract(r) ==
  /\ At(r, "extract")
  /\ LET d == req[r].doc
     IN Goto(r, IF object[d] /\ content[d] # "corrupt" THEN "dlp" ELSE "fail")
  /\ UNCHANGED <<status, content, held, object, chunks, vectors, lock, failedJobs,
                 crashes>>

DlpPass(r) ==
  /\ At(r, "dlp")
  /\ content[req[r].doc] = "clean"
  /\ Goto(r, "cleanup")
  /\ UNCHANGED <<status, content, held, object, chunks, vectors, lock, failedJobs,
                 crashes>>

\* A warning stores the findings and writes the status processing with them.
DlpWarn(r) ==
  /\ At(r, "dlp")
  /\ content[req[r].doc] = "warn"
  /\ SetStatus(r, "processing")
  /\ Goto(r, "cleanup")
  /\ UNCHANGED <<content, held, object, chunks, vectors, lock, failedJobs, crashes>>

\* A blocking verdict is committed, then raised as a permanent error.
DlpBlock(r) ==
  /\ At(r, "dlp")
  /\ content[req[r].doc] \in {"quarantine", "reject"}
  /\ SetStatus(r, IF content[req[r].doc] = "quarantine"
                    THEN "quarantined" ELSE "blocked")
  /\ Leave(r, "fail")
  /\ UNCHANGED <<content, held, object, chunks, vectors, lock, failedJobs, crashes>>

NoPoints == [i \in Points |-> NoRun]

\* Mutant: old points are left to be overwritten by the new ones.
CleanupSkipped(r) ==
  /\ At(r, "cleanup")
  /\ Goto(r, "chunk")
  /\ UNCHANGED <<status, content, held, object, chunks, vectors, lock, failedJobs,
                 crashes>>

\* Delete the document's points of the index version.
Cleanup(r) ==
  /\ At(r, "cleanup")
  /\ vectors' = [vectors EXCEPT ![req[r].doc] = NoPoints]
  /\ Goto(r, "chunk")
  /\ UNCHANGED <<status, content, held, object, chunks, lock, failedJobs, crashes>>

\* Mutant: the chunk rows have no unique key for a second run to wait on.
ChunkUnlocked(r) ==
  /\ At(r, "chunk")
  /\ lock' = [lock EXCEPT ![req[r].doc] = r]
  /\ Goto(r, "upsert")
  /\ UNCHANGED <<status, content, held, object, chunks, vectors, failedJobs, crashes>>

\* Mutant: the chunk rows are committed when they are written.
ChunkCommitting(r) ==
  /\ At(r, "chunk")
  /\ lock[req[r].doc] = NoRun
  /\ chunks' = [chunks EXCEPT ![req[r].doc] = r]
  /\ Goto(r, "upsert")
  /\ UNCHANGED <<status, content, held, object, vectors, lock, failedJobs, crashes>>

\* Replace the page rows, then the chunk rows, uncommitted: a second run of
\* the document waits here, on the unique key of its first page.
Chunk(r) ==
  /\ At(r, "chunk")
  /\ lock[req[r].doc] = NoRun
  /\ lock' = [lock EXCEPT ![req[r].doc] = r]
  /\ Goto(r, "upsert")
  /\ UNCHANGED <<status, content, held, object, chunks, vectors, failedJobs, crashes>>

\* Mutant: the last point of the run is not written.
WritePointsShort(r, n) ==
  vectors' = [vectors EXCEPT ![req[r].doc] =
                [i \in Points |-> IF i < n THEN r ELSE @[i]]]

\* The first n points of the run overwrite the points of those ids.
WritePoints(r, n) ==
  vectors' = [vectors EXCEPT ![req[r].doc] =
                [i \in Points |-> IF i <= n THEN r ELSE @[i]]]

\* Mutant: the document is indexed as soon as its points are.
UpsertIndexing(r) ==
  /\ At(r, "upsert")
  /\ WritePoints(r, req[r].size)
  /\ SetStatus(r, "indexed")
  /\ Goto(r, "commit")
  /\ UNCHANGED <<content, held, object, chunks, lock, failedJobs, crashes>>

\* Embed the chunks and upsert their points, before the chunk rows commit.
Upsert(r) ==
  /\ At(r, "upsert")
  /\ WritePoints(r, req[r].size)
  /\ Goto(r, "commit")
  /\ UNCHANGED <<status, content, held, object, chunks, lock, failedJobs, crashes>>

\* A task's last commit: when it succeeds but its acknowledgement is lost, the
\* body raises and the task fails all the same.
Committed(r) ==
  \/ Leave(r, "ack")
  \/ "permanent" \in Faults /\ Leave(r, "fail")

\* Pages, chunk rows and the status indexed become visible together; the
\* status is refreshed before it is written, so the write is unconditional.
CommitIndexed(r) ==
  /\ At(r, "commit")
  /\ chunks' = [chunks EXCEPT ![req[r].doc] = r]
  /\ SetStatus(r, "indexed")
  /\ ReleaseRows(r)
  /\ Committed(r)
  /\ UNCHANGED <<content, held, object, vectors, failedJobs, crashes>>

----------------------------------------------------------------------------
(* The deletion pipeline.                                                  *)

\* Load the document, then delete its points of every index version.
DeleteVectors(r) ==
  /\ At(r, "delVectors")
  /\ vectors' = [vectors EXCEPT ![req[r].doc] = NoPoints]
  /\ req' = [req EXCEPT ![r].pc = "delObjects", ![r].seen = status[req[r].doc]]
  /\ UNCHANGED <<status, content, held, object, chunks, lock, failedJobs, crashes>>

\* Mutant: a failing delete of the object is logged and the deletion goes on.
DeleteObjectsTolerant(r) ==
  /\ At(r, "delObjects")
  /\ object' \in {object, [object EXCEPT ![req[r].doc] = FALSE]}
  /\ Goto(r, "delRows")
  /\ UNCHANGED <<status, content, held, chunks, vectors, lock, failedJobs, crashes>>

DeleteObjects(r) ==
  /\ At(r, "delObjects")
  /\ object' = [object EXCEPT ![req[r].doc] = FALSE]
  /\ Goto(r, "delRows")
  /\ UNCHANGED <<status, content, held, chunks, vectors, lock, failedJobs, crashes>>

\* DELETE of the chunk rows starts: it sees the rows committed by now and
\* locks them, or waits for the indexing transaction that is replacing them.
DeleteRows(r) ==
  LET d == req[r].doc
  IN /\ At(r, "delRows")
     /\ req' = [req EXCEPT ![r].pc = "delCommit", ![r].snapshot = chunks[d]]
     /\ lock' = [lock EXCEPT ![d] = IF @ = NoRun /\ chunks[d] # NoRun THEN r ELSE @]
     /\ UNCHANGED <<status, content, held, object, chunks, vectors, failedJobs, crashes>>

\* Once nobody else has the rows, those of the snapshot that still exist are
\* gone; rows committed while the DELETE waited are not in its snapshot and
\* stay.  The session loaded the status in DeleteVectors: if that was deleted
\* already, the ORM sees nothing to write.
DeleteCommit(r) ==
  LET d == req[r].doc
  IN /\ At(r, "delCommit")
     /\ lock[d] \in {r, NoRun} \/ req[r].snapshot = NoRun
     /\ chunks' = [chunks EXCEPT ![d] = IF @ = req[r].snapshot THEN NoRun ELSE @]
     /\ IF req[r].seen = "deleted" THEN UNCHANGED status ELSE SetStatus(r, "deleted")
     /\ ReleaseRows(r)
     /\ Committed(r)
     /\ UNCHANGED <<content, held, object, vectors, failedJobs, crashes>>

----------------------------------------------------------------------------
(* Failures.                                                               *)

\* What a failing step may have done already: a prefix of the points of an
\* upsert, which goes in batches, or the removal of the source object.
PartialEffect(r) ==
  /\ \/ UNCHANGED vectors
     \/ At(r, "upsert") /\ \E n \in 1..(req[r].size - 1) : WritePoints(r, n)
  /\ \/ UNCHANGED object
     \/ At(r, "delObjects") /\ object' = [object EXCEPT ![req[r].doc] = FALSE]

\* The steps that call MinIO, Qdrant or the embedding provider, and those that
\* connect to the database: a refused connection is an OSError, retried too.
TransientSteps ==
  {"queued", "mark", "extract", "cleanup", "upsert", "delVectors", "delObjects"}

\* A queued task can raise from its body only if the call reaches the body.
InBody(r) == At(r, "queued") => ~req[r].unknownArg

\* Mutant: max_retries is not passed on.
TransientRetryUnlimited(r) ==
  /\ "transient" \in Faults
  /\ req[r].pc \in TransientSteps
  /\ InBody(r)
  /\ req' = [req EXCEPT ![r] =
               [@ EXCEPT !.pc = "queued", !.tries = req[r].tries + 1, !.seen = "absent",
                         !.snapshot = NoRun]]
  /\ ReleaseRows(r)
  /\ PartialEffect(r)
  /\ UNCHANGED <<status, content, held, chunks, failedJobs, crashes>>

\* autoretry_for: the task is published again, with its retry count raised.
TransientRetry(r) ==
  /\ "transient" \in Faults
  /\ req[r].pc \in TransientSteps
  /\ InBody(r)
  /\ req[r].tries < MaxRetries
  /\ req' = [req EXCEPT ![r] =
               [@ EXCEPT !.pc = "queued", !.tries = req[r].tries + 1, !.seen = "absent",
                         !.snapshot = NoRun]]
  /\ ReleaseRows(r)
  /\ PartialEffect(r)
  /\ UNCHANGED <<status, content, held, chunks, failedJobs, crashes>>

\* Mutant: the last retry is followed by another.
RetriesExhaustedRequeued(r) ==
  /\ "transient" \in Faults
  /\ req[r].pc \in TransientSteps
  /\ InBody(r)
  /\ req[r].tries = MaxRetries
  /\ Leave(r, "queued")
  /\ ReleaseRows(r)
  /\ PartialEffect(r)
  /\ UNCHANGED <<status, content, held, chunks, failedJobs, crashes>>

RetriesExhausted(r) ==
  /\ "transient" \in Faults
  /\ req[r].pc \in TransientSteps
  /\ InBody(r)
  /\ req[r].tries = MaxRetries
  /\ Leave(r, "fail")
  /\ ReleaseRows(r)
  /\ PartialEffect(r)
  /\ UNCHANGED <<status, content, held, chunks, failedJobs, crashes>>

\* Any other exception of a task body: a permanent pipeline error, a database
\* error (a deadlock between two row-lock orders included), from the first read
\* of the status on.  No retry.
TaskRaises(r) ==
  /\ "permanent" \in Faults
  /\ req[r].pc \in {"queued", "mark"} \cup PipelineSteps \cup DeleteSteps
  /\ InBody(r)
  /\ Leave(r, "fail")
  /\ ReleaseRows(r)
  /\ UNCHANGED <<status, content, held, object, chunks, vectors, failedJobs, crashes>>

\* RudixTask.on_failure writes the failed_jobs row; a failing write is logged.
PersistFailedJob(r) ==
  /\ At(r, "fail")
  /\ \/ failedJobs' = failedJobs \cup {r}
     \/ "terminal" \in Faults /\ UNCHANGED failedJobs
  /\ Goto(r, "terminal")
  /\ UNCHANGED <<status, content, held, object, chunks, vectors, lock, crashes>>

\* Mutant: the delete task does not override the handler.
TerminalFailureFailed(r) ==
  /\ At(r, "terminal")
  /\ \/ SetStatus(r, "failed")
     \/ "terminal" \in Faults /\ UNCHANGED status
  /\ Leave(r, "ack")
  /\ UNCHANGED <<content, held, object, chunks, vectors, lock, failedJobs, crashes>>

\* on_terminal_failure then writes a status, whatever is there: failed, or
\* delete_requested for a deletion.  Its exceptions are swallowed.
TerminalFailure(r) ==
  /\ At(r, "terminal")
  /\ \/ SetStatus(r, IF req[r].task = "delete" THEN "delete_requested" ELSE "failed")
     \/ "terminal" \in Faults /\ UNCHANGED status
  /\ Leave(r, "ack")
  /\ UNCHANGED <<content, held, object, chunks, vectors, lock, failedJobs, crashes>>

Ack(r) ==
  /\ At(r, "ack")
  /\ req' = [req EXCEPT ![r].pc = "done", ![r].tries = 0]
  /\ UNCHANGED <<status, content, held, object, chunks, vectors, lock, failedJobs,
                 crashes>>

\* The worker process is lost: its transaction rolls back, its message is
\* requeued with the same retry count.
WorkerLost(r) ==
  /\ crashes < MaxCrashes
  /\ req[r].pc \in WorkerSteps
  /\ crashes' = crashes + 1
  /\ Leave(r, "queued")
  /\ ReleaseRows(r)
  /\ UNCHANGED <<status, content, held, object, chunks, vectors, failedJobs>>

Begin(r) == BeginBadCall(r) \/ BeginProcess(r) \/ BeginReindex(r) \/ BeginDelete(r)

\* What a live worker does with the task it has.
WorkerStep(r) ==
  \/ Begin(r) \/ Mark(r)
  \/ Extract(r) \/ DlpPass(r) \/ DlpWarn(r) \/ DlpBlock(r)
  \/ Cleanup(r) \/ Chunk(r) \/ Upsert(r) \/ CommitIndexed(r)
  \/ DeleteVectors(r) \/ DeleteObjects(r) \/ DeleteRows(r) \/ DeleteCommit(r)
  \/ PersistFailedJob(r) \/ TerminalFailure(r) \/ Ack(r)

WorkerFault(r) ==
  TransientRetry(r) \/ RetriesExhausted(r) \/ TaskRaises(r) \/ WorkerLost(r)
=============================================================================
