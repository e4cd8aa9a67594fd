---------------------------- MODULE DocumentApi ----------------------------
(***************************************************************************)
(* The HTTP side of the document subsystem: upload, delete, the admin's    *)
(* retry of a deletion, re-index, and the admin's retry of a failed job.   *)
(* Each handler loads the row, decides on what it read, commits, and only  *)
(* then publishes the task, so another request or a worker may run between *)
(* any two of these.  SQLAlchemy writes a column only when it differs from *)
(* the value the session loaded: a handler that "sets" the status it       *)
(* loaded leaves a concurrent change in place.                             *)
(***************************************************************************)
EXTENDS DocumentStore

\* Malware scan, validation, quota and duplicate checks come before anything
\* is stored; an upload they reject leaves no trace and is not a step here.
UploadPut(r, d) ==
  /\ "upload" \in Kinds
  /\ At(r, "idle")
  /\ status[d] = "absent"
  /\ \A other \in Requests : req[other].pc # "idle" => req[other].doc # d
  /\ \E bytes \in Contents, hold \in BOOLEAN, n \in Points :
       /\ content' = [content EXCEPT ![d] = bytes]
       /\ held' = [held EXCEPT ![d] = hold]
       /\ req' = [req EXCEPT ![r] =
                    [@ EXCEPT !.pc = "put", !.task = "process", !.doc = d, !.size = n]]
  /\ object' = [object EXCEPT ![d] = TRUE]
  /\ UNCHANGED <<status, chunks, vectors, lock, failedJobs, crashes>>

\* Row, version row and audit entry in one transaction.
UploadCommit(r) ==
  /\ At(r, "put")
  /\ SetStatus(r, "uploaded")
  /\ Goto(r, "refresh")
  /\ UNCHANGED <<content, held, object, chunks, vectors, lock, failedJobs, crashes>>

\* The committed row is read back before the handler goes on.
UploadRefresh(r) ==
  /\ At(r, "refresh")
  /\ Goto(r, "publish")
  /\ UNCHANGED <<status, content, held, object, chunks, vectors, lock, failedJobs,
                 crashes>>

\* The transaction fails, or the acknowledgement of its commit is lost, or the
\* row cannot be read back: the handler deletes the object, if MinIO lets it,
\* though in the last two cases the row stays.
UploadRollback(r) ==
  /\ "abort" \in Faults
  /\ req[r].pc \in {"put", "refresh"}
  /\ object' \in {object, [object EXCEPT ![req[r].doc] = FALSE]}
  /\ Leave(r, "done")
  /\ UNCHANGED <<status, content, held, chunks, vectors, lock, failedJobs, crashes>>

\* A handler's dependency loads the document row; a missing row is a 404.
Load(r, d, kind, task, step) ==
  /\ kind \in Kinds
  /\ At(r, "idle")
  /\ status[d] # "absent"
  /\ Serial => Quiet(d)
  /\ \E n \in IF task = "reindex" THEN Points ELSE {1} :
       req' = [req EXCEPT ![r] =
                 [@ EXCEPT !.pc = step, !.task = task, !.doc = d, !.seen = status[d],
                           !.size = n]]
  /\ UNCHANGED <<status, content, held, object, chunks, vectors, lock, failedJobs,
                 crashes>>

LoadForDelete(r, d) == Load(r, d, "delete", "delete", "loadedDelete")
LoadForRetryDelete(r, d) == Load(r, d, "retryDelete", "delete", "loadedRetry")
LoadForReindex(r, d) == Load(r, d, "reindex", "reindex", "loadedReindex")

\* Legal hold is checked first: the document is kept, whatever its status.
DeleteRetained(r) ==
  /\ At(r, "loadedDelete")
  /\ held[req[r].doc]
  /\ IF req[r].seen = "retained_by_policy"
       THEN UNCHANGED status
       ELSE SetStatus(r, "retained_by_policy")
  /\ Leave(r, "done")
  /\ UNCHANGED <<content, held, object, chunks, vectors, lock, failedJobs, crashes>>

\* Already deleted or on its way: answered 202 without publishing again.
DeleteSkipped(r) ==
  /\ At(r, "loadedDelete")
  /\ ~held[req[r].doc]
  /\ req[r].seen \in {"deleted", "deleting", "delete_requested"}
  /\ Leave(r, "done")
  /\ UNCHANGED <<status, content, held, object, chunks, vectors, lock, failedJobs,
                 crashes>>

\* Mutant: the legal hold is not looked at.
DeleteCommitRequestUnheld(r) ==
  /\ At(r, "loadedDelete")
  /\ req[r].seen \notin {"deleted", "deleting", "delete_requested"}
  /\ SetStatus(r, "delete_requested")
  /\ Goto(r, "publish")
  /\ UNCHANGED <<content, held, object, chunks, vectors, lock, failedJobs, crashes>>

DeleteCommitRequest(r) ==
  /\ At(r, "loadedDelete")
  /\ ~held[req[r].doc]
  /\ req[r].seen \notin {"deleted", "deleting", "delete_requested"}
  /\ SetStatus(r, "delete_requested")
  /\ Goto(r, "publish")
  /\ UNCHANGED <<content, held, object, chunks, vectors, lock, failedJobs, crashes>>

RetryableDeletion == {"delete_requested", "deleting", "failed"}

\* The admin's retry publishes a further delete task.
RetryDeleteCommit(r) ==
  /\ At(r, "loadedRetry")
  /\ req[r].seen \in RetryableDeletion
  /\ IF req[r].seen = "delete_requested"
       THEN UNCHANGED status
       ELSE SetStatus(r, "delete_requested")
  /\ Goto(r, "publish")
  /\ UNCHANGED <<content, held, object, chunks, vectors, lock, failedJobs, crashes>>

RetryDeleteRefused(r) ==
  /\ At(r, "loadedRetry")
  /\ req[r].seen \notin RetryableDeletion
  /\ Leave(r, "done")
  /\ UNCHANGED <<status, content, held, object, chunks, vectors, lock, failedJobs,
                 crashes>>

\* The statuses a re-index answers with 409, with and without force.
ReindexConflict(seen, force) ==
  \/ seen \in {"deleted", "deleting", "quarantined", "blocked"}
  \/ seen = "processing" /\ ~force

ReindexCommit(r) ==
  /\ At(r, "loadedReindex")
  /\ \E force \in BOOLEAN : ~ReindexConflict(req[r].seen, force)
  /\ IF req[r].seen = "processing"
       THEN UNCHANGED status
       ELSE SetStatus(r, "processing")
  /\ Goto(r, "publish")
  /\ UNCHANGED <<content, held, object, chunks, vectors, lock, failedJobs, crashes>>

ReindexRefused(r) ==
  /\ At(r, "loadedReindex")
  /\ \E force \in BOOLEAN : ReindexConflict(req[r].seen, force)
  /\ Leave(r, "done")
  /\ UNCHANGED <<status, content, held, object, chunks, vectors, lock, failedJobs,
                 crashes>>

\* Task.delay after the commit.
Publish(r) ==
  /\ At(r, "publish")
  /\ Leave(r, "queued")
  /\ UNCHANGED <<status, content, held, object, chunks, vectors, lock, failedJobs,
                 crashes>>

\* Publishing fails.  Upload and delete leave the committed status as it is; a
\* re-index writes back the status it had read, over whatever is there now.
PublishFails(r) ==
  /\ "publish" \in Faults
  /\ At(r, "publish")
  /\ IF req[r].task = "reindex" /\ req[r].seen # "processing"
       THEN SetStatus(r, req[r].seen)
       ELSE UNCHANGED status
  /\ Leave(r, "done")
  /\ UNCHANGED <<content, held, object, chunks, vectors, lock, failedJobs, crashes>>

\* The process serving the request dies, or its transaction fails, between two
\* of its steps: nothing it had not committed is left, and nothing is published.
RequestAborted(r) ==
  /\ "abort" \in Faults
  /\ req[r].pc \in ApiSteps
  /\ Leave(r, "done")
  /\ UNCHANGED <<status, content, held, object, chunks, vectors, lock, failedJobs,
                 crashes>>

\* documents.delete is the one task whose failed jobs cannot be retried.
RetryableJob(j) == j \in failedJobs /\ req[j].task # "delete"

\* The task is sent before the job's new status is committed, so the job may
\* stay retryable; the message carries a job_id, which no document task takes.
RetryFailedJob(r, j) ==
  /\ "retryJob" \in Kinds
  /\ At(r, "idle")
  /\ RetryableJob(j)
  /\ Serial => Quiet(req[j].doc)
  /\ req' = [req EXCEPT ![r] =
               [@ EXCEPT !.pc = "queued", !.task = req[j].task, !.doc = req[j].doc,
                         !.unknownArg = TRUE]]
  /\ failedJobs' \in IF "abort" \in Faults
                       THEN {failedJobs, failedJobs \ {j}} ELSE {failedJobs \ {j}}
  /\ UNCHANGED <<status, content, held, object, chunks, vectors, lock, crashes>>

ApiNext(r) ==
  \/ \E d \in Docs :
       UploadPut(r, d) \/ LoadForDelete(r, d) \/ LoadForRetryDelete(r, d)
       \/ LoadForReindex(r, d)
  \/ UploadCommit(r) \/ UploadRefresh(r) \/ UploadRollback(r)
  \/ DeleteRetained(r) \/ DeleteSkipped(r) \/ DeleteCommitRequest(r)
  \/ RetryDeleteCommit(r) \/ RetryDeleteRefused(r)
  \/ ReindexCommit(r) \/ ReindexRefused(r)
  \/ Publish(r) \/ PublishFails(r) \/ RequestAborted(r)
  \/ \E j \in Requests : RetryFailedJob(r, j)
=============================================================================
