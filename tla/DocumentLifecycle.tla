------------------------- MODULE DocumentLifecycle -------------------------
(***************************************************************************)
(* The document lifecycle: API requests and worker tasks interleave over   *)
(* the shared stores, step by step.                                        *)
(***************************************************************************)
EXTENDS DocumentApi, DocumentWorker

Next == \E r \in Requests : ApiNext(r) \/ WorkerStep(r) \/ WorkerFault(r)

Spec == Init /\ [][Next]_vars

\* The broker delivers and a live worker goes on with what it has; an API
\* process that is not aborted finishes its handler.  Nobody is obliged to
\* issue a request, and no fault is obliged to happen.
HandlerStep(r) ==
  \/ UploadCommit(r) \/ UploadRefresh(r)
  \/ DeleteRetained(r) \/ DeleteSkipped(r) \/ DeleteCommitRequest(r)
  \/ RetryDeleteCommit(r) \/ RetryDeleteRefused(r)
  \/ ReindexCommit(r) \/ ReindexRefused(r)
  \/ Publish(r)

Fairness == \A r \in Requests : WF_vars(HandlerStep(r)) /\ WF_vars(WorkerStep(r))

FairSpec == Spec /\ Fairness

----------------------------------------------------------------------------
(* Safety.                                                                 *)

\* A row says deleted only when the source object is gone from MinIO, however
\* uploads, deletions, re-indexes, retries, crashes and failures interleave.
DeletedHasNoObject ==
  \A d \in Docs : status[d] = "deleted" => ~object[d]

\* When nothing is being deleted, a document is never offered for retrieval
\* without committed chunk rows, however its indexing runs overlap.
IndexedHasChunks ==
  \A d \in Docs : status[d] = "indexed" => chunks[d] # NoRun

\* The points a run of this size leaves when nobody interferes.
IndexOf(run) == [i \in Points |-> IF i <= req[run].size THEN run ELSE NoRun]

\* When a document's tasks do not overlap, an indexed document has in Qdrant
\* one point per committed chunk row, each written by the run that wrote the
\* row, and no other point: no retry, crash or failed run leaves a stale one.
IndexIsExact ==
  \A d \in Docs :
    status[d] = "indexed" => chunks[d] # NoRun /\ vectors[d] = IndexOf(chunks[d])

\* Even when runs overlap, an indexed document on which nothing is running has
\* a point of the committing run for each of its chunk rows.
IndexIsComplete ==
  \A d \in Docs :
    status[d] = "indexed" /\ Quiet(d) =>
      /\ chunks[d] # NoRun
      /\ \A i \in 1..req[chunks[d]].size : vectors[d][i] = chunks[d]

\* No document is left in the transient status deleting: whoever set it either
\* finishes the deletion or hands it back as delete_requested or failed.
NoStrandedDelete ==
  \A d \in Docs : Quiet(d) => status[d] # "deleting"

\* No document is left in the transient status processing once nothing is
\* running on it: the task that set it ends in another status.
NoStrandedProcessing ==
  \A d \in Docs : Quiet(d) => status[d] # "processing"

----------------------------------------------------------------------------
(* Action properties.                                                      *)

\* When a document's tasks do not overlap, the committed chunk rows change only
\* together with the status that tells readers about them.
RowsChangeWithStatus ==
  [][\A d \in Docs : chunks'[d] # chunks[d] =>
       \/ status'[d] = "indexed" /\ chunks'[d] # NoRun
       \/ status'[d] = "deleted" /\ chunks'[d] = NoRun]_vars

\* The source of a document under legal hold is never removed by a deletion:
\* the one step that may remove it is the clean-up of its own upload, before
\* that upload has answered or published anything.
HeldSourceKept ==
  [][\A d \in Docs : held[d] /\ object[d] /\ ~object'[d] =>
       \E r \in Requests : req[r].doc = d /\ req[r].pc \in {"put", "refresh"}
                            /\ At(r, "done")']_vars

----------------------------------------------------------------------------
(* Liveness.                                                               *)

\* Every published task is eventually done with, whatever the row locks it
\* waits for, the retries it takes and the workers lost under it.
TasksFinish ==
  \A r \in Requests : At(r, "queued") ~> At(r, "done")

\* A deletion that was accepted and published ends with the row deleted, or
\* with the row handed back for the admin to retry.
DeletionEnds ==
  \A r \in Requests :
    (At(r, "queued") /\ req[r].task = "delete")
      ~> (status[req[r].doc] \in {"deleted", "delete_requested"} /\ At(r, "done"))

----------------------------------------------------------------------------
(* Inductive invariants.                                                   *)

\* Until its row is committed, nobody but the upload knows the document.
PutOwnsDocument ==
  \A r \in Requests :
    At(r, "put") =>
      /\ req[r].task = "process"
      /\ status[req[r].doc] = "absent"
      /\ object[req[r].doc]
      /\ \A q \in Requests \ {r} : ~At(q, "idle") => req[q].doc # req[r].doc

\* A failed job belongs to a request whose task has run.
FailedJobsBegan == \A j \in failedJobs : req[j].pc \notin {"idle"} \cup ApiSteps

\* The two ways to a deletion publish the delete task, an upload its processing.
TaskChosen ==
  \A r \in Requests :
    /\ req[r].pc \in {"loadedDelete", "loadedRetry"} => req[r].task = "delete"
    /\ At(r, "refresh") => req[r].task = "process"

\* The status a re-index would restore is none that its checks refuse.
ReindexSawNoDeletion ==
  \A r \in Requests :
    At(r, "publish") /\ req[r].task = "reindex"
      => req[r].seen \notin {"deleting", "deleted"}

\* A deletion comes to the rows only after the object is gone.
ErasedBeforeRows ==
  \A r \in Requests : req[r].pc \in {"delRows", "delCommit"} => ~object[req[r].doc]

ErasureInv ==
  /\ PutOwnsDocument
  /\ FailedJobsBegan
  /\ TaskChosen
  /\ ReindexSawNoDeletion
  /\ ErasedBeforeRows
  /\ DeletedHasNoObject

\* The delete task r will write a status over deleting: it is still to read
\* the status, or did not read deleted, or is about to fail terminally.
WillSettle(r) ==
  /\ req[r].task = "delete"
  /\ \/ req[r].pc \in {"queued", "mark", "delVectors", "fail", "terminal"}
     \/ req[r].pc \in {"delObjects", "delRows", "delCommit"} /\ req[r].seen # "deleted"

DeletingIsOwned ==
  \A d \in Docs :
    status[d] = "deleting" => \E r \in Requests : req[r].doc = d /\ WillSettle(r)

----------------------------------------------------------------------------
(* Refinement.                                                             *)

\* What a reader of all three stores makes of document d.  An inexact index
\* and a deleted row with something left are phases the catalog does not have.
Phase(d) ==
  CASE status[d] = "absent" -> "none"
    [] status[d] = "indexed" ->
         IF chunks[d] # NoRun /\ vectors[d] = IndexOf(chunks[d])
           THEN "searchable" ELSE "inexact"
    [] status[d] = "deleted" ->
         IF chunks[d] = NoRun /\ vectors[d] = NoPoints THEN "deleted" ELSE "leftover"
    [] OTHER -> "pending"

Catalog == INSTANCE DocumentCatalog
             WITH phase <- [d \in Docs |-> Phase(d)], source <- object

\* When a document's tasks do not overlap, the lifecycle implements the
\* catalog: every step of a handler or a worker is a step of it, or none.
ImplementsCatalog == Catalog!Spec
=============================================================================
