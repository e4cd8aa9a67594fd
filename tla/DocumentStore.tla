--------------------------- MODULE DocumentStore ---------------------------
(***************************************************************************)
(* The shared state of the document subsystem of the backend: the row and  *)
(* the chunk rows of a document in Postgres, its source object in MinIO,   *)
(* its points in Qdrant, the failed-jobs table, and one record per API     *)
(* request that follows the request and then the Celery task it published. *)
(*                                                                         *)
(* A request publishes at most one task and a task is redelivered or       *)
(* retried under the task id it was published with, so a request and its   *)
(* task share one record: the program counter runs through the API         *)
(* workflow, then "queued", then the worker.  The broker holds exactly the *)
(* tasks whose counter is "queued".                                        *)
(*                                                                         *)
(* DocumentApi and DocumentWorker hold the actions, DocumentLifecycle      *)
(* composes them.                                                          *)
(***************************************************************************)
EXTENDS Naturals, FiniteSets

CONSTANTS
  Docs,       \* document ids
  Requests,   \* API requests; their number bounds a behaviour
  MaxChunks,  \* bound: the most chunks a chunking profile cuts a document into
  MaxRetries, \* celery_task_max_retries: Celery retries of one task
  MaxCrashes, \* bound: worker losses in a behaviour
  Kinds,      \* the kinds of request the environment issues
  Contents,   \* what an upload may contain
  Faults,     \* the failures the environment may cause
  Serial,     \* TRUE: a document's next request waits for its last task
  NoRun       \* "no indexing run", a value that is not a request

AllKinds == {"upload", "delete", "retryDelete", "reindex", "retryJob"}

\* What the extractor and the DLP scan make of the uploaded bytes: readable
\* and clean, findings below the blocking actions, DLP quarantine, DLP reject,
\* or not extractable.
AllContents == {"clean", "warn", "quarantine", "reject", "corrupt"}

\* "abort": an API process dies, or one of its database calls fails; "publish":
\* the broker refuses a message; "transient": a worker's store or provider
\* call, or its connection to the database, raises a retryable error;
\* "permanent": any other exception in a task body, the acknowledgement of its
\* last commit that does not arrive included; "terminal": a write of the
\* terminal-failure handler fails.
AllFaults == {"abort", "publish", "transient", "permanent", "terminal"}

ASSUME ConstantsAssumption ==
  /\ Docs # {}
  /\ MaxChunks \in Nat \ {0}
  /\ MaxRetries \in Nat
  /\ MaxCrashes \in Nat
  /\ Kinds \subseteq AllKinds
  /\ Contents \subseteq AllContents
  /\ Faults \subseteq AllFaults
  /\ Serial \in BOOLEAN
  /\ NoRun \notin Requests

VARIABLES
  status,    \* documents.status; "absent" while there is no row
  content,   \* the uploaded bytes, as AllContents classifies them
  held,      \* documents.retention_class is a legal-hold class
  object,    \* the source object exists in MinIO
  chunks,    \* the indexing run that wrote the committed chunk rows, or NoRun
  vectors,   \* for each point id, the run that last upserted it, or NoRun
  lock,      \* the transaction holding the document's page and chunk rows
  req,       \* one record per request and its task
  failedJobs,\* requests whose task left a row in failed_jobs with status failed
  crashes    \* worker losses so far

vars == <<status, content, held, object, chunks, vectors, lock, req, failedJobs,
          crashes>>

\* documents.status, without the values only connector ingestion writes.
DocumentStatus ==
  {"absent", "uploaded", "processing", "indexed", "failed", "quarantined",
   "blocked", "delete_requested", "deleting", "deleted", "retained_by_policy"}

\* Point ids are uuid5(document:index_version:chunk_index), so a document's
\* points are numbered like its chunks and an upsert overwrites.
Points == 1..MaxChunks

TaskNames == {"process", "reindex", "delete"}

ApiSteps ==
  {"put", "refresh", "loadedDelete", "loadedRetry", "loadedReindex", "publish"}
PipelineSteps == {"extract", "dlp", "cleanup", "chunk", "upsert", "commit"}
DeleteSteps == {"delVectors", "delObjects", "delRows", "delCommit"}
\* Everything a worker process has in hand; losing it there redelivers the task.
WorkerSteps ==
  {"mark"} \cup PipelineSteps \cup DeleteSteps \cup {"fail", "terminal", "ack"}
Steps == {"idle", "queued", "done"} \cup ApiSteps \cup WorkerSteps

RequestRecord ==
  [pc: Steps,
   task: TaskNames,                 \* the task this request publishes
   doc: Docs,
   seen: DocumentStatus,            \* status read earlier and acted on later
   size: Points,                    \* chunks its chunking profile yields
   tries: 0..MaxRetries,            \* Celery retries so far
   unknownArg: BOOLEAN,             \* published with an argument the task lacks
   snapshot: Requests \cup {NoRun}] \* chunk rows visible to its DELETE

TypeOK ==
  /\ status \in [Docs -> DocumentStatus]
  /\ content \in [Docs -> AllContents]
  /\ held \in [Docs -> BOOLEAN]
  /\ object \in [Docs -> BOOLEAN]
  /\ chunks \in [Docs -> Requests \cup {NoRun}]
  /\ vectors \in [Docs -> [Points -> Requests \cup {NoRun}]]
  /\ lock \in [Docs -> Requests \cup {NoRun}]
  /\ req \in [Requests -> RequestRecord]
  /\ failedJobs \in SUBSET Requests
  /\ crashes \in 0..MaxCrashes

Init ==
  /\ status = [d \in Docs |-> "absent"]
  /\ content = [d \in Docs |-> "clean"]
  /\ held = [d \in Docs |-> FALSE]
  /\ object = [d \in Docs |-> FALSE]
  /\ chunks = [d \in Docs |-> NoRun]
  /\ vectors = [d \in Docs |-> [i \in Points |-> NoRun]]
  /\ lock = [d \in Docs |-> NoRun]
  /\ req = [r \in Requests |->
              [pc |-> "idle", task |-> "process", doc |-> CHOOSE d \in Docs : TRUE,
               seen |-> "absent", size |-> 1, tries |-> 0, unknownArg |-> FALSE,
               snapshot |-> NoRun]]
  /\ failedJobs = {}
  /\ crashes = 0

----------------------------------------------------------------------------
(* Steps of a request or task.                                             *)

At(r, step) == req[r].pc = step
Goto(r, step) == req' = [req EXCEPT ![r].pc = step]

\* The process is through with the request or the attempt: its locals are gone.
Leave(r, step) ==
  req' = [req EXCEPT ![r].pc = step, ![r].seen = "absent", ![r].snapshot = NoRun]

\* update_document_status on the request's or task's document.
SetStatus(r, s) == status' = [status EXCEPT ![req[r].doc] = s]

\* The rows stay locked until the transaction that took them ends.
ReleaseRows(r) ==
  lock' = [lock EXCEPT ![req[r].doc] = IF @ = r THEN NoRun ELSE @]

\* A request or its task still has steps to take on document d.
Busy(r, d) == req[r].doc = d /\ req[r].pc \notin {"idle", "done"}
Quiet(d) == \A r \in Requests : ~Busy(r, d)
=============================================================================
