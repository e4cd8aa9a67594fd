# Rudix: TLA+ verification

Rudix is a retrieval-augmented-generation platform: a FastAPI backend with
Celery workers over Postgres, Qdrant, MinIO, Redis and Neo4j, and a Next.js
frontend. This directory holds TLA+ models of the parts of the backend whose
correctness depends on the order in which concurrent processes act, the TLC
configurations that check them, and TLAPS proofs. Paths below are relative to
`src/backend/app/` unless they start with `docs/` or `backend/`.

    tlc -workers 2 -config DocumentCatalog.cfg MCDocumentLifecycle
    tlc -workers 2 -config ConnectorServing.cfg MCConnectorRuns
    tlc -workers 2 -config ConnectorItems.cfg MCConnectorItems
    tlc -workers 2 -config EvaluationRuns.cfg MCEvaluationRuns
    tlc -workers 2 -config RateLimiter.cfg MCRateLimiter
    tlc -workers 2 -config AgentRuns.cfg MCAgentRuns
    tlapm DocumentLifecycleProofs.tla       (and the other *Proofs modules)

`PROJECT.json` lists components, runs, mutants (a property and a plausible bug
that breaks it), the lines each definition stands for, findings, hazards and
theorems.

## 1. Inventory

### How the parts interact

An HTTP request runs in an API process with one Postgres session (READ
COMMITTED). It reads rows, decides, writes, commits, and then publishes a Celery
task. Tasks are acknowledged late and requeued when their worker is lost
(`workers/celery_app.py` 34-35); `RudixTask` (`workers/base_task.py`) retries
connection-like errors up to `celery_task_max_retries` and, when it gives up,
writes a `failed_jobs` row and calls the task's terminal-failure handler. Beat
publishes periodic tasks. There are no distributed transactions: Postgres commits
and rolls back, Qdrant and MinIO do not. Nothing of what follows is protected by
more than row locks, unique keys and status columns.

### Components

| Component | State | Operations | What is hard | What makes it correct |
|---|---|---|---|---|
| Document request workflows (`application/documents/workflows.py`, `interfaces/http/failed_jobs.py`) | document row and version rows, object in MinIO | upload, delete, bulk delete, admin's retry of a deletion, re-index, retry of a failed job | decision on a row read before other requests and workers changed it; commit and publish are separate | a hold is respected; no state with nobody to go on; deleted is final |
| Document tasks (`workers/document_tasks.py`, `base_task.py`, `status_tracking.py`) | status, page and chunk rows, points in Qdrant, `failed_jobs` | `documents.process`, `.reindex`, `.delete` | retries and redeliveries after a part was done; overlapping runs of a document; three stores | the index is exactly the committed chunks; deleted means erased |
| Document metadata, versions, trust, review | version, freshness, review rows | edit, submit, approve, verify | version numbers computed from a read | one current version |
| Extraction, OCR, chunking, embedding | none | functions of bytes, provider calls | provider failures | deterministic chunking |
| Connector sync engine (`domains/connectors/services/sync_engine.py`, `workers/connector_sync_tasks.py`) | jobs, runs, cursor, items, tombstones, conflicts | start, retry, full resync, poll, execute, cancel | check-then-insert; one long transaction per run; redelivery; cancellation | one active run per job; an active run ends; items follow the provider |
| Connector ingestion bridge (`ingestion_bridge.py`) | source documents, document rows | create or re-ingest a document of an item | partial failure inside the run's transaction; dispatch after commit | every ingested item gets indexed |
| Connector OAuth and providers | connection, credentials, OAuth states | connect, refresh, disconnect, delete | refresh races, revocation during a sync | a revoked credential is not used |
| Agent runs and approvals (`interfaces/http/agent_runs.py`, `domains/agents`, `workers/agent_tasks.py`) | run, steps, approvals with expiry | execute, request approval, decide, cancel, expire | decisions, cancellations and the expiry act on what they loaded before the others committed | a waiting run can be answered or expires; what is final is not undone by newcomers |
| Authentication sessions (`auth/`, `interfaces/http/auth.py`) | session rows, refresh-token chain | login, refresh (rotation), revoke | two refreshes with one token; reuse detection | one live token per session |
| Authorization, permissions | grants, roles | decide | stateless | deny overrides |
| Rate limiting (`rate_limit/dependencies.py`, `mcp/rate_limit.py`, `domains/bots/services/rate_limit.py`) | one Redis counter per caller, route and window | increment, set and renew the time to live, decide | the calls of requests interleave, may fail one by one, and are sent again by the client when they time out | a window admits no more than the limit, and its counter goes away |
| Quota, plan enforcement (`domains/quota`) | usage counters per period | check, increment, reset | read and write in separate statements | the limit bounds what is accepted |
| Evaluation runs (`application/evaluations`, `workers/evaluation_tasks.py`) | run row, results per question, summary | trigger, execute, edit and delete questions and sets | results are committed one by one, by attempts that may be lost and repeated, while the set changes | a completed run is one attempt's work; an active run ends |
| Safety evaluations; quality gates | run rows | start, execute; compare a summary with thresholds | as evaluation runs | a run ends |
| Chat, retrieval, answer verification | messages | answer a question | none shared between requests | citations come from what was retrieved |
| Knowledge graph | Neo4j, entity rows | extract, merge | best-effort writes | - |
| Email, notifications, bots, webhooks | deliveries | send, verify a signature | failures are swallowed by design | - |
| MCP server, external tools | trust decisions | call a tool | request scoped | - |
| SSO, SCIM, service accounts, API keys; billing; team, roles, collections, memory, prompts, verified answers | one row each | CRUD | - | unique keys |
| Reports, analytics, observability, admin views | none | queries | - | - |
| Tenant isolation (`db/tenant_context.py`, `db/rls.py`) | per-request context | guard every query | - | a static property of the queries |
| Clients, configuration, frontend | settings | wrappers, pages | - | - |

Modelled are the components with shared state, several actors and failures in the
middle of their operations: the document lifecycle (section 2), connector runs and
the items they mirror (3, 4), evaluation runs (5), agent runs and their approvals
(6) and the rate limiter (7).

## 2. The document lifecycle

    DocumentStore        state, types, the steps' vocabulary
      DocumentApi        the request handlers
      DocumentWorker     the three Celery tasks and their failures
        DocumentLifecycle   Next, fairness, properties, refinement
          MCDocumentLifecycle      TLC instance
          DocumentLifecycleProofs  theorems: types, erasure, deletions, holds
            DocumentIndexProofs    theorems: the index, rows
              DocumentCatalogProofs  theorem: the refinement
    DocumentCatalog      the abstract specification

**State.** `status`, `held`, `chunks` are a document's row, retention class and
committed chunk rows in Postgres; `object` is its source in MinIO; `vectors[d]`
maps each point id to the run that wrote the point (ids are
`uuid5(document:index_version:chunk_index)`, so a run overwrites its
predecessor's); `lock[d]` is the transaction that holds the page and chunk rows;
`failedJobs` the retryable failed jobs. `req[r]` is a request and then the task
it published: `pc` runs through the handler, `"queued"` (in the broker) and the
worker's steps. `seen` is the status read earlier and acted on later.

**Actions** are cut where the code can be interleaved: at every commit, at the
publish after it, and at every call of Qdrant or MinIO. In a handler:
`Load...` (the dependency reads the row), the commit, `Publish`. In a task:
`Begin...` (reads the status), `Mark` (writes the working status in a transaction
of its own), then `Extract`, `Dlp...`, `Cleanup` (delete the old points), `Chunk`
(replace the page and chunk rows, uncommitted), `Upsert`, `CommitIndexed`; or
`DeleteVectors`, `DeleteObjects`, `DeleteRows`, `DeleteCommit`. What READ COMMITTED
and SQLAlchemy do is kept where it matters: a status write that equals the loaded
value is not sent (`DeleteCommit`, `ReindexCommit`), a DELETE that waited for a lock
sees the rows of its snapshot only, status writes are otherwise blind. A commit may
succeed and its answer be lost: an upload then deletes the object of its committed row
(`UploadRollback`, also when the row cannot be read back), a task fails after its work is
done (`Committed`).

**Faults** are a constant: `"abort"` (an API process dies or its transaction
fails), `"publish"`, `"transient"` (retried by Celery), `"permanent"`,
`"terminal"` (the terminal-failure handler's write fails, which the code swallows);
worker losses are bounded by `MaxCrashes`. A task may fail at every step of its body,
the first read of the status included (`TaskRaises`, `InBody`).

**Abstract specification.** `DocumentCatalog` knows only a phase and whether the
source is stored: a document is registered once stored, offered to search while
stored and exactly indexed, withdrawn before anything is erased, and retired when
nothing is left. `Phase(d)` is the refinement mapping. A deleted document can only be
opened to be deleted again (`Reopen`): a delete task that is delivered again, fails at
its first read and gives up writes `delete_requested` over `deleted`
(document_tasks 3192, 2992).

| Run | What it shows | Bounds |
|---|---|---|
| `document_faults` | types, deleted implies the source is gone, and every published task is done with (through lock waits, retries, losses), under every request kind and fault | 1 document, 2 overlapping requests, 1 chunk, contents clean, warn, quarantine and corrupt, 1 retry, 1 loss |
| `document_catalog` | with tasks of a document one after another, the lifecycle implements the catalog; the index is exact; rows change only with the status; no deletion takes a held source; deletions end | 3 requests, 2 chunks, contents clean and corrupt, 1 retry, 1 loss, all faults but `terminal` |
| `document_overlapping_runs` | an upload's run, forced re-indexes and retried jobs that overlap: the row locks leave a complete index, and an indexed document has rows | 3 requests, 2 chunks, contents clean, warn, reject and corrupt, API crashes, refused publishes, failing terminal handlers |
| `document_deletion_races` | nobody is left in `deleting`; the inductive invariants of the proofs | 3 requests, task failures, 1 loss |
| `document_stuck_processing` | violation: a retried `documents.process` skips itself | 1 request |

*Why the bounds are enough.* Documents share nothing but the broker, so one is
enough. Three requests give an upload and two operations that race on what it
made; two chunks are the least for a partial upsert and for a new run with fewer
chunks than the old; one retry and one loss each put a task back to its start at
any step, and the properties do not depend on how often that happens. Content is what
the extraction and the DLP scan make of it; `reject`, which differs from `quarantine` in
the status it leads to only, is in `document_overlapping_runs`.

*Fairness.* Weak fairness of `HandlerStep(r)` (a live API process goes on) and
`WorkerStep(r)` (the broker delivers, a live worker goes on, a row lock that is
free long enough is got). No request and no fault is fair. Faults are bounded
(`MaxRetries` is Celery's own bound, `MaxCrashes` the model's), so a task cannot be
lost for ever.

*Limits worth knowing.*
- `RowsChangeWithStatus`, `IndexIsExact` and the refinement are claims about
  documents whose tasks do not overlap (`Serial`). With overlapping deletions and
  re-indexes they are false: a deleted document can be indexed again by a re-index
  that had begun (workflows 960, document_tasks 2051).
- `IndexIsComplete` is a claim about runs that no task failure or loss cuts short:
  TLC finds a counterexample with a transient failure, a permanent one, a worker loss or
  a deletion added to `document_overlapping_runs`. A run that fails after its `Upsert`
  rolls its rows back and leaves its points, over those of the run whose rows stay.
  `IndexedHasChunks` needs no more than that nothing is deleted.
- `document_catalog` leaves out two kinds of request: `retryDelete` (a later DELETE
  on a held, already deleted document writes `retained_by_policy` over `deleted`) and
  `retryJob` (its terminal failure overwrites `deleted`). The other runs have both.
- A failed job is retried with a keyword `job_id` (failed_jobs 136) that no document
  task takes, so the new task always fails; `BeginBadCall` models that.
- `HeldSourceKept` is about steps: the source of a held document is removed by none but
  the clean-up of the upload that stored it. That clean-up may follow the commit of the
  row (workflows 406-413), so a document under legal hold can be without a source from
  its first moment; nothing has been published for it then.
- A re-index withdraws the document before the new index exists (workflows 983,
  document_tasks 1181): `docs/16_CHUNKING_OBSERVABILITY.md` calls re-indexing safe and
  says documents remain searchable.
- Merged or left out: loading the document and deleting its points are one step of
  a deletion; page and chunk row locks are one lock (their opposite orders in a
  pipeline and a deletion, a possible Postgres deadlock, appear as a permanent
  failure); duplicate publishing by the broker client; `pipeline_runs`, graph,
  language and OCR writes; version rows; `documents.reindex_all`.

## 3. The connector runs

    ConnectorRuns          state, actions, fairness, properties
      MCConnectorRuns      TLC instance
      ConnectorRunsProofs  theorems

**State.** `jobStatus` and `due` (the interval has passed since `last_run_at`) are
a job's row; `connected` says that its connection is active with a usable
credential; `run[r]` is a run's committed status with the place of its task:
`"creating"` (found no active run, not committed), `"unsent"` (committed, task not
sent), `"queued"`, then in a worker `"opened"`, `"syncing"`, `"raised"`, `"acking"`;
`todo[p]` are the jobs a poll found due. A run id is reused once its run is over,
so polling may go on for ever in a finite model.

**What decides the shape of the model.** `run_sync` executes a whole run in one
transaction (`connector_sync_tasks.py` 42-49). So `running` is never committed; the
row is locked from the flush of `running` to the end (`SyncStarts` to
`SyncCompletes`/`SyncFails`), and a cancellation that checked before waits
(`CancelCheck`, `CancelCommit`) and then overwrites what was committed. A raised
exception takes the status back, so the terminal-failure handler, which fails a
run it finds `running`, finds `queued` (`TerminalFailure`). A redelivered completed
run is executed again (`Begin` skips cancelled runs only).

| Run | What it shows | Bounds |
|---|---|---|
| `connector_serving` | an active run always has its task in hand and ends; a due job gets its run even if another job's two active runs make the poll raise (`scalar_one_or_none`) | 2 jobs, 2 runs, 1 request of any kind, 1 retry of a transient failure, 1 loss, provider failures |
| `connector_poll` | one active run per job while a single poll starts them, under all faults, and the types | 2 jobs, 2 runs, 2 requests, 1 retry, 1 loss |

*Why the bounds are enough.* Two jobs are needed for one to starve the other, two
runs for one job to have two. `MaxRequests` bounds admins; an admin's request is one
check and one write, so two of them cover every pair that may race. Memory of two
runs makes a poll wait until both are over; a third adds states, not cases
(`OneActiveRun` was also checked with three).

*Fairness.* Weak fairness of `RunStep(r)` (live processes and workers go on, the
broker delivers), `CancelCommit(r)` (a request that waits for a row gets it) and
`PollStep(p)` (beat polls). Requests, interval expiry and faults are not fair.

*Limits.* `ActiveRunIsServed` and the liveness properties are claims without the
faults `"abort"` and `"raise"`: with them a run is left `queued` with no task and
blocks its job until it is cancelled, by code nothing contradicts. Polls are assumed
not to overlap and, for `OneActiveRun`, no admin starts a run: with that the claim
fails (section 9). Each job has a connection of its own. No deployment file of the
repository starts a Celery beat (`docs/04_COMPONENT_DIAGRAMS.md` 109 calls it
optional); `DueJobGetsRun` is a claim about deployments that do.

## 4. The items of a connection

    ConnectorItems          state, actions, properties
      MCConnectorItems      TLC instance
      ConnectorItemsProofs  theorems

`ConnectorRuns` is about who starts runs; `ConnectorItems` is about what successive
runs of one job do, and composes the sync engine, the ingestion bridge and a sketch of
the process tasks (their read of the object and their last commit).

**State.** `remote` is what the provider has: a revision per item and whether it exists.
`runs` are the runs created so far, each with its version, the second it was created in,
and whether it is full. `rows` are the committed `external_items`, tombstones and
`source_documents`; `work` the same rows as the run's transaction sees them. `docs` are
the documents with their stored object and what is indexed; `newDocs` those the
transaction has written. `sync` is the run in hand: page, items of the page still to do,
items seen, documents to send tasks for. A file's content is its checksum.

**Actions.** `Start` (a new run), `Redelivered` (any earlier run, completed or not, is
executed again because its message was not acknowledged), `ListPage`/`DeltaPage`, one
action per outcome of an item (`TombstoneItem`, `UpsertUnchanged`, `IngestDuplicate`,
`IngestNew`, `ReingestSame`, `ReingestChanged`, `IngestFails`), `PageDone`,
`CompleteFull`/`CompleteDelta` (`TombstoneClash` when a second tombstone fails the run),
`SyncFails` (an adapter error: what was written is committed with the failed run),
`SyncRefreshed` (a refused token is refreshed and the listing restarts in the same
transaction), `WorkerLost`, `Dispatch`. The provider changes between any two of them.
`IngestNew` and its siblings are the whole of `ingest_file`: upsert, download, scans,
upload, rows. They are one step because what others see of them is the commit; the
upload, which is not undone by a rollback, is the exception, and it is made under a
fresh key, so that the object of the committed row stays what it was.

**Scans.** The bridge rejects content whose malware scan says `infected` and content the
DLP scan rejects; a scan that says `error` or `skipped` lets it pass
(ingestion_bridge 330 and 791, malware_scan 39-97). `Verdict(b, answered)` is this, with
the fault `"scan"`; `missed` remembers infected contents some scan gave no answer for.

| Run | What it shows | Bounds |
|---|---|---|
| `connector_items` | tasks find their document; what the DLP scan or an answered malware scan rejects is neither stored nor indexed; the stored checksum is the document's; a full sync that completes, an older one executed again included, mirrors its listing and spares what a newer one wrote | 2 items, 3 contents of which one is infected and one blocked, 2 documents, 1 task, 2 pages, a budget of 6 (a change at the provider takes 1, a new run 2), all faults |

*Why the bounds are enough.* Two items are the least for a page boundary, for one item
whose failure concerns another, and for two items with the same content (the
second is linked to the first one's document). Each item has two revisions: clean content,
then content that one of the scans rejects. The budget allows one run, executed any number
of times, with four changes (an item edited, removed, restored, edited again), or two
runs, executed any number of times in any order, with two changes: the least in which an
older run comes after a newer one. One task suffices for a task that overlaps a later
run's replacement of its document. A second tombstone in an incremental run (the
`RollBack` of `TombstoneItem`) needs more than the budget has; the proofs cover it.

*Limits.*
- `FullSyncMirrors` is about full runs. An incremental run trusts the provider's
  changes, which are not this code's business.
- An item that comes back with the revision it was deleted with stays deleted
  (sync_engine 919); the property says so.
- Items have one tombstone row each, by a unique key (`models/connector_source.py`
  138), which is kept when an item comes back: an item deleted for the second time fails
  the run, whose status change is rolled back too. `TombstoneItem` and `TombstoneClash`
  have this as `RollBack`.
- `SyncFails` forgets the documents to send tasks for (sync_engine 666): they stay
  `pending_scan` until their item changes. No liveness property of ingestion holds
  therefore, and none is stated.
- As wired by the worker (`ConnectorIngestionBridge()` without a scanner's client,
  connector_sync_tasks 37), no malware scan of a connector's file gives an answer, and
  `OnlyCleanIsIndexed` is about the DLP scan alone. The model has both cases.
- The first time a run of a version is executed it is the newest; two runs of one second
  have one version, and `FullSyncMirrors` then speaks of neither as the newer.
- The object a replacement leaves behind (ingestion_bridge 886 overwrites its key in the
  row) is not modelled: nothing names it again, no deletion erases it.
- Conflict rows, citation rows, audit rows and file types are left out.

## 5. Evaluation runs

    EvaluationRuns          state, actions, fairness, properties
      MCEvaluationRuns      TLC instance
      EvaluationRunsProofs  theorems
    EvaluationReport        the abstract specification

**State.** `run[r]` is a run's row with the place of its request and then its task
(`pc`), the retries Celery has counted and what the task has in memory (`todo`, `ok`,
`bad`); `results[r]` the committed rows, each marked with the attempt that wrote it
(the mark is the model's, to say what belongs together); `summary[r]` the summary in the
run's `config`; `question` and `set` what users edit.

**Actions.** A request looks for an active run of the set (`TriggerCheck`), inserts
(`TriggerCommit`) and sends (`Send`). The task reads the status (`Begin`), commits
`running` (`MarkRunning`), replaces what earlier attempts left and loads the
questions (`Clear`), commits one result per question (`Evaluate`), the summary
(`Summarize`) and the final status (`Finish`). Each of these is a transaction of its
own, so a worker loss between any two leaves the others committed. Users add and
delete questions and delete the set at any time; rows the task then names are missing,
which is a foreign-key error that Celery retries.

**Abstract specification.** `EvaluationReport` knows no tasks, attempts or
transactions: a report is requested, published at once and complete, then stays as it
is, or fails, may be taken up again, and goes with its set. The mapping `ReportOf(r)` is
what a reader of the row and the summary sees, and publishes a run only while its rows
agree with its summary (`Consistent`); the refinement therefore also says that no step
breaks that agreement in between.

| Run | What it shows | Bounds |
|---|---|---|
| `evaluation_runs` | one result per question; a completed run's summary and results are one attempt's; an active run has a task and ends; a completed run is not executed again; the runs implement `EvaluationReport` | 1 run, 2 questions, 2 retries, 2 losses, all faults |

*Why the bounds are enough.* Runs share nothing but the check for an active run and the
questions, and no property relates two runs; the same properties were also checked
with two runs of a set (1 question, 1 retry, 1 loss; and 2 questions without
retries), which takes longer than a regular run should. Two questions are needed for
an attempt that is lost halfway; two retries and two losses for a third attempt.

*Fairness.* Weak fairness of `RunStep(r)`: live processes go on and the broker
delivers. Faults and users are not fair; retries are bounded by
`celery_task_max_retries` and losses by the model, so that no task is lost for ever.

*Limits.*
- `ActiveRunEnds` and `ActiveRunHasTask` except a run whose API process died before
  the send and one whose terminal-failure handler failed; such a run blocks its set.
- The check for an active run and the insert are apart (workflows 98): two requests
  at once start two runs. They do each other no harm, by the same properties.
- A benchmark run is inserted and sent but never committed
  (`interfaces/http/evaluations.py` 975): `TriggerBenchmark` ends in a failed task
  without a row.
- A second or later comparison target stores no results of its own; those targets,
  quota and the metrics' values are left out.

## 6. Agent runs and approvals

    AgentRuns          state, actions, fairness, properties
      MCAgentRuns      TLC instance
      AgentRunsProofs  theorems

**State.** The status of one run, its approvals in the order of their creation, each
with a deadline that is absent, to come or past, and what each request in progress has
loaded. The runtime executes a run in the transaction of the request that creates it,
so `queued` and `planning` are never committed and `Execute` is one step.

**Actions.** A request loads (`LoadCancel`, `LoadDecide`, `LoadAsk`) and later writes by
primary key what follows from what it loaded (`Cancel`, `Decide`, `Ask`); others may
commit in between, since nothing is locked or compared on writing. The ORM does not send
a status equal to the loaded one (`DecideApproval`). `ExpireAgentApprovals` is the
scheduled task with both of its statements.

| Run | What it shows | Bounds |
|---|---|---|
| `agent_runs` | a waiting run can be answered or has an expired approval; only requests that loaded an earlier state undo what is final; deadlines end the waiting | 2 overlapping requests, 3 approvals |
| `agent_changes_requested` | violation: the scheduled expiry fails a run for which changes were requested | 1 request, 1 approval |

*Why the bounds are enough.* Two requests are every pair that may race; three approvals
let one be decided, one expire and one be pending. The proofs have no bound.

*Fairness.* Time passes, and the scheduled task comes (`workers/celery_app.py` 78), where
a Celery beat runs: see section 3. Requests are not fair.

*Limits.* What `OnlyStaleRequestsUndo` allows does happen: two decisions of one approval
that both read `pending` can leave it approved and its run failed, or set a failed run
back to running; nothing in the repository executes a run that is set back to `running`.
Approvals belong to one run and each request creates a new run, so an approval never
authorises a later execution (`Execute`). Steps, tool calls, budgets, comments are left
out.

## 7. The rate limiter

    RateLimiter          state, actions, fairness, properties
      MCRateLimiter      TLC instance
      RateLimiterProofs  theorems
    AtomicLimiter        the abstract specification

**State.** The clock as the number of the current window and the ticks since it began;
each window's Redis key with its count and its time to live; the commands that Redis will
still execute although nobody waits for them (`late`); each request with the window it
computed on arrival, the count it was answered, and how often its `INCR` was sent.

**Actions.** A request computes its window (`Arrive`), then calls Redis: `INCR`
(`Increment`), `EXPIRE` if it was the first (`SetTtl`), `TTL` (`ReadTtl`), `EXPIRE` again
if there was none (`RenewTtl`), and decides. The client is made with `retry_on_timeout`
(`clients/factory.py` 22): a command whose answer does not come in time is sent again
(`TimesOut`), while Redis may have executed the first sending, may do so at any later
moment (`ExecuteLate`), or never. One request may so be counted twice, and goes on with
the answer to its last sending. When the last sending fails too, the request ends
(`RedisFails`), and that command may be executed late as well. Repeating `TTL` changes
nothing and is no step. `TTL` rounds. The HTTP routes, the MCP tools and the bots have the same
algorithm under different keys.

**Abstract specification.** In `AtomicLimiter` a request is counted and judged in one
step (`Judge`), told the judgement later or not at all (`Answer`, `Lose`), and a
window's count is forgotten only when the window is over (`Pass`). It may ask several
times (`AskAgain`); what was asked and not answered is lost or counted once, at any time
(`CountLate`). The mapping puts the
step at the `INCR`: `ClaimOf` reads the judgement off the count that `INCR` returned, so
that `EXPIRE`, `TTL` and the calls of other requests in between are stutters.

| Run | What it shows | Bounds |
|---|---|---|
| `rate_limiter` | a counted key lasts to the end of its window; no window admits more than the limit; nobody is refused before more `INCR`s than the limit were sent; counters go away; the calls implement `AtomicLimiter` | 2 requests, each command sent at most twice, at most 1 late command per window, limit 1, 2 ticks per window, 2 windows, failures of every call |

*Why the bounds are enough.* Callers and routes share no key. Two requests of up to two
`INCR`s each count up to four against a limit of 1, so that admissions, refusals and
repeated counts come in any order; one late command per window is enough for one that
arrives after its request, or its window, is over. Two is what the client does
(`redis` 5: `retry_on_timeout` alone means one retry). Two ticks are the least for a
window that has a middle; a request that is late in the first window is counted in the
second. The safety properties and the refinement are proved without these bounds.

*Fairness.* Time passes and requests that have arrived go on. `KeyExpires` needs one
request to have got past the time to live; a caller whose every call fails after `INCR`
leaves a key for good, and so does an `INCR` executed after its key has expired.

*Limits.* All API processes and Redis are assumed to read one clock: processes whose
clocks differ compute different windows, and what is said of windows here is then said
of nothing they share. Because of repeated `INCR`s a count may exceed the number of
requests: with limit 1 a single request whose first `INCR` was executed and answered too
late is refused (`NoEarlyRefusal` counts sendings therefore). A request that arrives in
a window and is counted after it is over, on a key that may have expired meanwhile, is
not counted by `WindowLimit` (`prompt`): it would be admitted in a window that is over.
In fail-open mode requests that Redis did not answer are admitted without limit, which
is what the setting says.

## 8. What is proved

All proofs are for every value of the constants, under the `ASSUME`s of the modules.

| Module | Theorem | Statement | Extra assumption |
|---|---|---|---|
| documents | `TypeCorrect` | `Spec => []TypeOK` | - |
| | `DeletedHasNoObjectHolds` | a row says deleted only if the source object is gone | - (all faults, any overlap) |
| | `ErasureInvariant` | `Spec => []ErasureInv`, which the above follows from | - (all faults, any overlap) |
| | `OwnerInvariant` | a document in `deleting` has a delete task that will still write its status | terminal-failure handlers do not fail |
| | `NoStrandedDeleteHolds` | no document is left in `deleting` once its tasks are through | terminal-failure handlers do not fail |
| | `HeldSourceKeptHolds` | only the clean-up of its own upload removes the source of a document under legal hold | no `"retryDelete"` (any overlap, all faults) |
| | `IndexIsExactHolds` | an indexed document has exactly the points of its rows | `Serial` (every kind, all faults) |
| | `RowsChangeWithStatusHolds` | rows change only in the transaction that writes `indexed` or `deleted` | `Serial` (every kind, all faults) |
| | `IndexedHasChunksHolds` | an indexed document has rows | no deletions (any overlap, all faults) |
| | `IndexIsCompleteHolds` | overlapping runs leave a complete index | no deletions, task failures or losses (any overlap) |
| | `ImplementsCatalogHolds` | the lifecycle implements `DocumentCatalog` | `Serial`; uploads, deletions, re-indexes (all faults) |
| connector runs | `RunsTypeCorrect` | `Spec => []TypeOK` | - |
| | `ActiveRunIsServedHolds` | an active run has its task in hand | no `"abort"`, no `"raise"` |
| | `OneActiveRunHolds` | at most one active run per job | polls do not overlap, no admin starts runs |
| items | `TypeCorrect` | `Spec => []TypeOK` | - |
| | `TasksExist` | a process task names a committed document | - |
| | `OnlyClean` | what the DLP scan or an answered malware scan rejects is neither stored nor indexed | - |
| | `LinksExact` | an item's checksum is its document's | - |
| | `FullSyncMirrorsHolds` | a completed full run, an older one executed again included, mirrors its listing and spares what a newer one wrote | - |
| evaluation runs | `TypeCorrect` | `Spec => []TypeOK`, attempts are accounted for | - |
| | `QuestionsOnce` | one result per question | - |
| | `CompletedConsistent` | a completed run is one attempt's work | - |
| | `ActiveHasTask` | an active run has its task in hand or was stranded | - |
| | `CompletedIsLeft` | a completed run is not executed again | - |
| | `ImplementsReportHolds` | the runs implement `EvaluationReport` | - |
| agent runs | `TypeCorrect` | `Spec => []TypeOK` | - |
| | `WaitingAnswerable` | a waiting run can be answered or has an expired approval | - |
| | `StaleRequestsUndo` | only stale requests undo what is final | - |
| rate limiter | `TypeCorrect` | `Spec => []TypeOK` | - |
| | `KeyOutlives` | a counted key lasts to the end of its window | - |
| | `LimitHolds` | no window admits more than the limit | - |
| | `RefusalIsEarned` | a request is refused only if more `INCR`s than the limit were sent for its window | - |
| | `ImplementsAtomicLimiterHolds` | the Redis calls, repeated and late ones included, implement `AtomicLimiter` | - |

*Deleted has no object.* `DeletedHasNoObject` is not inductive: a delete task that is
past `DeleteObjects` relies on nobody storing the object again, and a re-index whose
publish fails writes back a status it once read. `ErasureInv` adds: an upload that
has stored its object but has no row owns its document alone (`PutOwnsDocument`);
failed jobs come from tasks that ran (`FailedJobsBegan`), so their retry cannot name
such a document; the two ways to a deletion publish the delete task
(`TaskChosen`); a re-index never saw a deletion (`ReindexSawNoDeletion`); the
object is gone when the rows are deleted (`ErasedBeforeRows`).

*No stranded delete.* `DeletingIsOwned`: while a document is `deleting`, some delete
task of it will still write the status, because it has yet to read it, or did not
read `deleted` (the case in which the ORM would write nothing), or is about to fail
terminally.

*Legal hold.* `HoldInv` says of every request and task (`HoldTask`) that its document
has a row, which no step takes away, that whoever erases is a deletion, and that a
deletion past its handler found no hold; an upload whose row is committed publishes no
deletion; a failed job's document has a row too. The run
`document_catalog` checks the property where tasks do not overlap, the proof does not
need that. It needs that the admin does not retry deletions: that handler does not look
at the hold (section 9).

*The exact index.* `SerialInv` says, for documents whose tasks do not overlap, where an
indexing task is: it is the only one at its document (`OneTaskAtATime`), between
`Cleanup` and `Upsert` the document has no points, and after `Upsert` exactly those of
the rows the task has not yet committed (`IndexingTask`). The document is not `indexed`
meanwhile, so a task that dies or fails leaves points only where no reader looks, and
the next one removes them first. Rows are committed by `CommitIndexed` and
`DeleteCommit` alone.

*Rows under an indexed document.* Runs that overlap write `indexed` blindly, and so does
a re-index that gives back the status it found when its publish fails. `RowsKeptInv`
adds what makes that harmless: a request that has seen `indexed` found rows, and no step
but a deletion takes rows away (`KeptTask`).

*The complete index.* `OverlapInv`: a run keeps the lock on the rows from `Chunk` to its
commit, and when it commits its points are there or a run that deleted them is waiting
for the rows (`HoldsRows`); and a document has a complete index of its committed rows,
or a run that is still indexing it and will write one (`CommittedOrIndexing`): whoever
removed points upserts again. That is where failures are excluded: such a run would be
gone.

*The catalog.* Under `Background` (the invariants above) and `CatalogInv` (nothing is
left of a deleted document, nobody but a deletion is about to write over `deleted`, the
source of a document in the pipeline is stored) the phase of a document follows from its
status (`PhaseIsStatus`). `StatusMove` lists the changes of status and source that have
a name in the catalog; one lemma per handler and per task step shows that it makes one
of them to its own document and none to the others.

*Connector runs.* `ActiveRunIsServed` is inductive with the types.
`OneActiveRun` is strengthened by `RunsInv`: no admin's run is being created, and a
job the poll has found free stays free until the poll commits, since nothing else
can activate a run: worker losses, retries, cancellations and terminal failures only
move or end the runs there are.

*Items.* The properties are about committed rows, the steps about the transaction's:
`Inv` says each fact twice, of `rows` and `docs` and of `work` and `View` (the documents
as the run sees them). A commit then keeps it, a rollback returns to it. `LinkInv` is
`LinkIsExact` with what a replacement in place needs: a link names a document that
exists. `MirrorInv` says that a full run has deleted nothing yet, has left alone what has
a newer version than its own, and has recorded what it listed; with the tombstones of
`CompleteFull` that is the mirror. `Clean` covers the document rows, `TaskInv` the content
that a running task has already read; what a later scan misses only weakens them.

*Evaluation runs.* `Inv` relates a run's memory to its rows while it evaluates:
what it has computed is exactly what is stored under its attempt, for questions still
there (`Stored`); a task at work has no completed row and a row at rest no task
(`Placed`); attempts are paid for by retries and losses (`Paid`), which bounds the
marks.

*The report.* By `Stored`, completed rows are consistent, so what a reader sees follows
from the status and the summary (`ReportSeen`). Only five steps of a run write a status that
was not there (`RowKept`); each is one step of the report or, where a run that was running
fails or is marked running again, a stutter (`RowMove`). `Finish` publishes what the run
has in memory, which is what is stored.

*Agent runs.* `Loaded` says what the endpoints have let requests in flight load.
`WaitingIsAnswerable` is not inductive: a decision that loaded a running run would
answer the last approval of a run that waits by now and leave it waiting. `Witnessed`
names the approval for which no such decision can be in flight: every decision of it
has loaded a run that waits, so moves it.

*Rate limiter.* The admitted requests of a window have different counts (`Distinct`),
none above the limit, so there are no more than the limit: `WithinLimit`, and the
library's facts about cardinality. `Counted`, `Past` and `Unborn` tie the counts
requests were answered to the counters that exist; a request not counted yet has no
count (`Fresh`). `RefusalIsEarned` counts instead the `INCR`s sent: the count of a window
and its late `INCR`s together never exceed those its requests sent, which bounds every
count handed out (`Bounded`).

*The atomic limiter.* No further invariant is needed. `Increment` is the judgement
(`IncrementClaim`); a timeout is asking again; the calls after it keep the count the
request was given, and so its claim (`GotoClaim`); `Decide` tells what the claim says. A
tick takes counts away with their keys, which by `KeyOutlivesWindow` and `Unborn` are
those of windows that are over (`TickClaim`).

Thus every invariant, action property and refinement of a run that passes is proved. The
assumptions in the table are those under which the run checks it, or weaker ones. Only
model-checked are the liveness properties (`TasksFinish`, `DeletionEnds`, `DueJobGetsRun`,
`ActiveRunEnds`, `KeyExpires` and the others stated with fairness): fairness and ENABLED
are beyond the prover.

## 9. Findings

Two runs of expectation `violation` have a short counterexample; `PROJECT.json`
quotes the line of the repository that says otherwise.

1. `document_stuck_processing`: a transient failure, or a worker loss, of
   `documents.process` leaves the document in `processing`: the retry reads the status
   its own first attempt wrote and reports success (document_tasks 3061).
2. `agent_changes_requested`: the scheduled task that expires approvals fails every
   waiting run without a `pending` approval (`agent_runs.py` 682), so also one whose
   approval has changes requested and perhaps no deadline, which the handler and a test
   say stays waiting.

Further behaviour that the models have, and that a reader of the code may not expect.
No text of the repository clearly denies it, or another run of its kind is listed
above:

- the documents' terminal-failure handler writes `failed` over `quarantined`
  (document_tasks 2913), after which re-indexing is accepted (workflows 969);
- the terminal-failure handler of a deletion writes `delete_requested` over `deleted` when
  a redelivered task fails at its first read (document_tasks 3192, 2992);
- an upload whose commit is not answered, or whose row cannot be read back, deletes the
  object of the committed row (workflows 406-413);
- the admin's retry of a deletion has no legal-hold check (workflows 848);
- a deletion neither stops nor waits for the pipeline of its document; points upserted
  after its Qdrant step outlive the document (document_tasks 2188);
- starting a sync looks for an active run and inserts one in separate statements; two
  requests at once queue two runs (sync_engine 1613);
- documents ingested by a run that then fails get no task (sync_engine 666);
- a connector's file whose malware scan gives no answer is stored and indexed
  (ingestion_bridge 777-796); the module's comment (line 9) names the infected case only;
- a run that is delivered again after it completed lists the provider once more and, if it
  is the newest version, tombstones what it does not see; an older one rewrites the
  version of what it sees (sync_engine 520, 991);
- a request whose `INCR` is sent again is counted twice (`clients/factory.py` 22);
- a benchmark run is never committed (`interfaces/http/evaluations.py` 975);
- concurrent decisions of one approval, see section 6.

## 10. What is not modelled, and the plan

The repository has about 160,000 lines; the definitions here stand for a few thousand of
them. Most of the others are request handlers that read or write one row, prompting
and ranking without shared state, configuration, provider adapters, reports and the
frontend: nothing in them interleaves with anything but the database. The table of
section 1 and the components of `PROJECT.json` list them.

What would pay next:

1. `Quota`: check, increment and reset of a counter (`domains/quota`). Increments that
   read and write in separate statements lose updates (quota_repository 128), so only
   weak bounds hold.
2. `AuthSessions`: rotation and revocation of refresh tokens
   (`interfaces/http/auth.py` 603-).
3. Version numbers of documents (workflows 1009), reviews and freshness.
4. The other comparison targets of an evaluation run, and the safety evaluations that
   follow the same pattern.
