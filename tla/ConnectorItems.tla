--------------------------- MODULE ConnectorItems ---------------------------
(***************************************************************************)
(* The items of one connection: how successive sync runs mirror what the   *)
(* provider has into external items and documents.  A run lists the        *)
(* provider page by page, upserts or tombstones items, downloads changed   *)
(* files and hands them to the ingestion bridge, all in one transaction;   *)
(* after its commit it sends a process task for every document the bridge  *)
(* left in pending_scan.  The tasks run in other workers, while the next   *)
(* run may already be replacing a document's content.                      *)
(*                                                                         *)
(* Runs follow one another, an older one again when its message is         *)
(* delivered again; ConnectorRuns is about who starts them.  A process     *)
(* task is its read of the object and its final commit: what happens       *)
(* inside it is DocumentLifecycle.  Audit rows, conflicts (which nothing   *)
(* reads back) and citation metadata are left out.                         *)
(***************************************************************************)
EXTENDS Naturals, Sequences, FiniteSets, Functions

CONSTANTS
  Items,     \* the provider's items, all of a file type
  Docs,      \* bound: documents ever created
  Tasks,     \* bound: process tasks at a time
  Bytes,     \* file contents, up to their checksum
  Content,   \* the content of each revision of an item; bound: its length
  Infected,  \* contents the malware scan rejects when it gives an answer
  Blocked,   \* contents the DLP scan rejects
  MaxPages,  \* bound: pages of a listing
  Budget,    \* bound: what users do to the provider's items, and twice the runs created
  Faults,    \* the failures the environment may cause
  NoDoc, NoBytes

\* "provider": the adapter raises (rate limit, permission, outage); "auth": the
\* token is refused in the middle of a run; "item": a download, a quota check
\* or an upload to storage fails; "scan": a malware scan gives no answer (it
\* times out, is refused the file, or no scanner is there); "crash": the worker is
\* lost; "task": a process task fails for good.
AllFaults == {"provider", "auth", "item", "scan", "crash", "task"}

ASSUME ItemsAssumption ==
  /\ Content \in [Items -> Seq(Bytes)]
  /\ Infected \subseteq Bytes /\ Blocked \subseteq Bytes
  /\ MaxPages \in Nat \ {0}
  /\ Budget \in Nat
  /\ Faults \subseteq AllFaults
  /\ NoDoc \notin Docs /\ NoBytes \notin Bytes

VARIABLES
  remote,  \* what the provider has: the revision of each item, and whether it exists
  changes, \* changes made to it so far
  rows,    \* external_items, their tombstones and source_documents, committed
  docs,    \* documents, with their stored object and their index, committed
  cursor,  \* connector_sync_jobs.cursor is not empty
  runs,    \* the runs created so far: connector_sync_runs
  sync,    \* the run in hand
  work,    \* rows as the run's transaction sees them
  newDocs, \* the documents the run's transaction has written
  task,    \* the process tasks
  missed   \* history: infected contents of which some scan gave no answer

vars == <<remote, changes, runs, missed, rows, docs, cursor, sync, work, newDocs, task>>

Revision == Nat
NoRow == [rev |-> 0, version |-> 0, deleted |-> FALSE]
NoLink == [doc |-> NoDoc, bytes |-> NoBytes]
NoDocument == [status |-> "none", bytes |-> NoBytes, object |-> NoBytes, index |-> NoBytes]
NoTask == [pc |-> "none", doc |-> NoDoc, bytes |-> NoBytes]
Idle == [phase |-> "idle", full |-> FALSE, version |-> 0, page |-> 0, more |-> FALSE,
         todo |-> <<>>, seen |-> <<>>, retried |-> FALSE, pending |-> {}]

DocumentStatus == {"none", "pending_scan", "processing", "indexed", "failed",
                   "infected", "blocked", "deleted"}

TypeOK ==
  /\ remote \in [Items -> [rev: Revision, exists: BOOLEAN]]
  /\ changes \in Nat
  /\ \A r \in {rows, work} :
       /\ DOMAIN r = {"item", "tomb", "link"}
       /\ r.item \in [Items -> [rev: Revision, version: Nat, deleted: BOOLEAN]]
       /\ r.tomb \subseteq Items
       /\ r.link \in [Items -> [doc: Docs \cup {NoDoc}, bytes: Bytes \cup {NoBytes}]]
  /\ docs \in [Docs -> [status: DocumentStatus, bytes: Bytes \cup {NoBytes},
                        object: Bytes \cup {NoBytes}, index: Bytes \cup {NoBytes}]]
  /\ cursor \in BOOLEAN
  /\ sync.phase \in {"idle", "paging", "items", "dispatch"}
  /\ runs \subseteq [version: Nat, full: BOOLEAN]
  /\ sync.page \in 0..MaxPages /\ sync.version \in Nat
  /\ DOMAIN sync.todo \subseteq Items
  /\ DOMAIN sync.seen \subseteq Items /\ sync.pending \subseteq Docs
  /\ missed \subseteq Infected
  /\ DOMAIN newDocs \subseteq Docs
  /\ sync.phase = "idle" => sync = Idle /\ work = rows /\ newDocs = <<>>
  /\ task \in [Tasks -> [pc: {"none", "queued", "begun", "indexing"},
                         doc: Docs \cup {NoDoc}, bytes: Bytes \cup {NoBytes}]]

Init ==
  /\ remote = [i \in Items |-> [rev |-> 0, exists |-> FALSE]]
  /\ changes = 0
  /\ rows = [item |-> [i \in Items |-> NoRow], tomb |-> {},
             link |-> [i \in Items |-> NoLink]]
  /\ docs = [d \in Docs |-> NoDocument]
  /\ cursor = FALSE
  /\ runs = {}
  /\ missed = {}
  /\ sync = Idle
  /\ work = rows
  /\ newDocs = <<>>
  /\ task = [t \in Tasks |-> NoTask]

----------------------------------------------------------------------------
(* The provider.                                                           *)

Spent(created) == changes + 2 * Cardinality(created)

Change(i, state) ==
  /\ Spent(runs) < Budget
  /\ changes' = changes + 1
  /\ remote' = [remote EXCEPT ![i] = state]
  /\ UNCHANGED <<runs, missed, rows, docs, cursor, sync, work, newDocs, task>>

Edit(i) ==
  /\ remote[i].rev < Len(Content[i])
  /\ Change(i, [rev |-> remote[i].rev + 1, exists |-> TRUE])

Remove(i) == remote[i].exists /\ Change(i, [remote[i] EXCEPT !.exists = FALSE])

\* An item is taken out of the bin: its revision is the old one.
Restore(i) ==
  /\ remote[i].rev > 0 /\ ~remote[i].exists
  /\ Change(i, [remote[i] EXCEPT !.exists = TRUE])

----------------------------------------------------------------------------
(* The run: starting it and reading the provider.                          *)

\* The run's view of a document: its own writes first.
DocRow(d) == IF d \in DOMAIN newDocs THEN newDocs[d] ELSE docs[d]

Execute(run) ==
  /\ sync.phase = "idle"
  /\ sync' = [Idle EXCEPT !.phase = "paging", !.full = run.full, !.version = run.version]
  /\ UNCHANGED <<remote, changes, missed, rows, docs, cursor, work, newDocs, task>>

\* A new run: its version is the second it is created in.  It is incremental when
\* the cursor it was created with is not empty: the job's, or that of the failed
\* run it retries.  An admin's full resync empties it.
Start ==
  \E version \in 1..Budget, full \in BOOLEAN :
    /\ version <= Cardinality(runs) + 1
    /\ \A r \in runs : r.version <= version
    /\ ~full => cursor \/ (\E r \in runs : ~r.full)
    /\ runs' = runs \cup {[version |-> version, full |-> full]}
    /\ Spent(runs') <= Budget
    /\ Execute([version |-> version, full |-> full])

\* A run whose worker was lost before it acknowledged the message is executed
\* again, whatever runs there have been since, and if it has completed too.
Redelivered ==
  /\ "crash" \in Faults
  /\ \E run \in runs : Execute(run)
  /\ UNCHANGED runs

Existing == {i \in Items : remote[i].exists}

NextPage(listed, more) ==
  sync' = [sync EXCEPT !.phase = "items", !.page = @ + 1, !.more = more, !.todo = listed,
                       !.seen = IF sync.full
                                  THEN [i \in DOMAIN @ \cup DOMAIN listed |->
                                          IF i \in DOMAIN listed THEN listed[i] ELSE @[i]]
                                  ELSE @]

\* A page of a full listing has items that exist; the last one has those that
\* no earlier page had.
ListPage ==
  /\ sync.phase = "paging" /\ sync.full
  /\ \E found \in SUBSET (Existing \ DOMAIN sync.seen), more \in BOOLEAN :
       /\ more => sync.page + 1 < MaxPages
       /\ ~more => found = Existing \ DOMAIN sync.seen
       /\ NextPage([i \in found |-> remote[i].rev], more)
  /\ UNCHANGED <<remote, changes, runs, missed, rows, docs, cursor, work, newDocs, task>>

\* A page of changes has any items, those that are gone as deletions (revision
\* 0).  Which ones the provider reports is not this code's business.
DeltaPage ==
  /\ sync.phase = "paging" /\ ~sync.full
  /\ \E found \in SUBSET {i \in Items : remote[i].rev > 0}, more \in BOOLEAN :
       /\ more => sync.page + 1 < MaxPages
       /\ NextPage([i \in found |-> IF remote[i].exists THEN remote[i].rev ELSE 0], more)
  /\ UNCHANGED <<remote, changes, runs, missed, rows, docs, cursor, work, newDocs, task>>

----------------------------------------------------------------------------
(* The run: one item of a page.                                            *)

Listed(i) == sync.phase = "items" /\ i \in DOMAIN sync.todo

\* Item i is done with; p is its document if that is to be processed.
ItemDone(i, p) ==
  sync' = [sync EXCEPT !.todo = Restrict(@, DOMAIN @ \ {i}), !.pending = @ \cup p]

\* Mutant: what the transaction wrote before the exception stays.
RollBackKeeping ==
  /\ sync' = Idle
  /\ UNCHANGED <<work, newDocs>>

\* The transaction is given up: its status change with it, so that the run is
\* left queued and an admin has to cancel it.
RollBack ==
  /\ sync' = Idle
  /\ work' = rows
  /\ newDocs' = <<>>

\* A reported deletion of a live item.  Items have one tombstone row each, which
\* stays when the item comes back: a second one violates its unique key.
TombstoneItem(i) ==
  /\ Listed(i) /\ sync.todo[i] = 0
  /\ LET live == work.item[i].rev > 0 /\ ~work.item[i].deleted
     IN IF live /\ i \in work.tomb
          THEN RollBack
          ELSE /\ work' = IF live
                            THEN [work EXCEPT !.item[i].deleted = TRUE,
                                              !.tomb = @ \cup {i}]
                            ELSE work
               /\ ItemDone(i, {})
               /\ UNCHANGED newDocs
  /\ UNCHANGED <<remote, changes, runs, missed, rows, docs, cursor, task>>

\* An item with another revision than its row's is written, and is live again; an
\* item with the same revision keeps its row, deleted or not, but for the version.
Upserted(i) ==
  [work EXCEPT !.item[i] = [rev |-> sync.todo[i], version |-> sync.version,
                            deleted |-> @.deleted /\ @.rev = sync.todo[i]]]

\* A file is fetched when its item has changed or has no source document yet.
ToFetch(i) ==
  /\ Listed(i) /\ sync.todo[i] > 0
  /\ work.item[i].rev # sync.todo[i] \/ work.link[i] = NoLink

UpsertUnchanged(i) ==
  /\ Listed(i) /\ sync.todo[i] > 0 /\ ~ToFetch(i)
  /\ work' = Upserted(i)
  /\ ItemDone(i, {})
  /\ UNCHANGED <<remote, changes, runs, missed, rows, docs, cursor, newDocs, task>>

\* Mutant: the checksum of the new content is kept although its upload failed.
IngestFailsRecorded(i) ==
  /\ ToFetch(i) /\ remote[i].exists /\ work.link[i] # NoLink
  /\ "item" \in Faults
  /\ work' = [Upserted(i) EXCEPT !.link[i].bytes = Content[i][remote[i].rev]]
  /\ ItemDone(i, {})
  /\ UNCHANGED <<remote, changes, runs, missed, rows, docs, cursor, newDocs, task>>

\* The download fails, or the bridge gives up on the file: that is logged, and
\* the item keeps its new revision.
IngestFails(i) ==
  /\ ToFetch(i)
  /\ "item" \in Faults \/ ~remote[i].exists
  /\ work' = Upserted(i)
  /\ ItemDone(i, {})
  /\ UNCHANGED <<remote, changes, runs, missed, rows, docs, cursor, newDocs, task>>

\* The content is what the provider has now, which may be a later revision.
Fetched(i) == Content[i][remote[i].rev]

\* A malware scan that gives no answer lets the content through to the DLP scan.
Answers == IF "scan" \in Faults THEN BOOLEAN ELSE {TRUE}

Verdict(b, answered) ==
  CASE answered /\ b \in Infected -> "infected"
    [] b \in Blocked /\ ~(answered /\ b \in Infected) -> "blocked"
    [] OTHER -> "pending_scan"

Scanned(b, answered) ==
  missed' = IF answered THEN missed ELSE missed \cup ({b} \cap Infected)

Duplicates(b) ==
  {d \in Docs : DocRow(d).bytes = b /\ DocRow(d).status \notin {"none", "deleted", "blocked"}}

\* A new file whose content some document has already is linked to that one.
IngestDuplicate(i) ==
  /\ ToFetch(i) /\ remote[i].exists /\ work.link[i] = NoLink
  /\ \E d \in Duplicates(Fetched(i)) :
       work' = [Upserted(i) EXCEPT !.link[i] = [doc |-> d, bytes |-> Fetched(i)]]
  /\ ItemDone(i, {})
  /\ UNCHANGED <<remote, changes, runs, missed, rows, docs, cursor, newDocs, task>>

\* Mutant: the process task is sent when the document is created.
IngestNewSending(i) ==
  /\ ToFetch(i) /\ remote[i].exists /\ work.link[i] = NoLink
  /\ Duplicates(Fetched(i)) = {}
  /\ \E d \in Docs, t \in Tasks :
       LET b == Fetched(i)
       IN /\ DocRow(d).status = "none" /\ Verdict(b, TRUE) = "pending_scan"
          /\ newDocs' = [e \in DOMAIN newDocs \cup {d} |->
                           IF e = d THEN [status |-> "pending_scan", bytes |-> b,
                                          object |-> b, index |-> NoBytes]
                           ELSE newDocs[e]]
          /\ work' = [Upserted(i) EXCEPT !.link[i] = [doc |-> d, bytes |-> b]]
          /\ task' = [task EXCEPT ![t] = [NoTask EXCEPT !.pc = "queued", !.doc = d]]
          /\ ItemDone(i, {})
  /\ UNCHANGED <<remote, changes, runs, missed, rows, docs, cursor>>

\* A new file gets a document; only a clean one is stored, linked and processed.
IngestNew(i) ==
  /\ ToFetch(i) /\ remote[i].exists /\ work.link[i] = NoLink
  /\ Duplicates(Fetched(i)) = {}
  /\ \E d \in Docs, answered \in Answers :
       LET b == Fetched(i)
           clean == Verdict(b, answered) = "pending_scan"
           row == [status |-> Verdict(b, answered), bytes |-> b,
                   object |-> IF clean THEN b ELSE NoBytes, index |-> NoBytes]
       IN /\ DocRow(d).status = "none"
          /\ newDocs' = [e \in DOMAIN newDocs \cup {d} |-> IF e = d THEN row ELSE newDocs[e]]
          /\ work' = IF clean
                       THEN [Upserted(i) EXCEPT !.link[i] = [doc |-> d, bytes |-> b]]
                       ELSE Upserted(i)
          /\ ItemDone(i, IF clean THEN {d} ELSE {})
          /\ Scanned(b, answered)
  /\ UNCHANGED <<remote, changes, runs, rows, docs, cursor, task>>

\* A changed revision with the content the item already has.
ReingestSame(i) ==
  /\ ToFetch(i) /\ remote[i].exists /\ work.link[i].bytes = Fetched(i)
  /\ work' = Upserted(i)
  /\ ItemDone(i, {})
  /\ UNCHANGED <<remote, changes, runs, missed, rows, docs, cursor, newDocs, task>>

\* Mutant: the content is uploaded before it is scanned.
ReingestUnscanned(i) ==
  /\ ToFetch(i) /\ remote[i].exists
  /\ work.link[i] # NoLink /\ work.link[i].bytes # Fetched(i)
  /\ LET b == Fetched(i)
         d == work.link[i].doc
         row == [DocRow(d) EXCEPT !.status = Verdict(b, TRUE), !.bytes = b, !.object = b]
     IN /\ newDocs' = [e \in DOMAIN newDocs \cup {d} |-> IF e = d THEN row ELSE newDocs[e]]
        /\ work' = [Upserted(i) EXCEPT !.link[i].bytes = b]
        /\ ItemDone(i, IF Verdict(b, TRUE) = "pending_scan" THEN {d} ELSE {})
  /\ UNCHANGED <<remote, changes, runs, missed, rows, docs, cursor, task>>

\* New content for the item's document, in place.  The scans come before the
\* upload: the stored object stays what it was if the content is rejected.
ReingestChanged(i) ==
  /\ ToFetch(i) /\ remote[i].exists
  /\ work.link[i] # NoLink /\ work.link[i].bytes # Fetched(i)
  /\ \E answered \in Answers :
       LET b == Fetched(i)
           d == work.link[i].doc
           clean == Verdict(b, answered) = "pending_scan"
           row == [DocRow(d) EXCEPT !.status = Verdict(b, answered), !.bytes = b,
                                    !.object = IF clean THEN b ELSE @]
       IN /\ newDocs' = [e \in DOMAIN newDocs \cup {d} |-> IF e = d THEN row ELSE newDocs[e]]
          /\ work' = [Upserted(i) EXCEPT !.link[i].bytes = b]
          /\ ItemDone(i, IF clean THEN {d} ELSE {})
          /\ Scanned(b, answered)
  /\ UNCHANGED <<remote, changes, runs, rows, docs, cursor, task>>

PageDone ==
  /\ sync.phase = "items" /\ sync.todo = <<>> /\ sync.more
  /\ sync' = [sync EXCEPT !.phase = "paging"]
  /\ UNCHANGED <<remote, changes, runs, missed, rows, docs, cursor, work, newDocs, task>>

----------------------------------------------------------------------------
(* The end of a run.                                                       *)

LastPageDone == sync.phase = "items" /\ sync.todo = <<>> /\ ~sync.more

\* Mutant: an older run that is executed again does not spare what newer ones wrote.
UnlistedAnyVersion ==
  {i \in Items : work.item[i].rev > 0 /\ ~work.item[i].deleted /\ i \notin DOMAIN sync.seen}

Unlisted ==
  {i \in Items : /\ work.item[i].rev > 0 /\ ~work.item[i].deleted
                 /\ work.item[i].version <= sync.version
                 /\ i \notin DOMAIN sync.seen}

Written(d) == d \in DOMAIN newDocs

Commit(final, pending) ==
  /\ rows' = final
  /\ work' = final
  /\ docs' = [d \in Docs |-> DocRow(d)]
  /\ newDocs' = <<>>
  /\ sync' = IF pending = {} THEN Idle
             ELSE [Idle EXCEPT !.phase = "dispatch", !.pending = pending]

\* A full listing ends with a tombstone for every live item it did not see, unless
\* a newer run has written it; the cursor it leaves is that of its last page, so
\* none if it had one page.
CompleteFull ==
  /\ LastPageDone /\ sync.full
  /\ Unlisted \cap work.tomb = {}
  /\ Commit([work EXCEPT !.item = [i \in Items |->
                                     IF i \in Unlisted THEN [@[i] EXCEPT !.deleted = TRUE]
                                     ELSE @[i]],
                          !.tomb = @ \cup Unlisted],
            sync.pending)
  /\ cursor' = (sync.page > 1)
  /\ UNCHANGED <<remote, changes, runs, missed, task>>

\* A second tombstone of an item violates the unique key.
TombstoneClash ==
  /\ LastPageDone /\ sync.full
  /\ Unlisted \cap work.tomb # {}
  /\ RollBack
  /\ UNCHANGED <<remote, changes, runs, missed, rows, docs, cursor, task>>

CompleteDelta ==
  /\ LastPageDone /\ ~sync.full
  /\ Commit(work, sync.pending)
  /\ UNCHANGED <<remote, changes, runs, missed, cursor, task>>

\* The adapter raises: the run is committed as failed, with all it has written,
\* but without a list of documents to process.
SyncFails ==
  /\ sync.phase = "paging"
  /\ Faults \cap {"provider", "auth"} # {}
  /\ Commit(work, {})
  /\ UNCHANGED <<remote, changes, runs, missed, cursor, task>>

\* A refused token is refreshed, and the listing starts again, once: in the same
\* transaction, with a list of documents of its own.
SyncRefreshed ==
  /\ "auth" \in Faults
  /\ sync.phase = "paging" /\ ~sync.retried
  /\ sync' = [Idle EXCEPT !.phase = "paging", !.full = sync.full,
                       !.version = sync.version, !.retried = TRUE]
  /\ UNCHANGED <<remote, changes, runs, missed, rows, docs, cursor, work, newDocs, task>>

\* Nothing of the run is left; its message is delivered again.
WorkerLost ==
  /\ "crash" \in Faults
  /\ sync.phase # "idle"
  /\ RollBack
  /\ UNCHANGED <<remote, changes, runs, missed, rows, docs, cursor, task>>

\* process_document.delay, after the commit.
Dispatch(d, t) ==
  /\ sync.phase = "dispatch" /\ d \in sync.pending
  /\ task[t] = NoTask
  /\ task' = [task EXCEPT ![t] = [NoTask EXCEPT !.pc = "queued", !.doc = d]]
  /\ sync' = IF sync.pending = {d} THEN Idle ELSE [sync EXCEPT !.pending = @ \ {d}]
  /\ UNCHANGED <<remote, changes, runs, missed, rows, docs, cursor, work, newDocs>>

----------------------------------------------------------------------------
(* The documents: process tasks and deletion.                              *)

\* A row the run has written is locked until its transaction ends.
Unlocked(d) == d \notin DOMAIN newDocs

SetDoc(d, row) == docs' = [docs EXCEPT ![d] = row]

BeginTask(t) ==
  /\ task[t].pc = "queued"
  /\ LET d == task[t].doc
     IN IF docs[d].status \in {"processing", "indexed", "deleted"}
          THEN task' = [task EXCEPT ![t] = NoTask] /\ UNCHANGED docs
          ELSE /\ Unlocked(d)
               /\ SetDoc(d, [docs[d] EXCEPT !.status = "processing"])
               /\ task' = [task EXCEPT ![t].pc = "begun"]
  /\ UNCHANGED <<remote, changes, runs, missed, rows, cursor, sync, work, newDocs>>

ReadObject(t) ==
  /\ task[t].pc = "begun"
  /\ docs[task[t].doc].object # NoBytes
  /\ task' = [task EXCEPT ![t].pc = "indexing", ![t].bytes = docs[task[t].doc].object]
  /\ UNCHANGED <<remote, changes, runs, missed, rows, docs, cursor, sync, work, newDocs>>

\* The index and the status, which is written whatever it has become.
FinishTask(t) ==
  /\ task[t].pc = "indexing"
  /\ LET d == task[t].doc
     IN /\ Unlocked(d)
        /\ SetDoc(d, [docs[d] EXCEPT !.status = "indexed", !.index = task[t].bytes])
  /\ task' = [task EXCEPT ![t] = NoTask]
  /\ UNCHANGED <<remote, changes, runs, missed, rows, cursor, sync, work, newDocs>>

FailTask(t) ==
  /\ task[t].pc \in {"begun", "indexing"}
  /\ "task" \in Faults \/ docs[task[t].doc].object = NoBytes
  /\ Unlocked(task[t].doc)
  /\ SetDoc(task[t].doc, [docs[task[t].doc] EXCEPT !.status = "failed"])
  /\ task' = [task EXCEPT ![t] = NoTask]
  /\ UNCHANGED <<remote, changes, runs, missed, rows, cursor, sync, work, newDocs>>

\* A deletion that no process task overlaps (DocumentLifecycle has the others).
\* The row stays, and the source documents that name it.
DeleteDocument(d) ==
  /\ docs[d].status \notin {"none", "deleted"}
  /\ \A t \in Tasks : task[t].doc # d
  /\ Unlocked(d)
  /\ SetDoc(d, [docs[d] EXCEPT !.status = "deleted", !.object = NoBytes, !.index = NoBytes])
  /\ UNCHANGED <<remote, changes, runs, missed, rows, cursor, sync, work, newDocs, task>>

----------------------------------------------------------------------------
SyncStep ==
  \/ ListPage \/ DeltaPage \/ PageDone
  \/ CompleteFull \/ TombstoneClash \/ CompleteDelta
  \/ \E i \in Items :
       \/ TombstoneItem(i) \/ UpsertUnchanged(i) \/ IngestDuplicate(i) \/ IngestNew(i)
       \/ ReingestSame(i) \/ ReingestChanged(i) \/ IngestFails(i)
  \/ \E d \in Docs, t \in Tasks : Dispatch(d, t)

TaskStep(t) == BeginTask(t) \/ ReadObject(t) \/ FinishTask(t) \/ FailTask(t)

Next ==
  \/ \E i \in Items : Edit(i) \/ Remove(i) \/ Restore(i)
  \/ Start \/ Redelivered \/ SyncStep \/ SyncFails \/ SyncRefreshed \/ WorkerLost
  \/ \E t \in Tasks : TaskStep(t)
  \/ \E d \in Docs : DeleteDocument(d)

Spec == Init /\ [][Next]_vars

----------------------------------------------------------------------------
(* Properties.                                                             *)

\* A process task is sent only after the run that made its document, so the
\* worker that gets it finds the row: no rollback takes the document away.
TasksHaveDocuments ==
  \A t \in Tasks : task[t] # NoTask => docs[task[t].doc].status # "none"

\* Whatever item, revision, duplicate or late task it comes from, content that the
\* DLP scan or a malware scan rejects is neither stored nor indexed: what the malware
\* scan should have rejected gets there only if a scan of it gave no answer.
OnlyCleanIsIndexed ==
  \A d \in Docs :
    {docs[d].object, docs[d].index} \cap (Blocked \cup (Infected \ missed)) = {}

\* The checksum kept with an item, by which the next run decides that there is
\* nothing to do, is that of its document, for a document of one item.
LinkIsExact ==
  \A i \in Items :
    LET d == rows.link[i].doc
    IN d # NoDoc /\ (\A j \in Items \ {i} : rows.link[j].doc # d)
         => docs[d].bytes = rows.link[i].bytes

\* A full run that completes, for the first time or once more, has recorded what it
\* has seen as it was listed, and live, except for an item that came back with the
\* revision it was deleted with; what it has not seen is deleted, except for what
\* a newer run has written, which it leaves as it was.
FullSyncMirrors ==
  [][CompleteFull =>
       \A i \in Items :
         LET old == rows.item[i]
             new == rows'.item[i]
         IN IF i \in DOMAIN sync.seen
              THEN /\ new.rev = sync.seen[i]
                   /\ ~new.deleted \/ (old.deleted /\ old.rev = new.rev)
              ELSE IF new.version > sync.version
                THEN new = old
                ELSE new.rev > 0 => new.deleted]_vars
=============================================================================
