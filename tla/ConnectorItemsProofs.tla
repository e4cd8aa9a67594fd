------------------------ MODULE ConnectorItemsProofs ------------------------
(***************************************************************************)
(* What holds of the items of a connection for any number of items,        *)
(* documents, tasks, pages and changes at the provider.  The properties    *)
(* are about what is committed; the invariant says the same of what the    *)
(* run's transaction sees, View and work, so that a commit keeps it and a   *)
(* rollback returns to it.                                                 *)
(***************************************************************************)
EXTENDS ConnectorItems, TLAPS

\* What the scans reject, but for infected contents of which one gave no answer.
Rejected(unanswered) == Blocked \cup (Infected \ unanswered)

ItemRows == [Items -> [rev: Revision, version: Nat, deleted: BOOLEAN]]
Links == [Items -> [doc: Docs \cup {NoDoc}, bytes: Bytes \cup {NoBytes}]]
RowsRecord == [item: ItemRows, tomb: SUBSET Items, link: Links]
DocRecord == [status: DocumentStatus, bytes: Bytes \cup {NoBytes},
              object: Bytes \cup {NoBytes}, index: Bytes \cup {NoBytes}]
TaskRecord == [pc: {"none", "queued", "begun", "indexing"},
               doc: Docs \cup {NoDoc}, bytes: Bytes \cup {NoBytes}]

\* A document without rejected content.
Clean(row, unanswered) ==
  /\ row \in DocRecord
  /\ row.object \notin Rejected(unanswered) /\ row.index \notin Rejected(unanswered)

\* The documents as the run sees them.
View == [d \in Docs |-> DocRow(d)]

\* Links name documents that exist and agree with those that are theirs alone.
Linked(link, documents) ==
  \A i \in Items :
    LET d == link[i].doc
    IN IF d = NoDoc
         THEN link[i] = NoLink
         ELSE /\ documents[d].status # "none"
              /\ (\A j \in Items \ {i} : link[j].doc # d) => documents[d].bytes = link[i].bytes

RemoteInv ==
  /\ remote \in [Items -> [rev: Revision, exists: BOOLEAN]]
  /\ changes \in Nat
  /\ runs \subseteq [version: Nat, full: BOOLEAN]
  /\ \A i \in Items : remote[i].rev <= Len(Content[i]) /\ (remote[i].exists => remote[i].rev > 0)

RowsInv == rows \in RowsRecord /\ work \in RowsRecord /\ cursor \in BOOLEAN

DocsInv ==
  /\ missed \subseteq Infected
  /\ docs \in [Docs -> DocRecord]
  /\ \A d \in Docs : Clean(docs[d], missed)
  /\ DOMAIN newDocs \subseteq Docs
  /\ \A d \in DOMAIN newDocs : Clean(newDocs[d], missed) /\ newDocs[d].status # "none"

SyncFields ==
  {"phase", "full", "version", "page", "more", "todo", "seen", "retried", "pending"}

SyncTyped(s) ==
  /\ DOMAIN s = SyncFields
  /\ s.phase \in {"idle", "paging", "items", "dispatch"}
  /\ s.full \in BOOLEAN
  /\ s.version \in Nat
  /\ s.more \in BOOLEAN
  /\ s.page \in 0..MaxPages
  /\ s.phase = "paging" => s.page < MaxPages /\ DOMAIN s.todo = {}
  /\ s.phase = "items" => ~s.more \/ s.page < MaxPages
  /\ DOMAIN s.todo \subseteq Items
  /\ \A i \in DOMAIN s.todo : s.todo[i] \in Nat /\ (s.full => s.todo[i] > 0)
  /\ DOMAIN s.seen \subseteq Items
  /\ s.pending \subseteq Docs

SyncInv ==
  /\ SyncTyped(sync)
  /\ sync.phase = "idle" => sync = Idle
  /\ sync.phase \in {"idle", "dispatch"} => work = rows /\ newDocs = <<>>

\* What is to be processed exists for the run.
PendingInv == \A d \in sync.pending : View[d].status # "none"

TaskInv ==
  /\ task \in [Tasks -> TaskRecord]
  /\ \A t \in Tasks :
       /\ task[t].bytes \notin Rejected(missed)
       /\ task[t] # NoTask => task[t].pc # "none" /\ task[t].doc \in Docs
                              /\ docs[task[t].doc].status # "none"

LinkInv == Linked(rows.link, docs) /\ Linked(work.link, View)

\* A full run deletes nothing before it completes, leaves alone what a newer run has
\* written, and records what it lists.
MirrorInv ==
  sync.full =>
    /\ \A i \in Items :
         /\ ~work.item[i].deleted
            \/ (rows.item[i].deleted /\ rows.item[i].rev = work.item[i].rev)
         /\ work.item[i].version > sync.version => work.item[i] = rows.item[i]
    /\ \A i \in DOMAIN sync.seen :
         IF i \in DOMAIN sync.todo THEN sync.todo[i] = sync.seen[i]
         ELSE work.item[i].rev = sync.seen[i]

\* What writing item i as it was listed leaves of the items.
ItemWritten(item, i) ==
  /\ item[i].rev = sync.todo[i] /\ item[i].version = sync.version
  /\ item[i].deleted => work.item[i].deleted /\ work.item[i].rev = sync.todo[i]
  /\ \A j \in Items \ {i} : item[j] = work.item[j]

Inv ==
  /\ RemoteInv /\ RowsInv /\ DocsInv /\ SyncInv /\ PendingInv /\ TaskInv /\ LinkInv
  /\ MirrorInv

USE ItemsAssumption
    DEF Revision, AllFaults, DocumentStatus, NoRow, NoLink, NoDocument, NoTask

LEMMA IdleFacts ==
  /\ DOMAIN Idle = SyncFields
  /\ Idle.phase = "idle" /\ Idle.full = FALSE /\ Idle.version = 0 /\ Idle.page = 0
  /\ Idle.more = FALSE
  /\ DOMAIN Idle.todo = {} /\ DOMAIN Idle.seen = {} /\ Idle.pending = {}
BY DEF Idle, SyncFields

LEMMA IdleTyped == SyncTyped(Idle)
<1> USE IdleFacts
<1>1. Idle.phase \in {"idle", "paging", "items", "dispatch"}
  OBVIOUS
<1>2. Idle.full \in BOOLEAN /\ Idle.more \in BOOLEAN
  OBVIOUS
<1>7. Idle.version \in Nat
  OBVIOUS
<1>3. Idle.page \in 0..MaxPages
  OBVIOUS
<1>4. Idle.phase # "paging" /\ Idle.phase # "items"
  OBVIOUS
<1>5. /\ DOMAIN Idle.todo \subseteq Items /\ DOMAIN Idle.seen \subseteq Items
      /\ Idle.pending \subseteq Docs
  OBVIOUS
<1>6. \A i \in DOMAIN Idle.todo : Idle.todo[i] \in Nat /\ (Idle.full => Idle.todo[i] > 0)
  OBVIOUS
<1> QED BY <1>1, <1>2, <1>3, <1>4, <1>5, <1>6, <1>7 DEF SyncTyped

LEMMA ConstantFacts ==
  /\ \A unanswered : NoBytes \notin Rejected(unanswered)
  /\ DOMAIN <<>> = {}
  /\ NoTask \in TaskRecord
  /\ NoDocument \in DocRecord
BY DEF Rejected, TaskRecord, DocRecord

LEMMA ViewFacts ==
  ASSUME DocsInv
  PROVE  /\ \A d \in Docs : View[d] = IF d \in DOMAIN newDocs THEN newDocs[d] ELSE docs[d]
         /\ \A d \in Docs : Clean(View[d], missed)
         /\ newDocs = <<>> => View = docs
<1>1. \A d \in Docs : View[d] = IF d \in DOMAIN newDocs THEN newDocs[d] ELSE docs[d]
  BY DEF View, DocRow
<1>2. \A d \in Docs : Clean(View[d], missed)
  BY <1>1 DEF DocsInv
<1>3. newDocs = <<>> => View = docs
  BY <1>1, ConstantFacts DEF DocsInv, View
<1> QED BY <1>1, <1>2, <1>3

----------------------------------------------------------------------------
(* Links and documents.                                                    *)

\* Documents may change in all but their content, and cannot go away.
LEMMA LinkedKeeps ==
  ASSUME NEW link \in Links, NEW D, NEW E, Linked(link, D),
         \A d \in Docs : /\ E[d].bytes = D[d].bytes
                         /\ D[d].status # "none" => E[d].status # "none"
  PROVE  Linked(link, E)
BY DEF Linked, Links

\* A document that did not exist, for item i or for none.
LEMMA LinkedUnused ==
  ASSUME NEW link \in Links, NEW D, NEW E, NEW d \in Docs, Linked(link, D),
         D[d].status = "none", \A e \in Docs \ {d} : E[e] = D[e]
  PROVE  Linked(link, E)
BY DEF Linked, Links

\* A first link of item i, to a document with its content.
LEMMA LinkedFirst ==
  ASSUME NEW link \in Links, NEW D, NEW i \in Items, NEW d \in Docs, NEW b \in Bytes,
         Linked(link, D), link[i] = NoLink, D[d].status # "none", D[d].bytes = b
  PROVE  Linked([link EXCEPT ![i] = [doc |-> d, bytes |-> b]], D)
<1> DEFINE new == [doc |-> d, bytes |-> b]
           after == [link EXCEPT ![i] = new]
<1>1. new.doc = d /\ new.bytes = b
  OBVIOUS
<1> HIDE DEF new
<1>2. after[i] = new /\ \A j \in Items \ {i} : after[j] = link[j]
  BY DEF Links
<1>3. link[i].doc = NoDoc
  OBVIOUS
<1>4. NoDoc \notin Docs
  OBVIOUS
<1> HIDE DEF after
<1>5. SUFFICES ASSUME NEW j \in Items
                PROVE  IF after[j].doc = NoDoc
                         THEN after[j] = NoLink
                         ELSE /\ D[after[j].doc].status # "none"
                              /\ (\A k \in Items \ {j} : after[k].doc # after[j].doc)
                                   => D[after[j].doc].bytes = after[j].bytes
  BY DEF Linked
<1>6. CASE j = i
  BY <1>1, <1>2, <1>4, <1>6
<1>7. CASE j # i
  <2>1. after[j] = link[j]
    BY <1>2, <1>7
  <2>2. (\A k \in Items \ {j} : after[k].doc # after[j].doc) /\ after[j].doc # NoDoc
          => \A k \in Items \ {j} : link[k].doc # link[j].doc
    BY <1>2, <1>3, <2>1
  <2> QED BY <2>1, <2>2 DEF Linked
<1> QED BY <1>6, <1>7

\* The document of item i gets its content, in place.
LEMMA LinkedInPlace ==
  ASSUME NEW link \in Links, NEW D, NEW E, NEW i \in Items, NEW b \in Bytes,
         Linked(link, D), link[i] # NoLink,
         E[link[i].doc].status # "none", E[link[i].doc].bytes = b,
         \A e \in Docs \ {link[i].doc} : E[e] = D[e]
  PROVE  Linked([link EXCEPT ![i].bytes = b], E)
<1> DEFINE after == [link EXCEPT ![i].bytes = b]
           old == link[i]
           new == [old EXCEPT !.bytes = b]
<1>a. old \in [doc: Docs \cup {NoDoc}, bytes: Bytes \cup {NoBytes}]
  BY DEF Links
<1> HIDE DEF old
<1>b. new.doc = old.doc /\ new.bytes = b
  BY <1>a
<1> HIDE DEF new
<1>c. after[i] = new /\ \A j \in Items \ {i} : after[j] = link[j]
  BY DEF Links, new, old
<1>1. after[i].doc = link[i].doc /\ after[i].bytes = b /\ \A j \in Items \ {i} : after[j] = link[j]
  BY <1>b, <1>c DEF old
<1>2. \A j \in Items : link[j].doc \in Docs \cup {NoDoc}
  BY DEF Links
<1>3. link[i].doc # NoDoc
  BY DEF Linked
<1>d. SUFFICES Linked(after, E)
  OBVIOUS
<1> HIDE DEF after
<1>4. SUFFICES ASSUME NEW j \in Items
                PROVE  IF after[j].doc = NoDoc
                         THEN after[j] = NoLink
                         ELSE /\ E[after[j].doc].status # "none"
                              /\ (\A k \in Items \ {j} : after[k].doc # after[j].doc)
                                   => E[after[j].doc].bytes = after[j].bytes
  BY DEF Linked
<1>5. CASE j = i
  BY <1>1, <1>3, <1>5
<1>6. CASE j # i /\ link[j].doc = link[i].doc
  BY <1>1, <1>3, <1>6
<1>7. CASE j # i /\ link[j].doc # link[i].doc
  <2>1. after[j] = link[j] /\ (link[j].doc # NoDoc => E[link[j].doc] = D[link[j].doc])
    BY <1>1, <1>2, <1>7
  <2>2. \A k \in Items : after[k].doc = link[k].doc
    BY <1>1
  <2> QED BY <2>1, <2>2 DEF Linked
<1> QED BY <1>5, <1>6, <1>7

----------------------------------------------------------------------------
(* The initial states, and the kinds of steps.                             *)

LEMMA InitInv == Init => Inv
<1> SUFFICES ASSUME Init PROVE Inv
  OBVIOUS
<1> USE ConstantFacts, IdleFacts
<1>1. RemoteInv
  <2>1. \A i \in Items : Len(Content[i]) \in Nat
    OBVIOUS
  <2> QED BY <2>1 DEF Init, RemoteInv
<1>2. RowsInv
  BY DEF Init, RowsInv, RowsRecord, ItemRows, Links
<1>3. DocsInv
  BY DEF Init, DocsInv, Clean
<1>4. SyncInv
  BY IdleTyped DEF Init, SyncInv
<1>5. PendingInv
  BY DEF Init, PendingInv
<1>6. TaskInv
  BY DEF Init, TaskInv
<1>7. LinkInv
  BY DEF Init, LinkInv, Linked
<1>8. MirrorInv
  BY DEF Init, MirrorInv
<1> QED BY <1>1, <1>2, <1>3, <1>4, <1>5, <1>6, <1>7, <1>8 DEF Inv

\* The run reads, or begins again: nothing but sync changes.
LEMMA SyncOnly ==
  ASSUME Inv, UNCHANGED <<remote, changes, missed, rows, docs, cursor, work, newDocs, task>>,
         runs' \subseteq [version: Nat, full: BOOLEAN],
         SyncInv', sync'.pending \subseteq sync.pending, MirrorInv'
  PROVE  Inv'
<1>1. View' = View
  BY DEF View, DocRow
<1>2. RemoteInv' /\ RowsInv' /\ DocsInv' /\ TaskInv'
  BY DEF Inv, RemoteInv, RowsInv, DocsInv, TaskInv, Clean
<1>3. PendingInv'
  BY <1>1 DEF Inv, PendingInv
<1>4. LinkInv'
  BY <1>1 DEF Inv, LinkInv, Linked
<1> QED BY <1>2, <1>3, <1>4 DEF Inv

\* One item of a page.
LEMMA ItemStep ==
  ASSUME Inv, NEW i \in Items, Listed(i), NEW p \in SUBSET Docs, ItemDone(i, p),
         UNCHANGED <<remote, changes, runs, rows, docs, cursor, task>>,
         missed \subseteq missed', missed' \subseteq Infected,
         work' \in RowsRecord,
         sync.full => ItemWritten(work'.item, i),
         DOMAIN newDocs' \subseteq Docs,
         \A d \in DOMAIN newDocs' : Clean(newDocs'[d], missed') /\ newDocs'[d].status # "none",
         \A d \in Docs : View[d].status # "none" \/ d \in p => View'[d].status # "none",
         Linked(work'.link, View')
  PROVE  Inv'
<1>1. /\ DOMAIN sync' = DOMAIN sync
      /\ sync'.phase = "items" /\ sync.phase = "items"
      /\ sync'.full = sync.full /\ sync'.more = sync.more /\ sync'.page = sync.page
      /\ sync'.seen = sync.seen /\ sync'.version = sync.version
      /\ sync'.pending = sync.pending \cup p
      /\ sync'.todo = [x \in DOMAIN sync.todo \ {i} |-> sync.todo[x]]
  BY DEF Inv, SyncInv, SyncTyped, SyncFields, ItemDone, Listed, Restrict
<1>2. RemoteInv'
  BY DEF Inv, RemoteInv
<1>3. RowsInv'
  BY DEF Inv, RowsInv, RowsRecord
<1>4. DocsInv'
  <2>1. \A d \in Docs : Clean(docs'[d], missed')
    BY DEF Inv, DocsInv, Clean, Rejected
  <2> QED BY <2>1 DEF Inv, DocsInv
<1>5. SyncInv'
  <2>1. SyncTyped(sync)
    BY DEF Inv, SyncInv
  <2>2. SyncTyped(sync')
    BY <1>1, <2>1 DEF SyncTyped
  <2> QED BY <1>1, <2>2 DEF SyncInv
<1>6. PendingInv'
  BY <1>1 DEF Inv, PendingInv, SyncInv, SyncTyped
<1>7. TaskInv'
  BY DEF Inv, TaskInv, Rejected
<1>8. LinkInv'
  BY DEF Inv, LinkInv, Linked
<1>9. MirrorInv'
  <2> SUFFICES ASSUME sync.full PROVE MirrorInv'
    BY <1>1 DEF MirrorInv
  <2>1. MirrorInv /\ ItemWritten(work'.item, i) /\ i \in DOMAIN sync.todo /\ sync.version \in Nat
    BY DEF Inv, Listed, SyncInv, SyncTyped
  <2>2. \A j \in Items :
          /\ ~work'.item[j].deleted
             \/ (rows.item[j].deleted /\ rows.item[j].rev = work'.item[j].rev)
          /\ work'.item[j].version > sync.version => work'.item[j] = rows.item[j]
    BY <2>1 DEF MirrorInv, ItemWritten
  <2>3. \A j \in DOMAIN sync.seen :
          IF j \in DOMAIN sync'.todo THEN sync'.todo[j] = sync.seen[j]
          ELSE work'.item[j].rev = sync.seen[j]
    <3> SUFFICES ASSUME NEW j \in DOMAIN sync.seen
                 PROVE  IF j \in DOMAIN sync'.todo THEN sync'.todo[j] = sync.seen[j]
                        ELSE work'.item[j].rev = sync.seen[j]
      OBVIOUS
    <3>1. j \in Items
      BY DEF Inv, SyncInv, SyncTyped
    <3>2. DOMAIN sync'.todo = DOMAIN sync.todo \ {i}
          /\ \A x \in DOMAIN sync'.todo : sync'.todo[x] = sync.todo[x]
      BY <1>1
    <3> QED BY <2>1, <3>1, <3>2 DEF MirrorInv, ItemWritten
  <2>4. /\ sync'.version = sync.version /\ sync'.seen = sync.seen /\ rows' = rows
    BY <1>1
  <2> QED BY <2>2, <2>3, <2>4 DEF MirrorInv
<1> QED BY <1>2, <1>3, <1>4, <1>5, <1>6, <1>7, <1>8, <1>9 DEF Inv

LEMMA RollBackStep ==
  ASSUME Inv, RollBack, UNCHANGED <<remote, changes, runs, missed, rows, docs, cursor, task>>
  PROVE  Inv'
<1> USE ConstantFacts, IdleFacts
<1>1. sync' = Idle /\ work' = rows /\ newDocs' = <<>>
  BY DEF RollBack
<1>2. RemoteInv' /\ RowsInv'
  BY <1>1 DEF Inv, RemoteInv, RowsInv
<1>3. DocsInv'
  BY <1>1 DEF Inv, DocsInv, Clean
<1>4. SyncInv'
  BY <1>1, IdleTyped DEF SyncInv
<1>5. View' = docs
  BY <1>1 DEF Inv, DocsInv, View, DocRow
<1>6. PendingInv' /\ MirrorInv'
  BY <1>1 DEF PendingInv, MirrorInv
<1>7. TaskInv'
  BY DEF Inv, TaskInv
<1>8. LinkInv'
  BY <1>1, <1>5 DEF Inv, LinkInv, Linked
<1> QED BY <1>2, <1>3, <1>4, <1>6, <1>7, <1>8 DEF Inv

LEMMA CommitStep ==
  ASSUME Inv, NEW final \in RowsRecord, final.link = work.link,
         NEW pending \in SUBSET sync.pending, Commit(final, pending),
         cursor' \in BOOLEAN, UNCHANGED <<remote, changes, runs, missed, task>>
  PROVE  Inv'
<1> USE ConstantFacts, IdleFacts
<1>1. rows' = final /\ work' = final /\ newDocs' = <<>>
  BY DEF Commit
<1>2. docs' = View
  BY DEF Commit, View
<1>3. \A d \in Docs : Clean(View[d], missed)
  BY ViewFacts DEF Inv
<1>4. DocsInv'
  <2>1. missed \subseteq Infected /\ missed' = missed
    BY DEF Inv, DocsInv
  <2>2. \A d \in Docs : Clean(docs'[d], missed') /\ docs'[d] \in DocRecord
    BY <1>2, <1>3, <2>1 DEF Clean, View
  <2>3. docs' \in [Docs -> DocRecord]
    BY <1>2, <2>2 DEF View
  <2> QED BY <1>1, <2>1, <2>2, <2>3 DEF DocsInv
<1>5. View' = View
  BY <1>1, <1>2 DEF View, DocRow
<1>6. /\ DOMAIN sync' = SyncFields
      /\ sync'.phase \in {"idle", "dispatch"} /\ sync'.full = FALSE /\ sync'.more = FALSE
      /\ sync'.page = 0 /\ sync'.version = 0 /\ DOMAIN sync'.todo = {} /\ DOMAIN sync'.seen = {}
      /\ sync'.pending \subseteq sync.pending
      /\ sync'.phase = "idle" => sync' = Idle
  <2>1. CASE pending = {}
    BY <2>1 DEF Commit
  <2>2. CASE pending # {}
    <3>1. sync' = [Idle EXCEPT !.phase = "dispatch", !.pending = pending]
      BY <2>2 DEF Commit
    <3> QED BY <3>1 DEF SyncFields
  <2> QED BY <2>1, <2>2
<1>7. RemoteInv' /\ RowsInv'
  BY <1>1 DEF Inv, RemoteInv, RowsInv
<1>8. SyncInv'
  <2>1. SyncTyped(sync')
    <3>1. sync.pending \subseteq Docs
      BY DEF Inv, SyncInv, SyncTyped
    <3>2. sync'.page \in 0..MaxPages
      BY <1>6
    <3>3. sync'.pending \subseteq Docs /\ DOMAIN sync'.seen \subseteq Items
      BY <1>6, <3>1
    <3>4. sync'.phase # "paging" /\ sync'.phase # "items"
      BY <1>6
    <3>5. sync'.version \in Nat
      BY <1>6
    <3> QED BY <1>6, <3>2, <3>3, <3>4, <3>5 DEF SyncTyped
  <2> QED BY <1>1, <1>6, <2>1 DEF SyncInv
<1>9. PendingInv'
  BY <1>5, <1>6 DEF Inv, PendingInv
<1>10. TaskInv'
  <2>1. \A d \in Docs : docs[d].status # "none" => docs'[d].status # "none"
    BY <1>2, ViewFacts DEF Inv, DocsInv
  <2> QED BY <2>1 DEF Inv, TaskInv
<1>11. LinkInv'
  <2>1. Linked(work.link, View)
    BY DEF Inv, LinkInv
  <2>2. Linked(rows'.link, docs') /\ Linked(work'.link, View')
    BY <1>1, <1>2, <1>5, <2>1
  <2> QED BY <2>2 DEF LinkInv
<1>12. MirrorInv'
  BY <1>6 DEF MirrorInv
<1> QED BY <1>4, <1>7, <1>8, <1>9, <1>10, <1>11, <1>12 DEF Inv

\* A process task, or a deletion, writes a document that the run has not written.
LEMMA DocStep ==
  ASSUME Inv, NEW d \in Docs, Unlocked(d), NEW row, Clean(row, missed), SetDoc(d, row),
         row.bytes = docs[d].bytes, row.status # "none",
         UNCHANGED <<remote, changes, runs, missed, rows, cursor, sync, work, newDocs>>,
         task' \in [Tasks -> TaskRecord],
         \A t \in Tasks :
           /\ task'[t].bytes \notin Rejected(missed)
           /\ task'[t] = task[t] \/ task'[t] = NoTask
              \/ (task[t] # NoTask /\ task'[t].pc # "none" /\ task'[t].doc = task[t].doc)
  PROVE  Inv'
<1>1. docs'[d] = row /\ \A e \in Docs \ {d} : docs'[e] = docs[e]
  BY DEF Inv, DocsInv, SetDoc
<1>2. docs' \in [Docs -> DocRecord]
  BY DEF Inv, DocsInv, SetDoc, Clean
<1>3. RemoteInv' /\ RowsInv'
  BY DEF Inv, RemoteInv, RowsInv
<1>4. DocsInv'
  BY <1>1, <1>2 DEF Inv, DocsInv, Clean
<1>5. SyncInv'
  BY DEF Inv, SyncInv, SyncTyped
<1>6. /\ \A e \in Docs : View'[e] = IF e = d THEN row ELSE View[e]
      /\ View[d] = docs[d]
  BY <1>1, ViewFacts DEF Inv, Unlocked, View, DocRow
<1>7. PendingInv'
  BY <1>6 DEF Inv, PendingInv, SyncInv, SyncTyped
<1>8. TaskInv'
  BY <1>1 DEF Inv, TaskInv, Rejected
<1>9. Linked(rows'.link, docs')
  <2>1. rows.link \in Links
    BY DEF Inv, RowsInv, RowsRecord
  <2> QED BY <1>1, <2>1, LinkedKeeps DEF Inv, LinkInv
<1>10. Linked(work'.link, View')
  <2>1. work.link \in Links
    BY DEF Inv, RowsInv, RowsRecord
  <2>2. \A e \in Docs : /\ View'[e].bytes = View[e].bytes
                        /\ View[e].status # "none" => View'[e].status # "none"
    BY <1>6
  <2>3. Linked(work.link, View)
    BY DEF Inv, LinkInv
  <2>4. Linked(work.link, View')
    BY <2>1, <2>2, <2>3, LinkedKeeps
  <2> QED BY <2>4
<1>11. MirrorInv'
  BY DEF Inv, MirrorInv
<1> QED BY <1>3, <1>4, <1>5, <1>7, <1>8, <1>9, <1>10, <1>11 DEF Inv, LinkInv

----------------------------------------------------------------------------
(* The provider and the reading of it.                                     *)

LEMMA ProviderInv ==
  ASSUME Inv, NEW i \in Items, Edit(i) \/ Remove(i) \/ Restore(i)
  PROVE  Inv'
<1>1. RemoteInv /\ Len(Content[i]) \in Nat
  BY DEF Inv, Edit, Remove, Restore, Change
<1>2. \E state \in [rev: Revision, exists: BOOLEAN] :
        /\ Change(i, state)
        /\ state.rev <= Len(Content[i]) /\ (state.exists => state.rev > 0)
  <2>1. CASE Edit(i)
    <3> DEFINE state == [rev |-> remote[i].rev + 1, exists |-> TRUE]
    <3>1. state \in [rev: Revision, exists: BOOLEAN] /\ state.rev <= Len(Content[i]) /\ state.rev > 0
      BY <1>1, <2>1 DEF RemoteInv, Edit
    <3>2. Change(i, state)
      BY <2>1 DEF Edit
    <3> QED BY <3>1, <3>2
  <2>2. CASE Remove(i)
    <3> DEFINE state == [remote[i] EXCEPT !.exists = FALSE]
    <3>1. /\ state \in [rev: Revision, exists: BOOLEAN]
          /\ state.rev = remote[i].rev
          /\ state.exists = FALSE
      BY DEF Inv, RemoteInv
    <3>2. Change(i, state)
      BY <2>2 DEF Remove
    <3> HIDE DEF state
    <3> QED BY <1>1, <3>1, <3>2 DEF RemoteInv
  <2>3. CASE Restore(i)
    <3> DEFINE state == [remote[i] EXCEPT !.exists = TRUE]
    <3>1. state \in [rev: Revision, exists: BOOLEAN] /\ state.rev = remote[i].rev
      BY DEF Inv, RemoteInv
    <3>2. Change(i, state)
      BY <2>3 DEF Restore
    <3>3. remote[i].rev > 0
      BY <2>3 DEF Restore
    <3> HIDE DEF state
    <3> QED BY <1>1, <3>1, <3>2, <3>3 DEF RemoteInv
  <2> QED BY <2>1, <2>2, <2>3
<1>3. PICK state \in [rev: Revision, exists: BOOLEAN] :
        /\ Change(i, state)
        /\ state.rev <= Len(Content[i]) /\ (state.exists => state.rev > 0)
  BY <1>2
<1>4. UNCHANGED <<runs, missed, rows, docs, cursor, sync, work, newDocs, task>>
  BY <1>3 DEF Change
<1>5. RemoteInv'
  BY <1>1, <1>3 DEF RemoteInv, Change
<1>6. RowsInv' /\ DocsInv' /\ SyncInv' /\ TaskInv' /\ MirrorInv'
  BY <1>4 DEF Inv, RowsInv, DocsInv, Clean, SyncInv, SyncTyped, TaskInv, MirrorInv
<1>7. View' = View
  BY <1>4 DEF View, DocRow
<1>8. PendingInv' /\ LinkInv'
  BY <1>4, <1>7 DEF Inv, PendingInv, LinkInv, Linked
<1> QED BY <1>5, <1>6, <1>8 DEF Inv

\* A run begins: its transaction sees what is committed, and it has seen nothing.
LEMMA ExecuteInv ==
  ASSUME Inv, NEW run \in [version: Nat, full: BOOLEAN], Execute(run),
         runs' \subseteq [version: Nat, full: BOOLEAN]
  PROVE  Inv'
<1> USE IdleFacts
<1> DEFINE full == run.full
           version == run.version
<1>0. full \in BOOLEAN /\ version \in Nat
  OBVIOUS
<1>1. sync' = [Idle EXCEPT !.phase = "paging", !.full = full, !.version = version]
  BY DEF Execute
<1> HIDE DEF full, version
<1>2. /\ DOMAIN sync' = SyncFields
      /\ sync'.phase = "paging" /\ sync'.full = full /\ sync'.version = version
      /\ sync'.more = FALSE /\ sync'.page = 0
      /\ DOMAIN sync'.todo = {} /\ DOMAIN sync'.seen = {} /\ sync'.pending = {}
  BY <1>1 DEF SyncFields
<1>3. SyncInv'
  <2>1. sync'.page \in 0..MaxPages /\ sync'.page < MaxPages
    BY <1>2
  <2>2. sync'.full \in BOOLEAN /\ sync'.more \in BOOLEAN /\ sync'.version \in Nat
    BY <1>0, <1>2
  <2>3. SyncTyped(sync')
    BY <1>2, <2>1, <2>2 DEF SyncTyped
  <2> QED BY <1>2, <2>3 DEF SyncInv
<1>4. work = rows /\ UNCHANGED <<rows, work>>
  BY DEF Execute, Inv, SyncInv
<1>5. MirrorInv'
  BY <1>2, <1>4 DEF MirrorInv
<1> QED BY <1>2, <1>3, <1>5, SyncOnly DEF Execute

LEMMA StartInv == ASSUME Inv, Start PROVE Inv'
<1>1. PICK version \in 1..Budget, full \in BOOLEAN :
        /\ runs' = runs \cup {[version |-> version, full |-> full]}
        /\ Execute([version |-> version, full |-> full])
  BY DEF Start
<1> DEFINE run == [version |-> version, full |-> full]
<1>2. run \in [version: Nat, full: BOOLEAN]
  OBVIOUS
<1>3. runs' = runs \cup {run} /\ Execute(run)
  BY <1>1
<1> HIDE DEF run
<1>4. runs' \subseteq [version: Nat, full: BOOLEAN]
  BY <1>2, <1>3 DEF Inv, RemoteInv
<1> QED BY <1>2, <1>3, <1>4, ExecuteInv

LEMMA RedeliveredInv == ASSUME Inv, Redelivered PROVE Inv'
<1>1. PICK run \in runs : Execute(run)
  BY DEF Redelivered
<1>2. run \in [version: Nat, full: BOOLEAN] /\ runs' \subseteq [version: Nat, full: BOOLEAN]
  BY DEF Inv, RemoteInv, Redelivered
<1> QED BY <1>1, <1>2, ExecuteInv

LEMMA PageInv ==
  ASSUME Inv, sync.phase = "paging", NEW found \in SUBSET Items, NEW listed,
         DOMAIN listed = found, NEW more \in BOOLEAN, more => sync.page + 1 < MaxPages,
         \A i \in found : listed[i] \in Nat /\ (sync.full => listed[i] > 0),
         NextPage(listed, more),
         UNCHANGED <<remote, changes, runs, missed, rows, docs, cursor, work, newDocs, task>>
  PROVE  Inv'
<1>1. SyncTyped(sync)
  BY DEF Inv, SyncInv
<1>2. /\ DOMAIN sync' = SyncFields
      /\ sync'.phase = "items" /\ sync'.page = sync.page + 1 /\ sync'.more = more
      /\ sync'.todo = listed /\ sync'.full = sync.full /\ sync'.pending = sync.pending
      /\ sync'.version = sync.version
      /\ sync'.seen = IF sync.full
                        THEN [i \in DOMAIN sync.seen \cup DOMAIN listed |->
                                IF i \in DOMAIN listed THEN listed[i] ELSE sync.seen[i]]
                        ELSE sync.seen
  BY <1>1 DEF SyncTyped, SyncFields, NextPage
<1>3. sync'.page \in 0..MaxPages /\ (more => sync'.page < MaxPages)
  BY <1>1, <1>2 DEF SyncTyped
<1>4. DOMAIN sync'.seen \subseteq Items
  BY <1>1, <1>2 DEF SyncTyped
<1>5. SyncTyped(sync')
  BY <1>1, <1>2, <1>3, <1>4 DEF SyncTyped
<1>6. SyncInv'
  BY <1>2, <1>5 DEF SyncInv
<1>7. MirrorInv'
  <2> SUFFICES ASSUME sync.full PROVE MirrorInv'
    BY <1>2 DEF MirrorInv
  <2>1. DOMAIN sync.todo = {} /\ MirrorInv
    BY <1>1 DEF Inv, SyncTyped
  <2>2. \A i \in DOMAIN sync'.seen :
          IF i \in DOMAIN sync'.todo THEN sync'.todo[i] = sync'.seen[i]
          ELSE work.item[i].rev = sync'.seen[i]
    BY <1>2, <2>1 DEF MirrorInv
  <2> QED BY <1>2, <2>1, <2>2 DEF MirrorInv
<1>8. runs' \subseteq [version: Nat, full: BOOLEAN]
  BY DEF Inv, RemoteInv
<1> QED BY <1>2, <1>6, <1>7, <1>8, SyncOnly

LEMMA ListPageInv == ASSUME Inv, ListPage PROVE Inv'
<1>1. PICK found \in SUBSET (Existing \ DOMAIN sync.seen), more \in BOOLEAN :
        /\ more => sync.page + 1 < MaxPages
        /\ NextPage([i \in found |-> remote[i].rev], more)
  BY DEF ListPage
<1> DEFINE listed == [i \in found |-> remote[i].rev]
<1>2. found \in SUBSET Items /\ DOMAIN listed = found
      /\ \A i \in found : listed[i] \in Nat /\ listed[i] > 0
  BY DEF Inv, RemoteInv, Existing
<1>3. NextPage(listed, more)
  BY <1>1
<1> HIDE DEF listed
<1> QED BY <1>1, <1>2, <1>3, PageInv DEF ListPage

LEMMA DeltaPageInv == ASSUME Inv, DeltaPage PROVE Inv'
<1>1. PICK found \in SUBSET {i \in Items : remote[i].rev > 0}, more \in BOOLEAN :
        /\ more => sync.page + 1 < MaxPages
        /\ NextPage([i \in found |-> IF remote[i].exists THEN remote[i].rev ELSE 0], more)
  BY DEF DeltaPage
<1> DEFINE listed == [i \in found |-> IF remote[i].exists THEN remote[i].rev ELSE 0]
<1>2. found \in SUBSET Items /\ DOMAIN listed = found
      /\ \A i \in found : listed[i] \in Nat
  BY DEF Inv, RemoteInv
<1>3. /\ NextPage(listed, more) /\ ~sync.full /\ sync.phase = "paging"
      /\ UNCHANGED <<remote, changes, runs, missed, rows, docs, cursor, work, newDocs, task>>
  BY <1>1 DEF DeltaPage
<1>4. more => sync.page + 1 < MaxPages
  BY <1>1
<1> HIDE DEF listed
<1> QED BY <1>2, <1>3, <1>4, PageInv

LEMMA PageDoneInv == ASSUME Inv, PageDone PROVE Inv'
<1>1. SyncTyped(sync) /\ sync.phase = "items" /\ sync.more
  BY DEF Inv, SyncInv, PageDone
<1>2. /\ DOMAIN sync' = SyncFields
      /\ sync'.phase = "paging" /\ sync'.page = sync.page /\ sync'.more = sync.more
      /\ sync'.todo = sync.todo /\ sync'.full = sync.full /\ sync'.pending = sync.pending
      /\ sync'.seen = sync.seen /\ sync'.version = sync.version
  BY <1>1 DEF SyncTyped, SyncFields, PageDone
<1>3. SyncTyped(sync')
  <2>1. DOMAIN sync.todo = {}
    BY ConstantFacts DEF PageDone
  <2> QED BY <1>1, <1>2, <2>1 DEF SyncTyped
<1>4. SyncInv'
  BY <1>2, <1>3 DEF SyncInv
<1>5. MirrorInv' /\ runs' \subseteq [version: Nat, full: BOOLEAN]
  BY <1>2 DEF Inv, MirrorInv, RemoteInv, PageDone
<1> QED BY <1>2, <1>4, <1>5, SyncOnly DEF PageDone

LEMMA SyncRefreshedInv == ASSUME Inv, SyncRefreshed PROVE Inv'
<1> USE IdleFacts
<1>1. sync' = [Idle EXCEPT !.phase = "paging", !.full = sync.full,
                           !.version = sync.version, !.retried = TRUE]
  BY DEF SyncRefreshed
<1>2. /\ DOMAIN sync' = SyncFields
      /\ sync'.phase = "paging" /\ sync'.full = sync.full /\ sync'.more = FALSE
      /\ sync'.page = 0 /\ sync'.version = sync.version
      /\ DOMAIN sync'.todo = {} /\ DOMAIN sync'.seen = {} /\ sync'.pending = {}
  BY <1>1 DEF SyncFields
<1>3. SyncInv'
  <2>1. sync'.page \in 0..MaxPages /\ sync'.page < MaxPages
    BY <1>2
  <2>2. sync'.full \in BOOLEAN /\ sync'.more \in BOOLEAN /\ sync'.version \in Nat
    BY <1>2 DEF Inv, SyncInv, SyncTyped
  <2>3. SyncTyped(sync')
    BY <1>2, <2>1, <2>2 DEF SyncTyped
  <2> QED BY <1>2, <2>3 DEF SyncInv
<1>4. MirrorInv' /\ runs' \subseteq [version: Nat, full: BOOLEAN]
  BY <1>2 DEF Inv, MirrorInv, RemoteInv, SyncRefreshed
<1> QED BY <1>2, <1>3, <1>4, SyncOnly DEF SyncRefreshed

----------------------------------------------------------------------------
(* The items of a page.                                                    *)

LEMMA FetchedBytes ==
  ASSUME Inv, NEW i \in Items, remote[i].exists
  PROVE  Fetched(i) \in Bytes
<1>1. Content[i] \in Seq(Bytes) /\ Len(Content[i]) \in Nat
  OBVIOUS
<1>2. remote[i].rev \in 1..Len(Content[i])
  BY <1>1 DEF Inv, RemoteInv
<1> QED BY <1>1, <1>2 DEF Fetched

\* Content goes on if the scans let it through, or the malware scan said nothing.
LEMMA VerdictFacts ==
  ASSUME Inv, NEW b, NEW answered \in BOOLEAN, Scanned(b, answered)
  PROVE  /\ Verdict(b, answered) \in {"infected", "blocked", "pending_scan"}
         /\ Verdict(b, answered) = "pending_scan" => b \notin Rejected(missed')
         /\ missed \subseteq missed' /\ missed' \subseteq Infected
<1>1. missed \subseteq Infected
  BY DEF Inv, DocsInv
<1>2. missed \subseteq missed' /\ missed' \subseteq Infected
  BY <1>1 DEF Scanned
<1>3. ~answered /\ b \in Infected => b \in missed'
  BY DEF Scanned
<1> QED BY <1>2, <1>3 DEF Verdict, Rejected

\* What was not rejected before is not rejected now.
LEMMA CleanGrows ==
  ASSUME NEW row, NEW m, NEW n, m \subseteq n, Clean(row, m)
  PROVE  Clean(row, n)
BY DEF Clean, Rejected

LEMMA UpsertedFacts ==
  ASSUME Inv, NEW i \in Items, Listed(i)
  PROVE  /\ Upserted(i) \in RowsRecord
         /\ Upserted(i).link = work.link
         /\ ItemWritten(Upserted(i).item, i)
<1> DEFINE old == work.item[i]
           gone == old.deleted /\ old.rev = sync.todo[i]
           row == [rev |-> sync.todo[i], version |-> sync.version, deleted |-> gone]
           item == [work.item EXCEPT ![i] = row]
<1>1. work \in RowsRecord /\ sync.todo[i] \in Nat /\ sync.version \in Nat
  BY DEF Inv, RowsInv, SyncInv, SyncTyped, Listed
<1>2. Upserted(i) = [work EXCEPT !.item = item]
  BY DEF Upserted
<1>3. gone \in BOOLEAN /\ (gone => old.deleted /\ old.rev = sync.todo[i])
  BY <1>1 DEF RowsRecord, ItemRows
<1> HIDE DEF gone
<1>4. /\ row \in [rev: Revision, version: Nat, deleted: BOOLEAN]
      /\ row.rev = sync.todo[i] /\ row.version = sync.version
      /\ row.deleted = gone
  BY <1>1, <1>3
<1> HIDE DEF row
<1>5. item \in ItemRows /\ item[i] = row /\ \A j \in Items \ {i} : item[j] = work.item[j]
  BY <1>1, <1>4 DEF RowsRecord, ItemRows
<1> HIDE DEF item
<1>6. /\ [work EXCEPT !.item = item] \in RowsRecord
      /\ [work EXCEPT !.item = item].link = work.link
      /\ [work EXCEPT !.item = item].item = item
  BY <1>1, <1>5 DEF RowsRecord
<1>7. ItemWritten(item, i)
  BY <1>3, <1>4, <1>5 DEF ItemWritten
<1> QED BY <1>2, <1>6, <1>7

\* A step that only records the item.
LEMMA RecordStep ==
  ASSUME Inv, NEW i \in Items, Listed(i), ItemDone(i, {}),
         work' = Upserted(i),
         UNCHANGED <<remote, changes, runs, missed, rows, docs, cursor, newDocs, task>>
  PROVE  Inv'
<1>1. View' = View
  BY DEF View, DocRow
<1>2. work' \in RowsRecord /\ work'.link = work.link /\ ItemWritten(work'.item, i)
  BY UpsertedFacts
<1>3. Linked(work'.link, View')
  BY <1>1, <1>2 DEF Inv, LinkInv
<1>4. /\ DOMAIN newDocs' \subseteq Docs
      /\ \A d \in DOMAIN newDocs' : Clean(newDocs'[d], missed') /\ newDocs'[d].status # "none"
      /\ missed \subseteq missed' /\ missed' \subseteq Infected
  BY DEF Inv, DocsInv
<1>5. {} \in SUBSET Docs
  OBVIOUS
<1>6. \A d \in Docs : View[d].status # "none" \/ d \in {} => View'[d].status # "none"
  BY <1>1
<1> QED BY <1>2, <1>3, <1>4, <1>5, <1>6, ItemStep

LEMMA TombstoneInv == ASSUME Inv, NEW i \in Items, TombstoneItem(i) PROVE Inv'
<1>1. Listed(i) /\ sync.todo[i] = 0
  BY DEF TombstoneItem
<1>2. ~sync.full
  BY <1>1 DEF Inv, SyncInv, SyncTyped, Listed
<1>3. CASE RollBack
  BY <1>3, RollBackStep DEF TombstoneItem
<1>4. CASE ~RollBack
  <2>1. /\ ItemDone(i, {}) /\ newDocs' = newDocs
        /\ work' = work \/ work' = [work EXCEPT !.item[i].deleted = TRUE, !.tomb = @ \cup {i}]
        /\ UNCHANGED <<remote, changes, runs, missed, rows, docs, cursor, task>>
    BY <1>4 DEF TombstoneItem
  <2>2. work' \in RowsRecord /\ work'.link = work.link
    <3>1. CASE work' = work
      BY <3>1 DEF Inv, RowsInv
    <3>2. CASE work' = [work EXCEPT !.item[i].deleted = TRUE, !.tomb = @ \cup {i}]
      <4>1. work \in RowsRecord
        BY DEF Inv, RowsInv
      <4> DEFINE old == work.item[i]
                 row == [old EXCEPT !.deleted = TRUE]
                 item == [work.item EXCEPT ![i] = row]
                 tomb == work.tomb \cup {i}
      <4>3. work' = [work EXCEPT !.item = item, !.tomb = tomb]
        BY <3>2
      <4>a. old \in [rev: Revision, version: Nat, deleted: BOOLEAN]
        BY <4>1 DEF RowsRecord, ItemRows
      <4> HIDE DEF old
      <4>2. row \in [rev: Revision, version: Nat, deleted: BOOLEAN]
        BY <4>a
      <4> HIDE DEF row
      <4>4. item \in ItemRows
        BY <4>1, <4>2 DEF RowsRecord, ItemRows
      <4>5. tomb \in SUBSET Items
        BY <4>1 DEF RowsRecord
      <4> HIDE DEF item, tomb
      <4> QED BY <4>1, <4>3, <4>4, <4>5 DEF RowsRecord
    <3> QED BY <2>1, <3>1, <3>2
  <2>3. View' = View
    BY <2>1 DEF View, DocRow
  <2>4. Linked(work'.link, View')
    BY <2>2, <2>3 DEF Inv, LinkInv
  <2>5. /\ DOMAIN newDocs' \subseteq Docs
        /\ \A d \in DOMAIN newDocs' : Clean(newDocs'[d], missed') /\ newDocs'[d].status # "none"
        /\ missed \subseteq missed' /\ missed' \subseteq Infected
    BY <2>1 DEF Inv, DocsInv
  <2>6. {} \in SUBSET Docs
    OBVIOUS
  <2>7. \A d \in Docs : View[d].status # "none" \/ d \in {} => View'[d].status # "none"
    BY <2>3
  <2> QED BY <1>1, <1>2, <2>1, <2>2, <2>4, <2>5, <2>6, <2>7, ItemStep
<1> QED BY <1>3, <1>4

LEMMA DuplicateInv == ASSUME Inv, NEW i \in Items, IngestDuplicate(i) PROVE Inv'
<1>1. PICK d \in Duplicates(Fetched(i)) :
        work' = [Upserted(i) EXCEPT !.link[i] = [doc |-> d, bytes |-> Fetched(i)]]
  BY DEF IngestDuplicate
<1> DEFINE b == Fetched(i)
           link == [work.link EXCEPT ![i] = [doc |-> d, bytes |-> b]]
<1>2. /\ Listed(i) /\ ItemDone(i, {}) /\ work.link[i] = NoLink
      /\ UNCHANGED <<remote, changes, runs, missed, rows, docs, cursor, newDocs, task>>
  BY DEF IngestDuplicate, ToFetch
<1>3. b \in Bytes
  BY FetchedBytes DEF IngestDuplicate
<1>4. View' = View
  BY <1>2 DEF View, DocRow
<1>5. d \in Docs /\ View[d].bytes = b /\ View[d].status # "none"
  BY DEF Duplicates, View
<1>6. work.link \in Links /\ Linked(work.link, View)
  BY DEF Inv, RowsInv, RowsRecord, LinkInv
<1>7. Upserted(i) \in RowsRecord /\ Upserted(i).link = work.link
  BY <1>2, UpsertedFacts
<1> HIDE DEF b
<1>8. Linked(link, View)
  BY <1>2, <1>3, <1>5, <1>6, LinkedFirst
<1>9. link \in Links
  BY <1>3, <1>5, <1>6 DEF Links
<1>10. work' = [Upserted(i) EXCEPT !.link = link]
  BY <1>1, <1>7 DEF b, RowsRecord
<1> HIDE DEF link
<1>11. work' \in RowsRecord /\ work'.link = link /\ work'.item = Upserted(i).item
  BY <1>7, <1>9, <1>10 DEF RowsRecord
<1>12. ItemWritten(work'.item, i)
  BY <1>2, <1>11, UpsertedFacts
<1>13. /\ DOMAIN newDocs' \subseteq Docs
       /\ \A e \in DOMAIN newDocs' : Clean(newDocs'[e], missed') /\ newDocs'[e].status # "none"
       /\ missed \subseteq missed' /\ missed' \subseteq Infected
  BY <1>2 DEF Inv, DocsInv
<1>14. {} \in SUBSET Docs
  OBVIOUS
<1>15. \A e \in Docs : View[e].status # "none" \/ e \in {} => View'[e].status # "none"
  BY <1>4
<1>16. Linked(work'.link, View')
  BY <1>4, <1>8, <1>11
<1> QED BY <1>2, <1>11, <1>12, <1>13, <1>14, <1>15, <1>16, ItemStep

\* The run writes a document.
LEMMA PutDoc ==
  ASSUME Inv, NEW d \in Docs, NEW row, Clean(row, missed'), row.status # "none", docs' = docs,
         missed \subseteq missed',
         newDocs' = [e \in DOMAIN newDocs \cup {d} |-> IF e = d THEN row ELSE newDocs[e]]
  PROVE  /\ DOMAIN newDocs' \subseteq Docs
         /\ \A e \in DOMAIN newDocs' : Clean(newDocs'[e], missed') /\ newDocs'[e].status # "none"
         /\ View'[d] = row
         /\ \A e \in Docs \ {d} : View'[e] = View[e]
<1>1. DOMAIN newDocs \subseteq Docs
      /\ \A e \in DOMAIN newDocs : Clean(newDocs[e], missed') /\ newDocs[e].status # "none"
  BY CleanGrows DEF Inv, DocsInv
<1>2. DOMAIN newDocs' = DOMAIN newDocs \cup {d}
  OBVIOUS
<1>3. newDocs'[d] = row /\ \A e \in DOMAIN newDocs \ {d} : newDocs'[e] = newDocs[e]
  OBVIOUS
<1>4. \A e \in Docs : /\ View[e] = IF e \in DOMAIN newDocs THEN newDocs[e] ELSE docs[e]
                      /\ View'[e] = IF e \in DOMAIN newDocs' THEN newDocs'[e] ELSE docs[e]
  BY DEF View, DocRow
<1>5. \A e \in DOMAIN newDocs' : Clean(newDocs'[e], missed') /\ newDocs'[e].status # "none"
  BY <1>1, <1>2, <1>3
<1> QED BY <1>1, <1>2, <1>3, <1>4, <1>5

LEMMA NewInv == ASSUME Inv, NEW i \in Items, IngestNew(i) PROVE Inv'
<1> DEFINE b == Fetched(i)
<1>1. PICK d \in Docs, answered \in BOOLEAN :
        LET clean == Verdict(b, answered) = "pending_scan"
            row == [status |-> Verdict(b, answered), bytes |-> b,
                    object |-> IF clean THEN b ELSE NoBytes, index |-> NoBytes]
        IN /\ DocRow(d).status = "none"
           /\ newDocs' = [e \in DOMAIN newDocs \cup {d} |-> IF e = d THEN row ELSE newDocs[e]]
           /\ work' = IF clean
                        THEN [Upserted(i) EXCEPT !.link[i] = [doc |-> d, bytes |-> b]]
                        ELSE Upserted(i)
           /\ ItemDone(i, IF clean THEN {d} ELSE {})
           /\ Scanned(b, answered)
  BY DEF IngestNew, Answers
<1> DEFINE clean == Verdict(b, answered) = "pending_scan"
           row == [status |-> Verdict(b, answered), bytes |-> b,
                   object |-> IF clean THEN b ELSE NoBytes, index |-> NoBytes]
<1> DEFINE link == [work.link EXCEPT ![i] = [doc |-> d, bytes |-> b]]
           p == IF clean THEN {d} ELSE {}
<1>2. /\ Listed(i) /\ work.link[i] = NoLink
      /\ UNCHANGED <<remote, changes, runs, rows, docs, cursor, task>>
  BY DEF IngestNew, ToFetch
<1>v. /\ Verdict(b, answered) \in {"infected", "blocked", "pending_scan"}
      /\ clean => b \notin Rejected(missed')
      /\ missed \subseteq missed' /\ missed' \subseteq Infected
  BY <1>1, VerdictFacts
<1>3. b \in Bytes
  BY FetchedBytes DEF IngestNew
<1>4. View[d].status = "none"
  BY <1>1 DEF View
<1> HIDE DEF b
<1>5. Clean(row, missed') /\ row.status # "none" /\ row.bytes = b
  BY <1>3, <1>v, ConstantFacts DEF Clean, DocRecord
<1>r. newDocs' = [e \in DOMAIN newDocs \cup {d} |-> IF e = d THEN row ELSE newDocs[e]]
  BY <1>1
<1> HIDE DEF row
<1>6. /\ DOMAIN newDocs' \subseteq Docs
      /\ \A e \in DOMAIN newDocs' : Clean(newDocs'[e], missed') /\ newDocs'[e].status # "none"
      /\ View'[d] = row
      /\ \A e \in Docs \ {d} : View'[e] = View[e]
  BY <1>2, <1>5, <1>r, <1>v, PutDoc
<1>7. work.link \in Links /\ Linked(work.link, View)
  BY DEF Inv, RowsInv, RowsRecord, LinkInv
<1>8. Linked(work.link, View')
  <2>1. \A e \in Docs \ {d} : View'[e] = View[e]
    BY <1>6
  <2>2. d \in Docs /\ View[d].status = "none"
    BY <1>4
  <2> QED BY <1>7, <2>1, <2>2, SMTT(30) DEF Linked, Links
<1>9. /\ Upserted(i) \in RowsRecord /\ Upserted(i).link = work.link
      /\ ItemWritten(Upserted(i).item, i)
  BY <1>2, UpsertedFacts
<1>10. /\ work' \in RowsRecord
       /\ ItemWritten(work'.item, i)
       /\ Linked(work'.link, View')
  <2>1. CASE clean
    <3>1. Linked(link, View')
      BY <1>2, <1>3, <1>5, <1>6, <1>7, <1>8, LinkedFirst
    <3>2. link \in Links
      BY <1>3, <1>7 DEF Links
    <3>3. work' = [Upserted(i) EXCEPT !.link = link]
      BY <1>1, <1>9, <2>1 DEF RowsRecord
    <3> HIDE DEF link
    <3>4. work' \in RowsRecord /\ work'.link = link /\ work'.item = Upserted(i).item
      BY <1>9, <3>2, <3>3 DEF RowsRecord
    <3> QED BY <1>9, <3>1, <3>4
  <2>2. CASE ~clean
    BY <1>1, <1>8, <1>9, <2>2
  <2> QED BY <2>1, <2>2
<1>11. p \in SUBSET Docs /\ ItemDone(i, p)
  BY <1>1
<1>12. \A e \in Docs : View[e].status # "none" \/ e \in p => View'[e].status # "none"
  BY <1>5, <1>6
<1> HIDE DEF p
<1> QED BY <1>2, <1>6, <1>10, <1>11, <1>12, <1>v, ItemStep

LEMMA ReingestInv == ASSUME Inv, NEW i \in Items, ReingestChanged(i) PROVE Inv'
<1> DEFINE b == Fetched(i)
           d == work.link[i].doc
<1>0. PICK answered \in BOOLEAN :
        LET clean == Verdict(b, answered) = "pending_scan"
            row == [DocRow(d) EXCEPT !.status = Verdict(b, answered), !.bytes = b,
                                     !.object = IF clean THEN b ELSE @]
        IN /\ newDocs' = [e \in DOMAIN newDocs \cup {d} |-> IF e = d THEN row ELSE newDocs[e]]
           /\ work' = [Upserted(i) EXCEPT !.link[i].bytes = b]
           /\ ItemDone(i, IF clean THEN {d} ELSE {})
           /\ Scanned(b, answered)
  BY DEF ReingestChanged, Answers
<1> DEFINE clean == Verdict(b, answered) = "pending_scan"
           row == [DocRow(d) EXCEPT !.status = Verdict(b, answered), !.bytes = b,
                                    !.object = IF clean THEN b ELSE @]
           link == [work.link EXCEPT ![i].bytes = b]
           p == IF clean THEN {d} ELSE {}
<1>1. /\ Listed(i) /\ work.link[i] # NoLink
      /\ newDocs' = [e \in DOMAIN newDocs \cup {d} |-> IF e = d THEN row ELSE newDocs[e]]
      /\ work' = [Upserted(i) EXCEPT !.link[i].bytes = b]
      /\ ItemDone(i, p)
      /\ UNCHANGED <<remote, changes, runs, rows, docs, cursor, task>>
  BY <1>0 DEF ReingestChanged, ToFetch
<1>v. /\ Verdict(b, answered) \in {"infected", "blocked", "pending_scan"}
      /\ clean => b \notin Rejected(missed')
      /\ missed \subseteq missed' /\ missed' \subseteq Infected
  BY <1>0, VerdictFacts
<1>2. b \in Bytes
  BY FetchedBytes DEF ReingestChanged
<1>3. work.link \in Links /\ Linked(work.link, View)
  BY DEF Inv, RowsInv, RowsRecord, LinkInv
<1>4. d \in Docs
  BY <1>1, <1>3 DEF Links, Linked
<1>5. Clean(DocRow(d), missed') /\ View[d] = DocRow(d)
  BY <1>4, <1>v, ViewFacts, CleanGrows DEF Inv, View
<1> HIDE DEF b
<1>7. Clean(row, missed') /\ row.status # "none" /\ row.bytes = b
  <2> DEFINE old == DocRow(d)
             object == IF clean THEN b ELSE old.object
  <2>1. row = [old EXCEPT !.status = Verdict(b, answered), !.bytes = b, !.object = object]
    OBVIOUS
  <2>2. old \in DocRecord /\ old.object \notin Rejected(missed') /\ old.index \notin Rejected(missed')
    BY <1>5 DEF Clean
  <2>3. /\ object \in Bytes \cup {NoBytes} /\ object \notin Rejected(missed')
        /\ Verdict(b, answered) \in DocumentStatus /\ Verdict(b, answered) # "none"
    BY <1>2, <1>v, <2>2 DEF DocRecord
  <2> HIDE DEF old, object, row
  <2> QED BY <1>2, <2>1, <2>2, <2>3 DEF Clean, DocRecord
<1> HIDE DEF row, d
<1>8. /\ DOMAIN newDocs' \subseteq Docs
      /\ \A e \in DOMAIN newDocs' : Clean(newDocs'[e], missed') /\ newDocs'[e].status # "none"
      /\ View'[d] = row
      /\ \A e \in Docs \ {d} : View'[e] = View[e]
  BY <1>1, <1>4, <1>7, <1>v, PutDoc
<1>9. Linked(link, View')
  BY <1>1, <1>2, <1>3, <1>7, <1>8, LinkedInPlace DEF d
<1>10. link \in Links
  <2> DEFINE old == work.link[i]
             new == [old EXCEPT !.bytes = b]
  <2>1. old \in [doc: Docs \cup {NoDoc}, bytes: Bytes \cup {NoBytes}]
    BY <1>3 DEF Links
  <2> HIDE DEF old
  <2>2. new \in [doc: Docs \cup {NoDoc}, bytes: Bytes \cup {NoBytes}]
    BY <1>2, <2>1
  <2>3. link = [work.link EXCEPT ![i] = new]
    BY DEF old
  <2> HIDE DEF new, link
  <2> QED BY <1>3, <2>2, <2>3 DEF Links
<1>11. /\ Upserted(i) \in RowsRecord /\ Upserted(i).link = work.link
       /\ ItemWritten(Upserted(i).item, i)
  BY <1>1, UpsertedFacts
<1>12. work' = [Upserted(i) EXCEPT !.link = link]
  <2> DEFINE u == Upserted(i)
  <2>1. work' = [u EXCEPT !.link = [u.link EXCEPT ![i].bytes = b]]
    BY <1>1
  <2> QED BY <1>11, <2>1
<1> HIDE DEF link
<1>13. work' \in RowsRecord /\ work'.link = link /\ work'.item = Upserted(i).item
  BY <1>10, <1>11, <1>12 DEF RowsRecord
<1>14. ItemWritten(work'.item, i)
  BY <1>11, <1>13
<1>15. p \in SUBSET Docs
  BY <1>4
<1>16. \A e \in Docs : View[e].status # "none" \/ e \in p => View'[e].status # "none"
  BY <1>7, <1>8
<1>17. Linked(work'.link, View')
  BY <1>9, <1>13
<1> HIDE DEF p
<1> QED BY <1>1, <1>8, <1>13, <1>14, <1>15, <1>16, <1>17, <1>v, ItemStep

----------------------------------------------------------------------------
(* The end of a run.                                                       *)

\* What a full run commits.
LEMMA CompleteFullFacts ==
  ASSUME Inv, CompleteFull
  PROVE  \E final \in RowsRecord :
           /\ Commit(final, sync.pending)
           /\ final.link = work.link
           /\ cursor' \in BOOLEAN
           /\ \A i \in Items :
                IF i \in Unlisted
                  THEN /\ final.item[i].deleted /\ final.item[i].rev = work.item[i].rev
                       /\ final.item[i].version = work.item[i].version
                  ELSE final.item[i] = work.item[i]
<1> DEFINE marked(j) == [work.item[j] EXCEPT !.deleted = TRUE]
           item == [j \in Items |-> IF j \in Unlisted THEN marked(j) ELSE work.item[j]]
           tomb == work.tomb \cup Unlisted
           final == [work EXCEPT !.item = item, !.tomb = tomb]
<1> DEFINE written == [work EXCEPT !.item = [i \in Items |->
                                           IF i \in Unlisted
                                             THEN [@[i] EXCEPT !.deleted = TRUE]
                                             ELSE @[i]],
                                !.tomb = @ \cup Unlisted]
<1>a. Commit(written, sync.pending) /\ cursor' = (sync.page > 1)
  <2> HIDE DEF Inv
  <2> QED BY DEF CompleteFull
<1>b. written = final
  OBVIOUS
<1>1. Commit(final, sync.pending) /\ cursor' \in BOOLEAN
  <2> HIDE DEF written, final
  <2> QED BY <1>a, <1>b
<1>2. work \in RowsRecord
  BY DEF Inv, RowsInv
<1>3. \A j \in Items :
        /\ marked(j) \in [rev: Revision, version: Nat, deleted: BOOLEAN]
        /\ marked(j).deleted = TRUE /\ marked(j).rev = work.item[j].rev
        /\ marked(j).version = work.item[j].version
  <2> SUFFICES ASSUME NEW j \in Items
               PROVE  /\ marked(j) \in [rev: Revision, version: Nat, deleted: BOOLEAN]
                      /\ marked(j).deleted = TRUE /\ marked(j).rev = work.item[j].rev
                      /\ marked(j).version = work.item[j].version
    OBVIOUS
  <2> DEFINE old == work.item[j]
             new == [old EXCEPT !.deleted = TRUE]
  <2>1. old \in [rev: Revision, version: Nat, deleted: BOOLEAN]
    BY <1>2 DEF RowsRecord, ItemRows
  <2>2. marked(j) = new
    OBVIOUS
  <2>3. SUFFICES /\ new \in [rev: Revision, version: Nat, deleted: BOOLEAN]
                 /\ new.deleted = TRUE /\ new.rev = old.rev /\ new.version = old.version
    BY <2>2
  <2> HIDE DEF old, marked
  <2> QED BY <2>1
<1> HIDE DEF marked
<1>4. item \in ItemRows
  BY <1>2, <1>3 DEF RowsRecord, ItemRows
<1>5. tomb \in SUBSET Items
  BY <1>2 DEF RowsRecord, Unlisted
<1>6. \A i \in Items : IF i \in Unlisted
                         THEN /\ item[i].deleted /\ item[i].rev = work.item[i].rev
                              /\ item[i].version = work.item[i].version
                         ELSE item[i] = work.item[i]
  BY <1>3
<1> HIDE DEF item, tomb
<1>7. final \in RowsRecord /\ final.link = work.link /\ final.item = item
  BY <1>2, <1>4, <1>5 DEF RowsRecord
<1> HIDE DEF final
<1> QED BY <1>1, <1>6, <1>7

LEMMA CompleteFullInv == ASSUME Inv, CompleteFull PROVE Inv'
<1>1. UNCHANGED <<remote, changes, runs, missed, task>>
  BY DEF CompleteFull
<1>2. PICK final \in RowsRecord :
        Commit(final, sync.pending) /\ final.link = work.link /\ cursor' \in BOOLEAN
  BY CompleteFullFacts
<1>3. sync.pending \in SUBSET sync.pending
  OBVIOUS
<1> QED BY <1>1, <1>2, <1>3, CommitStep

LEMMA TombstoneClashInv == ASSUME Inv, TombstoneClash PROVE Inv'
BY RollBackStep DEF TombstoneClash

LEMMA CompleteDeltaInv == ASSUME Inv, CompleteDelta PROVE Inv'
<1>1. work \in RowsRecord /\ cursor \in BOOLEAN
  BY DEF Inv, RowsInv
<1>2. /\ Commit(work, sync.pending)
      /\ UNCHANGED <<remote, changes, runs, missed, cursor, task>>
  BY DEF CompleteDelta
<1>3. sync.pending \in SUBSET sync.pending /\ cursor' \in BOOLEAN
  BY <1>1, <1>2
<1> QED BY <1>1, <1>2, <1>3, CommitStep

LEMMA SyncFailsInv == ASSUME Inv, SyncFails PROVE Inv'
<1>1. work \in RowsRecord /\ cursor \in BOOLEAN
  BY DEF Inv, RowsInv
<1>2. Commit(work, {}) /\ UNCHANGED <<remote, changes, runs, missed, cursor, task>>
  BY DEF SyncFails
<1>3. {} \in SUBSET sync.pending /\ cursor' \in BOOLEAN
  BY <1>1, <1>2
<1> QED BY <1>1, <1>2, <1>3, CommitStep

LEMMA WorkerLostInv == ASSUME Inv, WorkerLost PROVE Inv'
BY RollBackStep DEF WorkerLost

LEMMA DispatchInv ==
  ASSUME Inv, NEW d \in Docs, NEW t \in Tasks, Dispatch(d, t)
  PROVE  Inv'
<1> USE ConstantFacts, IdleFacts
<1>1. /\ sync.phase = "dispatch" /\ d \in sync.pending
      /\ work = rows /\ newDocs = <<>> /\ SyncTyped(sync)
  BY DEF Inv, SyncInv, Dispatch
<1>2. UNCHANGED <<remote, changes, runs, missed, rows, docs, cursor, work, newDocs>>
  BY DEF Dispatch
<1>3. View = docs /\ View' = View
  BY <1>1, <1>2, ViewFacts DEF Inv, View, DocRow
<1>4. docs[d].status # "none"
  BY <1>1, <1>3 DEF Inv, PendingInv
<1> DEFINE new == [NoTask EXCEPT !.pc = "queued", !.doc = d]
<1>5. new \in TaskRecord /\ new.pc = "queued" /\ new.doc = d /\ new.bytes = NoBytes
  BY DEF TaskRecord
<1>6. task' = [task EXCEPT ![t] = new]
  BY DEF Dispatch
<1> HIDE DEF new
<1>7. TaskInv'
  <2>1. task' \in [Tasks -> TaskRecord]
    BY <1>5, <1>6 DEF Inv, TaskInv
  <2>2. task'[t] = new /\ \A u \in Tasks \ {t} : task'[u] = task[u]
    BY <1>6 DEF Inv, TaskInv
  <2> QED BY <1>2, <1>4, <1>5, <2>1, <2>2 DEF Inv, TaskInv
<1>8. /\ SyncTyped(sync') /\ sync'.pending \subseteq sync.pending
      /\ sync'.phase = "idle" => sync' = Idle
      /\ sync'.full => /\ sync.full /\ sync'.version = sync.version
                       /\ sync'.seen = sync.seen /\ sync'.todo = sync.todo
  <2>1. CASE sync.pending = {d}
    <3>1. sync' = Idle
      BY <2>1 DEF Dispatch
    <3> QED BY <3>1, IdleTyped
  <2>2. CASE sync.pending # {d}
    <3>1. sync' = [sync EXCEPT !.pending = sync.pending \ {d}]
      BY <2>2 DEF Dispatch
    <3>2. /\ DOMAIN sync' = SyncFields
          /\ sync'.phase = sync.phase /\ sync'.full = sync.full /\ sync'.more = sync.more
          /\ sync'.page = sync.page /\ sync'.todo = sync.todo /\ sync'.seen = sync.seen
          /\ sync'.version = sync.version
          /\ sync'.pending = sync.pending \ {d}
      BY <1>1, <3>1 DEF SyncTyped, SyncFields
    <3>3. SyncTyped(sync')
      BY <1>1, <3>2 DEF SyncTyped
    <3> QED BY <1>1, <3>2, <3>3
  <2> QED BY <2>1, <2>2
<1>9. SyncInv'
  BY <1>1, <1>2, <1>8 DEF SyncInv
<1>10. RemoteInv' /\ RowsInv' /\ DocsInv'
  BY <1>2 DEF Inv, RemoteInv, RowsInv, DocsInv, Clean
<1>11. PendingInv'
  BY <1>3, <1>8 DEF Inv, PendingInv
<1>12. LinkInv'
  BY <1>2, <1>3 DEF Inv, LinkInv, Linked
<1>13. MirrorInv'
  BY <1>2, <1>8 DEF Inv, MirrorInv
<1> QED BY <1>7, <1>9, <1>10, <1>11, <1>12, <1>13 DEF Inv

----------------------------------------------------------------------------
(* The items that are only recorded.                                       *)

LEMMA UnchangedInv == ASSUME Inv, NEW i \in Items, UpsertUnchanged(i) PROVE Inv'
BY RecordStep DEF UpsertUnchanged

LEMMA FailsInv == ASSUME Inv, NEW i \in Items, IngestFails(i) PROVE Inv'
BY RecordStep DEF IngestFails, ToFetch

LEMMA SameInv == ASSUME Inv, NEW i \in Items, ReingestSame(i) PROVE Inv'
BY RecordStep DEF ReingestSame, ToFetch

----------------------------------------------------------------------------
(* The process tasks and deletion.                                         *)

\* A task goes, and nothing else, or reads what is stored.
LEMMA TaskOnly ==
  ASSUME Inv, UNCHANGED <<remote, changes, runs, missed, rows, docs, cursor, sync, work, newDocs>>,
         TaskInv'
  PROVE  Inv'
<1>1. View' = View
  BY DEF View, DocRow
<1>2. RemoteInv' /\ RowsInv' /\ DocsInv'
  BY DEF Inv, RemoteInv, RowsInv, DocsInv, Clean
<1>3. SyncInv' /\ MirrorInv'
  BY DEF Inv, SyncInv, SyncTyped, MirrorInv
<1>4. PendingInv' /\ LinkInv'
  BY <1>1 DEF Inv, PendingInv, LinkInv, Linked
<1> QED BY <1>2, <1>3, <1>4 DEF Inv

\* What a task that is there has.
LEMMA TaskFacts ==
  ASSUME Inv, NEW t \in Tasks, task[t].pc # "none"
  PROVE  /\ task \in [Tasks -> TaskRecord]
         /\ task[t] # NoTask /\ task[t].doc \in Docs
         /\ docs[task[t].doc].status # "none" /\ Clean(docs[task[t].doc], missed)
         /\ task[t].bytes \notin Rejected(missed) /\ task[t].bytes \in Bytes \cup {NoBytes}
         /\ \A u \in Tasks : task[u].bytes \notin Rejected(missed)
<1>1. TaskInv /\ DocsInv
  BY DEF Inv
<1>2. task[t] # NoTask
  OBVIOUS
<1>3. task[t] \in TaskRecord
  BY <1>1 DEF TaskInv
<1>4. task[t].bytes \in Bytes \cup {NoBytes}
  BY <1>3 DEF TaskRecord
<1> QED BY <1>1, <1>2, <1>4 DEF TaskInv, DocsInv

LEMMA BeginTaskInv == ASSUME Inv, NEW t \in Tasks, BeginTask(t) PROVE Inv'
<1> DEFINE d == task[t].doc
           row == [docs[d] EXCEPT !.status = "processing"]
<1>1. /\ task[t].pc = "queued"
      /\ UNCHANGED <<remote, changes, runs, missed, rows, cursor, sync, work, newDocs>>
  BY DEF BeginTask
<1>2. CASE docs[d].status \in {"processing", "indexed", "deleted"}
  <2>1. task' = [task EXCEPT ![t] = NoTask] /\ docs' = docs
    BY <1>2 DEF BeginTask
  <2>2. TaskInv'
    BY <1>1, <2>1, ConstantFacts DEF Inv, TaskInv, Rejected
  <2> QED BY <1>1, <2>1, <2>2, TaskOnly
<1>3. CASE ~(docs[d].status \in {"processing", "indexed", "deleted"})
  <2>1. Unlocked(d) /\ SetDoc(d, row) /\ task' = [task EXCEPT ![t].pc = "begun"]
    BY <1>3 DEF BeginTask
  <2>2. /\ task \in [Tasks -> TaskRecord] /\ task[t] # NoTask /\ d \in Docs
        /\ Clean(docs[d], missed) /\ \A u \in Tasks : task[u].bytes \notin Rejected(missed)
    BY <1>1, TaskFacts
  <2> DEFINE old == task[t]
             new == [old EXCEPT !.pc = "begun"]
  <2>3. old \in TaskRecord
    BY <2>2
  <2>4. new \in TaskRecord /\ new.pc = "begun" /\ new.doc = old.doc /\ new.bytes = old.bytes
    <3> HIDE DEF old
    <3> QED BY <2>3 DEF TaskRecord
  <2>5. task' = [task EXCEPT ![t] = new]
    BY <2>1
  <2> HIDE DEF new
  <2>6. task' \in [Tasks -> TaskRecord]
    BY <2>2, <2>4, <2>5
  <2>7. \A u \in Tasks :
          /\ task'[u].bytes \notin Rejected(missed)
          /\ task'[u] = task[u] \/ task'[u] = NoTask
             \/ (task[u] # NoTask /\ task'[u].pc # "none" /\ task'[u].doc = task[u].doc)
    BY <2>2, <2>4, <2>5
  <2>8. Clean(row, missed) /\ row.status # "none" /\ row.bytes = docs[d].bytes
    <3> DEFINE was == docs[d]
               is == [was EXCEPT !.status = "processing"]
    <3>1. was \in DocRecord /\ was.object \notin Rejected(missed) /\ was.index \notin Rejected(missed)
      BY <2>2 DEF Clean
    <3>2. SUFFICES Clean(is, missed) /\ is.status # "none" /\ is.bytes = was.bytes
      OBVIOUS
    <3> HIDE DEF was
    <3> QED BY <3>1 DEF Clean, DocRecord
  <2> HIDE DEF row, d
  <2> QED BY <1>1, <2>1, <2>2, <2>6, <2>7, <2>8, DocStep
<1> QED BY <1>2, <1>3

LEMMA ReadObjectInv == ASSUME Inv, NEW t \in Tasks, ReadObject(t) PROVE Inv'
<1> DEFINE old == task[t]
           object == docs[old.doc].object
           new == [old EXCEPT !.pc = "indexing", !.bytes = object]
<1>1. /\ old.pc = "begun"
      /\ UNCHANGED <<remote, changes, runs, missed, rows, docs, cursor, sync, work, newDocs>>
      /\ task' = [task EXCEPT ![t].pc = "indexing", ![t].bytes = object]
  BY DEF ReadObject
<1>2. /\ task \in [Tasks -> TaskRecord] /\ old # NoTask /\ old.doc \in Docs
      /\ docs[old.doc].status # "none" /\ Clean(docs[old.doc], missed)
  BY <1>1, TaskFacts
<1>3. old \in TaskRecord /\ object \in Bytes \cup {NoBytes} /\ object \notin Rejected(missed)
  BY <1>2 DEF Clean, DocRecord
<1>4. task' = [task EXCEPT ![t] = new]
  BY <1>1, <1>2
<1> HIDE DEF object
<1>5. /\ new \in TaskRecord /\ new.pc = "indexing" /\ new.doc = old.doc
      /\ new.bytes = object
  <2> HIDE DEF old
  <2> QED BY <1>3 DEF TaskRecord
<1> HIDE DEF new
<1>6. TaskInv'
  <2>1. task' \in [Tasks -> TaskRecord]
    BY <1>2, <1>4, <1>5
  <2>2. task'[t] = new /\ \A u \in Tasks \ {t} : task'[u] = task[u]
    BY <1>2, <1>4
  <2> QED BY <1>1, <1>2, <1>3, <1>5, <2>1, <2>2 DEF Inv, TaskInv
<1> QED BY <1>1, <1>6, TaskOnly

LEMMA FinishTaskInv == ASSUME Inv, NEW t \in Tasks, FinishTask(t) PROVE Inv'
<1> DEFINE d == task[t].doc
           b == task[t].bytes
           row == [docs[d] EXCEPT !.status = "indexed", !.index = b]
<1>1. /\ task[t].pc = "indexing" /\ Unlocked(d) /\ SetDoc(d, row)
      /\ task' = [task EXCEPT ![t] = NoTask]
      /\ UNCHANGED <<remote, changes, runs, missed, rows, cursor, sync, work, newDocs>>
  BY DEF FinishTask
<1>2. /\ task \in [Tasks -> TaskRecord] /\ d \in Docs /\ Clean(docs[d], missed)
      /\ b \notin Rejected(missed) /\ b \in Bytes \cup {NoBytes}
      /\ \A u \in Tasks : task[u].bytes \notin Rejected(missed)
  BY <1>1, TaskFacts
<1>3. task' \in [Tasks -> TaskRecord]
  BY <1>1, <1>2, ConstantFacts
<1>4. \A u \in Tasks : task'[u].bytes \notin Rejected(missed) /\ (task'[u] = task[u] \/ task'[u] = NoTask)
  BY <1>1, <1>2, ConstantFacts
<1> HIDE DEF b
<1>5. Clean(row, missed) /\ row.status # "none" /\ row.bytes = docs[d].bytes
  <2> DEFINE was == docs[d]
             is == [was EXCEPT !.status = "indexed", !.index = b]
  <2>1. was \in DocRecord /\ was.object \notin Rejected(missed) /\ was.index \notin Rejected(missed)
    BY <1>2 DEF Clean
  <2>2. SUFFICES Clean(is, missed) /\ is.status # "none" /\ is.bytes = was.bytes
    OBVIOUS
  <2> HIDE DEF was
  <2> QED BY <1>2, <2>1 DEF Clean, DocRecord
<1> HIDE DEF row, d
<1> QED BY <1>1, <1>2, <1>3, <1>4, <1>5, DocStep

LEMMA FailTaskInv == ASSUME Inv, NEW t \in Tasks, FailTask(t) PROVE Inv'
<1> DEFINE d == task[t].doc
           row == [docs[d] EXCEPT !.status = "failed"]
<1>1. /\ task[t].pc \in {"begun", "indexing"} /\ Unlocked(d) /\ SetDoc(d, row)
      /\ task' = [task EXCEPT ![t] = NoTask]
      /\ UNCHANGED <<remote, changes, runs, missed, rows, cursor, sync, work, newDocs>>
  BY DEF FailTask
<1>2. /\ task \in [Tasks -> TaskRecord] /\ d \in Docs /\ Clean(docs[d], missed)
      /\ \A u \in Tasks : task[u].bytes \notin Rejected(missed)
  BY <1>1, TaskFacts
<1>3. task' \in [Tasks -> TaskRecord]
  BY <1>1, <1>2, ConstantFacts
<1>4. \A u \in Tasks : task'[u].bytes \notin Rejected(missed) /\ (task'[u] = task[u] \/ task'[u] = NoTask)
  BY <1>1, <1>2, ConstantFacts
<1>5. Clean(row, missed) /\ row.status # "none" /\ row.bytes = docs[d].bytes
  <2> DEFINE was == docs[d]
             is == [was EXCEPT !.status = "failed"]
  <2>1. was \in DocRecord /\ was.object \notin Rejected(missed) /\ was.index \notin Rejected(missed)
    BY <1>2 DEF Clean
  <2>2. SUFFICES Clean(is, missed) /\ is.status # "none" /\ is.bytes = was.bytes
    OBVIOUS
  <2> HIDE DEF was
  <2> QED BY <2>1 DEF Clean, DocRecord
<1> HIDE DEF row, d
<1> QED BY <1>1, <1>2, <1>3, <1>4, <1>5, DocStep

LEMMA DeleteInv == ASSUME Inv, NEW d \in Docs, DeleteDocument(d) PROVE Inv'
<1> DEFINE row == [docs[d] EXCEPT !.status = "deleted", !.object = NoBytes, !.index = NoBytes]
<1>1. /\ Unlocked(d) /\ SetDoc(d, row)
      /\ UNCHANGED <<remote, changes, runs, missed, rows, cursor, sync, work, newDocs, task>>
  BY DEF DeleteDocument
<1>2. /\ task' \in [Tasks -> TaskRecord]
      /\ \A u \in Tasks : task'[u].bytes \notin Rejected(missed) /\ task'[u] = task[u]
  BY <1>1 DEF Inv, TaskInv
<1>3. Clean(row, missed) /\ row.status # "none" /\ row.bytes = docs[d].bytes
  <2> DEFINE was == docs[d]
             is == [was EXCEPT !.status = "deleted", !.object = NoBytes, !.index = NoBytes]
  <2>1. was \in DocRecord
    BY DEF Inv, DocsInv
  <2>2. SUFFICES Clean(is, missed) /\ is.status # "none" /\ is.bytes = was.bytes
    OBVIOUS
  <2> HIDE DEF was
  <2> QED BY <2>1, ConstantFacts DEF Clean, DocRecord
<1> HIDE DEF row
<1> QED BY <1>1, <1>2, <1>3, DocStep

----------------------------------------------------------------------------
(* The invariant, and what follows from it.                                *)

LEMMA NextInv == Inv /\ [Next]_vars => Inv'
<1> SUFFICES ASSUME Inv, [Next]_vars PROVE Inv'
  OBVIOUS
<1>1. CASE \E i \in Items : Edit(i) \/ Remove(i) \/ Restore(i)
  BY <1>1, ProviderInv
<1>2. CASE Start \/ Redelivered
  BY <1>2, StartInv, RedeliveredInv
<1>3. CASE SyncStep
  <2>1. CASE ListPage
    BY <2>1, ListPageInv
  <2>2. CASE DeltaPage
    BY <2>2, DeltaPageInv
  <2>3. CASE PageDone
    BY <2>3, PageDoneInv
  <2>4. CASE CompleteFull \/ TombstoneClash
    BY <2>4, CompleteFullInv, TombstoneClashInv
  <2>5. CASE CompleteDelta
    BY <2>5, CompleteDeltaInv
  <2>6. ASSUME NEW i \in Items,
               \/ TombstoneItem(i) \/ UpsertUnchanged(i) \/ IngestDuplicate(i) \/ IngestNew(i)
               \/ ReingestSame(i) \/ ReingestChanged(i) \/ IngestFails(i)
        PROVE  Inv'
    BY <2>6, TombstoneInv, UnchangedInv, DuplicateInv, NewInv, SameInv, ReingestInv, FailsInv
  <2>7. ASSUME NEW d \in Docs, NEW t \in Tasks, Dispatch(d, t) PROVE Inv'
    BY <2>7, DispatchInv
  <2> QED BY <1>3, <2>1, <2>2, <2>3, <2>4, <2>5, <2>6, <2>7 DEF SyncStep
<1>4. CASE SyncFails
  BY <1>4, SyncFailsInv
<1>5. CASE SyncRefreshed
  BY <1>5, SyncRefreshedInv
<1>6. CASE WorkerLost
  BY <1>6, WorkerLostInv
<1>7. ASSUME NEW t \in Tasks, TaskStep(t) PROVE Inv'
  BY <1>7, BeginTaskInv, ReadObjectInv, FinishTaskInv, FailTaskInv DEF TaskStep
<1>8. ASSUME NEW d \in Docs, DeleteDocument(d) PROVE Inv'
  BY <1>8, DeleteInv
<1>9. CASE UNCHANGED vars
  <2>1. UNCHANGED <<remote, changes, runs, missed, rows, docs, cursor, sync, work, newDocs, task>>
    BY <1>9 DEF vars
  <2>2. TaskInv'
    BY <2>1 DEF Inv, TaskInv
  <2> QED BY <2>1, <2>2, TaskOnly
<1> QED BY <1>1, <1>2, <1>3, <1>4, <1>5, <1>6, <1>7, <1>8, <1>9 DEF Next

LEMMA InvAlways == Spec => []Inv
BY InitInv, NextInv, PTL DEF Spec

\* Every variable keeps its type, and a connection without a run has nothing
\* uncommitted.
THEOREM TypeCorrect == Spec => []TypeOK
<1>1. Inv => TypeOK
  <2> SUFFICES ASSUME Inv PROVE TypeOK
    OBVIOUS
  <2>1. remote \in [Items -> [rev: Revision, exists: BOOLEAN]] /\ changes \in Nat
    BY DEF Inv, RemoteInv
  <2>2. \A r \in {rows, work} :
          /\ DOMAIN r = {"item", "tomb", "link"}
          /\ r.item \in [Items -> [rev: Revision, version: Nat, deleted: BOOLEAN]]
          /\ r.tomb \subseteq Items
          /\ r.link \in [Items -> [doc: Docs \cup {NoDoc}, bytes: Bytes \cup {NoBytes}]]
    BY DEF Inv, RowsInv, RowsRecord, ItemRows, Links
  <2>3. docs \in [Docs -> [status: DocumentStatus, bytes: Bytes \cup {NoBytes},
                           object: Bytes \cup {NoBytes}, index: Bytes \cup {NoBytes}]]
        /\ DOMAIN newDocs \subseteq Docs
    BY DEF Inv, DocsInv, DocRecord
  <2>4. /\ cursor \in BOOLEAN
        /\ runs \subseteq [version: Nat, full: BOOLEAN] /\ missed \subseteq Infected
    BY DEF Inv, RowsInv, RemoteInv, DocsInv
  <2>5. /\ sync.phase \in {"idle", "paging", "items", "dispatch"}
        /\ sync.page \in 0..MaxPages /\ sync.version \in Nat
        /\ DOMAIN sync.todo \subseteq Items
        /\ DOMAIN sync.seen \subseteq Items /\ sync.pending \subseteq Docs
    BY DEF Inv, SyncInv, SyncTyped
  <2>6. sync.phase = "idle" => sync = Idle /\ work = rows /\ newDocs = <<>>
    BY DEF Inv, SyncInv
  <2>7. task \in [Tasks -> [pc: {"none", "queued", "begun", "indexing"},
                            doc: Docs \cup {NoDoc}, bytes: Bytes \cup {NoBytes}]]
    BY DEF Inv, TaskInv, TaskRecord
  <2> QED BY <2>1, <2>2, <2>3, <2>4, <2>5, <2>6, <2>7 DEF TypeOK
<1> QED BY <1>1, InvAlways, PTL

\* A process task names a document that is committed: tasks are sent after the
\* commit of the run that made the document, and rows are never removed.
THEOREM TasksExist == Spec => []TasksHaveDocuments
<1>1. Inv => TasksHaveDocuments
  BY DEF Inv, TaskInv, TasksHaveDocuments
<1> QED BY <1>1, InvAlways, PTL

\* Content that the DLP scan or a malware scan rejects is never stored nor indexed:
\* the bridge uploads what the scans let through, and tasks index what they read
\* from storage.  Infected content is there only if a scan of it gave no answer.
THEOREM OnlyClean == Spec => []OnlyCleanIsIndexed
<1>1. Inv => OnlyCleanIsIndexed
  BY DEF Inv, DocsInv, Clean, Rejected, OnlyCleanIsIndexed
<1> QED BY <1>1, InvAlways, PTL

\* The checksum by which a run finds that an item has not changed is that of the
\* item's document, unless the document has several items.
THEOREM LinksExact == Spec => []LinkIsExact
<1>1. Inv => LinkIsExact
  BY DEF Inv, LinkInv, Linked, LinkIsExact
<1> QED BY <1>1, InvAlways, PTL

\* A full run that completes, an older one executed again included, has recorded what
\* it has seen as listed, and live unless it came back with the revision it was
\* deleted with; the rest is deleted, but for what a newer run has written.
THEOREM FullSyncMirrorsHolds == Spec => FullSyncMirrors
<1> DEFINE Mirrored ==
      \A i \in Items :
        LET old == rows.item[i]
            new == rows'.item[i]
        IN IF i \in DOMAIN sync.seen
             THEN /\ new.rev = sync.seen[i]
                  /\ ~new.deleted \/ (old.deleted /\ old.rev = new.rev)
             ELSE IF new.version > sync.version
               THEN new = old
               ELSE new.rev > 0 => new.deleted
<1>1. Inv /\ [Next]_vars => [CompleteFull => Mirrored]_vars
  <2> SUFFICES ASSUME Inv, CompleteFull PROVE Mirrored
    OBVIOUS
  <2>1. PICK final \in RowsRecord :
          /\ Commit(final, sync.pending)
          /\ \A i \in Items :
               IF i \in Unlisted
                 THEN /\ final.item[i].deleted /\ final.item[i].rev = work.item[i].rev
                      /\ final.item[i].version = work.item[i].version
                 ELSE final.item[i] = work.item[i]
    BY CompleteFullFacts
  <2>2. rows' = final
    BY <2>1 DEF Commit
  <2>3. sync.full /\ sync.todo = <<>>
    BY DEF CompleteFull, LastPageDone
  <2>4. MirrorInv /\ DOMAIN sync.todo = {}
    BY <2>3, ConstantFacts DEF Inv
  <2>5. \A i \in Items :
          /\ ~work.item[i].deleted
             \/ (rows.item[i].deleted /\ rows.item[i].rev = work.item[i].rev)
          /\ work.item[i].version > sync.version => work.item[i] = rows.item[i]
          /\ i \in DOMAIN sync.seen => work.item[i].rev = sync.seen[i]
    BY <2>3, <2>4 DEF MirrorInv
  <2>6. \A i \in Items : work.item[i].version \in Nat /\ work.item[i].rev \in Nat
    BY DEF Inv, RowsInv, RowsRecord, ItemRows
  <2>7. sync.version \in Nat
    BY DEF Inv, SyncInv, SyncTyped
  <2> QED BY <2>1, <2>2, <2>5, <2>6, <2>7 DEF Unlisted
<1>2. Spec => [][CompleteFull => Mirrored]_vars
  BY <1>1, InvAlways, PTL DEF Spec
<1> QED BY <1>2 DEF FullSyncMirrors
=============================================================================
