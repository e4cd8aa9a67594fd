--------------------------- MODULE ConnectorRuns ---------------------------
(***************************************************************************)
(* The sync runs of connector jobs: who starts them, how they are executed *)
(* and how they end.  A run is started by an admin or by the beat poll,    *)
(* which look for an active run of the job, insert a queued one, commit    *)
(* and then send its task.  The task executes the run in one transaction   *)
(* that holds the run's row, so the status "running" is never committed.   *)
(*                                                                         *)
(* Each job has a connection of its own.  What a run does to the items of  *)
(* the connection, and its cursor, are not part of this module.            *)
(***************************************************************************)
EXTENDS Naturals, FiniteSets

CONSTANTS
  Jobs,       \* connector_sync_jobs
  Runs,       \* bound: the runs remembered; an old one makes room for a new
  Polls,      \* bound: schedule polls that may overlap
  Scheduled,  \* the jobs whose schedule is an interval; the others are manual
  MaxRetries, \* celery_task_max_retries
  MaxCrashes, \* bound: worker losses in a behaviour
  MaxRequests,\* bound: requests admins make in a behaviour
  Kinds,      \* the kinds of request admins make
  Faults      \* the failures the environment may cause

\* "abort": a process dies between its commit and its send, or before it
\* commits; "provider": the provider refuses or fails; "transient": a
\* connection of the worker fails, and not for longer than the task is
\* retried; "raise": any other exception leaves the task.
AllFaults == {"abort", "provider", "transient", "raise"}

AllKinds == {"start", "retry", "cancel", "status", "disconnect", "reconnect"}

ASSUME RunsAssumption ==
  /\ Jobs # {}
  /\ Scheduled \subseteq Jobs
  /\ MaxRetries \in Nat
  /\ MaxCrashes \in Nat
  /\ MaxRequests \in Nat
  /\ Kinds \subseteq AllKinds
  /\ Faults \subseteq AllFaults

VARIABLES
  jobStatus,  \* connector_sync_jobs.status
  due,        \* the job's interval has passed since its last_run_at
  connected,  \* the job's connection is active and has a usable credential
  run,        \* one record per remembered run and its task
  todo,       \* for each poll, the jobs it found due; {} between polls
  requests,   \* requests admins have made
  crashes     \* worker losses so far

vars == <<jobStatus, due, connected, run, todo, requests, crashes>>

RunStatus == {"none", "queued", "running", "completed", "failed", "cancelled"}
ActiveStatus == {"queued", "running"}

\* "creating": found no active run, not committed; "unsent": committed, task
\* not sent; "opened": the worker read the run; "syncing": its transaction
\* holds the row; "raised": rolled back by an exception; "acking": committed.
InWorker == {"opened", "syncing", "raised", "acking"}
TaskState == {"none", "creating", "unsent", "queued", "done"} \cup InWorker

TypeOK ==
  /\ jobStatus \in [Jobs -> {"active", "paused", "disabled"}]
  /\ due \in [Jobs -> BOOLEAN]
  /\ connected \in [Jobs -> BOOLEAN]
  /\ run \in [Runs -> [job: Jobs, status: RunStatus, task: TaskState,
                       tries: 0..MaxRetries, cancelling: BOOLEAN]]
  /\ todo \in [Polls -> SUBSET Jobs]
  /\ requests \in 0..MaxRequests
  /\ crashes \in 0..MaxCrashes

Init ==
  /\ jobStatus = [j \in Jobs |-> "active"]
  /\ due = [j \in Jobs |-> j \in Scheduled]
  /\ connected = [j \in Jobs |-> TRUE]
  /\ run = [r \in Runs |-> [job |-> CHOOSE j \in Jobs : TRUE, status |-> "none",
                            task |-> "none", tries |-> 0, cancelling |-> FALSE]]
  /\ todo = [p \in Polls |-> {}]
  /\ requests = 0
  /\ crashes = 0

----------------------------------------------------------------------------
Task(r, state) == run[r].task = state
IsActive(r) == run[r].status \in ActiveStatus
ActiveRuns(j) == {r \in Runs : run[r].job = j /\ IsActive(r)}

\* A run id a new run may take: its old run is over and nobody handles it.
Fresh(r) ==
  run[r].task \in {"none", "done"} /\ ~IsActive(r) /\ ~run[r].cancelling

MoveTask(r, state) == run' = [run EXCEPT ![r].task = state]
SetRun(r, status, state) ==
  run' = [run EXCEPT ![r].status = status, ![r].task = state]
NewRun(j, status, state) ==
  [job |-> j, status |-> status, task |-> state, tries |-> 0, cancelling |-> FALSE]

\* An admin's request, of which there are MaxRequests.
Request(kind) ==
  kind \in Kinds /\ requests < MaxRequests /\ requests' = requests + 1

----------------------------------------------------------------------------
(* Starting a run.                                                         *)

\* A request finds no active run and goes on to create one.
Create(r, j) ==
  /\ Fresh(r)
  /\ ActiveRuns(j) = {}
  /\ run' = [run EXCEPT ![r] = NewRun(j, "none", "creating")]
  /\ UNCHANGED <<jobStatus, due, connected, todo, crashes>>

\* trigger_manual_sync and trigger_full_resync, for a job given by its id:
\* only an active run stops them, whatever the status of the job.
StartCheck(r, j) == Request("start") /\ Create(r, j)

\* retry_failed_sync of run f.
RetryCheck(r, f) ==
  /\ Request("retry")
  /\ run[f].status = "failed"
  /\ connected[run[f].job]
  /\ jobStatus[run[f].job] # "disabled"
  /\ r # f
  /\ Create(r, run[f].job)

StartCommit(r) ==
  /\ Task(r, "creating")
  /\ SetRun(r, "queued", "unsent")
  /\ UNCHANGED <<jobStatus, due, connected, todo, requests, crashes>>

\* send_task comes after the commit.
SendTask(r) ==
  /\ Task(r, "unsent")
  /\ MoveTask(r, "queued")
  /\ UNCHANGED <<jobStatus, due, connected, todo, requests, crashes>>

\* The process dies, or the broker refuses: a committed run is left queued.
StartAborted(r) ==
  /\ "abort" \in Faults
  /\ run[r].task \in {"creating", "unsent"}
  /\ MoveTask(r, "none")
  /\ UNCHANGED <<jobStatus, due, connected, todo, requests, crashes>>

DueJobs == {j \in Jobs : jobStatus[j] = "active" /\ due[j]}

\* Mutant: a poll stops at the first job it finds.
PollCheckFirst(p) ==
  /\ todo[p] = {}
  /\ \A j \in DueJobs : Cardinality(ActiveRuns(j)) <= 1
  /\ \E j \in DueJobs : ActiveRuns(j) = {}
  /\ todo' = [todo EXCEPT ![p] = {CHOOSE j \in DueJobs : ActiveRuns(j) = {}}]
  /\ UNCHANGED <<jobStatus, due, connected, run, requests, crashes>>

\* Mutant: a poll does not look for active runs.
PollCheckBlind(p) ==
  /\ todo[p] = {}
  /\ DueJobs # {}
  /\ todo' = [todo EXCEPT ![p] = DueJobs]
  /\ UNCHANGED <<jobStatus, due, connected, run, requests, crashes>>

\* dispatch_due_syncs looks at every due job; one with two active runs makes
\* its query raise, and the whole poll is given up.
PollCheck(p) ==
  /\ todo[p] = {}
  /\ \A j \in DueJobs : Cardinality(ActiveRuns(j)) <= 1
  /\ todo' = [todo EXCEPT ![p] = {j \in DueJobs : ActiveRuns(j) = {}}]
  /\ todo'[p] # {}
  /\ UNCHANGED <<jobStatus, due, connected, run, requests, crashes>>

\* All runs of the poll are committed together, then sent one by one.
PollCommit(p) ==
  /\ todo[p] # {}
  /\ \E new \in [todo[p] -> Runs] :
       /\ \A j \in todo[p] : Fresh(new[j])
       /\ \A j, k \in todo[p] : new[j] = new[k] => j = k
       /\ run' = [r \in Runs |->
                    IF \E j \in todo[p] : new[j] = r
                      THEN NewRun(CHOOSE j \in todo[p] : new[j] = r, "queued", "unsent")
                      ELSE run[r]]
  /\ todo' = [todo EXCEPT ![p] = {}]
  /\ UNCHANGED <<jobStatus, due, connected, requests, crashes>>

PollAborted(p) ==
  /\ "abort" \in Faults
  /\ todo[p] # {}
  /\ todo' = [todo EXCEPT ![p] = {}]
  /\ UNCHANGED <<jobStatus, due, connected, run, requests, crashes>>

----------------------------------------------------------------------------
(* Executing a run.                                                        *)

\* A cancelled run is skipped; any other is executed, a completed one too.
Begin(r) ==
  /\ Task(r, "queued")
  /\ MoveTask(r, IF run[r].status = "cancelled" THEN "acking" ELSE "opened")
  /\ UNCHANGED <<jobStatus, due, connected, todo, requests, crashes>>

\* The flush of "running" takes the row, over whatever status is there.
SyncStarts(r) ==
  /\ Task(r, "opened")
  /\ connected[run[r].job]
  /\ MoveTask(r, "syncing")
  /\ UNCHANGED <<jobStatus, due, connected, todo, requests, crashes>>

SyncRefused(r) ==
  /\ Task(r, "opened")
  /\ ~connected[run[r].job]
  /\ SetRun(r, "failed", "acking")
  /\ UNCHANGED <<jobStatus, due, connected, todo, requests, crashes>>

SyncCompletes(r) ==
  /\ Task(r, "syncing")
  /\ SetRun(r, "completed", "acking")
  /\ due' = [due EXCEPT ![run[r].job] = FALSE]
  /\ UNCHANGED <<jobStatus, connected, todo, requests, crashes>>

\* A provider error is caught and committed as failed; last_run_at is left
\* alone.  An auth error that a token refresh does not cure also marks the
\* connection.
SyncFails(r) ==
  /\ "provider" \in Faults
  /\ Task(r, "syncing")
  /\ SetRun(r, "failed", "acking")
  /\ \E auth \in BOOLEAN :
       connected' = [connected EXCEPT ![run[r].job] = @ /\ ~auth]
  /\ UNCHANGED <<jobStatus, due, todo, requests, crashes>>

\* Mutant: retries are not limited.
SyncRetriedForever(r) ==
  /\ "transient" \in Faults
  /\ run[r].task \in {"opened", "syncing"}
  /\ run' = [run EXCEPT ![r].task = "queued", ![r].tries = @ + 1]
  /\ UNCHANGED <<jobStatus, due, connected, todo, requests, crashes>>

\* autoretry_for: the transaction rolls back and the task is sent again.
SyncRetried(r) ==
  /\ "transient" \in Faults
  /\ run[r].task \in {"opened", "syncing"}
  /\ run[r].tries < MaxRetries
  /\ run' = [run EXCEPT ![r].task = "queued", ![r].tries = @ + 1]
  /\ UNCHANGED <<jobStatus, due, connected, todo, requests, crashes>>

\* Any other exception, the one of a failed dispatch after the commit included.
SyncRaises(r) ==
  /\ "raise" \in Faults
  /\ run[r].task \in InWorker \ {"raised"}
  /\ MoveTask(r, "raised")
  /\ UNCHANGED <<jobStatus, due, connected, todo, requests, crashes>>

\* on_terminal_failure fails a run it finds running.  The failing transaction
\* has taken that status back with it, so it finds another one.
TerminalFailure(r) ==
  /\ Task(r, "raised")
  /\ SetRun(r, IF run[r].status = "running" THEN "failed" ELSE run[r].status, "done")
  /\ UNCHANGED <<jobStatus, due, connected, todo, requests, crashes>>

\* Dispatch the documents the run has ingested, then acknowledge.
Ack(r) ==
  /\ Task(r, "acking")
  /\ run' = [run EXCEPT ![r].task = "done", ![r].tries = 0]
  /\ UNCHANGED <<jobStatus, due, connected, todo, requests, crashes>>

\* Mutant: the message is acknowledged when it is taken.
WorkerLostEarlyAck(r) ==
  /\ crashes < MaxCrashes
  /\ run[r].task \in InWorker
  /\ crashes' = crashes + 1
  /\ MoveTask(r, "done")
  /\ UNCHANGED <<jobStatus, due, connected, todo, requests>>

WorkerLost(r) ==
  /\ crashes < MaxCrashes
  /\ run[r].task \in InWorker
  /\ crashes' = crashes + 1
  /\ MoveTask(r, "queued")
  /\ UNCHANGED <<jobStatus, due, connected, todo, requests>>

----------------------------------------------------------------------------
(* Administration.                                                         *)

\* cancel_run loads the run and checks its status ...
CancelCheck(r) ==
  /\ Request("cancel")
  /\ IsActive(r)
  /\ ~run[r].cancelling
  /\ run' = [run EXCEPT ![r].cancelling = TRUE]
  /\ UNCHANGED <<jobStatus, due, connected, todo, crashes>>

\* ... and writes cancelled, once no transaction holds the row, over whatever
\* has been committed in between.
CancelCommit(r) ==
  /\ run[r].cancelling
  /\ ~Task(r, "syncing")
  /\ run' = [run EXCEPT ![r].status = "cancelled", ![r].cancelling = FALSE]
  /\ UNCHANGED <<jobStatus, due, connected, todo, requests, crashes>>

CancelAborted(r) ==
  /\ "abort" \in Faults
  /\ run[r].cancelling
  /\ run' = [run EXCEPT ![r].cancelling = FALSE]
  /\ UNCHANGED <<jobStatus, due, connected, todo, requests, crashes>>

UpdateJobStatus(j) ==
  /\ Request("status")
  /\ \E s \in {"active", "paused", "disabled"} : jobStatus' = [jobStatus EXCEPT ![j] = s]
  /\ UNCHANGED <<due, connected, run, todo, crashes>>

\* Disconnecting revokes the connection and disables its active job.
Disconnect(j) ==
  /\ Request("disconnect")
  /\ connected' = [connected EXCEPT ![j] = FALSE]
  /\ jobStatus' = [jobStatus EXCEPT ![j] = IF @ = "active" THEN "disabled" ELSE @]
  /\ UNCHANGED <<due, run, todo, crashes>>

\* A new credential makes the connection active; its job stays as it is.
Reconnect(j) ==
  /\ Request("reconnect")
  /\ connected' = [connected EXCEPT ![j] = TRUE]
  /\ UNCHANGED <<jobStatus, due, run, todo, crashes>>

IntervalElapses(j) ==
  /\ j \in Scheduled
  /\ due' = [due EXCEPT ![j] = TRUE]
  /\ UNCHANGED <<jobStatus, connected, run, todo, requests, crashes>>

----------------------------------------------------------------------------
\* What a live API process or worker does next for the run it has in hand.
RunStep(r) ==
  \/ StartCommit(r) \/ SendTask(r)
  \/ Begin(r) \/ SyncStarts(r) \/ SyncRefused(r) \/ SyncCompletes(r)
  \/ TerminalFailure(r) \/ Ack(r)

RunFault(r) ==
  \/ StartAborted(r) \/ SyncFails(r) \/ SyncRetried(r) \/ SyncRaises(r)
  \/ WorkerLost(r) \/ CancelAborted(r)

PollStep(p) == PollCheck(p) \/ PollCommit(p)

Next ==
  \/ \E r \in Runs :
       \/ \E j \in Jobs : StartCheck(r, j)
       \/ \E f \in Runs : RetryCheck(r, f)
       \/ RunStep(r) \/ RunFault(r) \/ CancelCheck(r) \/ CancelCommit(r)
  \/ \E p \in Polls : PollStep(p) \/ PollAborted(p)
  \/ \E j \in Jobs :
       UpdateJobStatus(j) \/ Disconnect(j) \/ Reconnect(j) \/ IntervalElapses(j)

Spec == Init /\ [][Next]_vars

\* Live processes go on with what they have and beat keeps polling.  Nobody
\* has to ask for a run, cancel one, or repair a connection.
Fairness ==
  /\ \A r \in Runs : WF_vars(RunStep(r)) /\ WF_vars(CancelCommit(r))
  /\ \A p \in Polls : WF_vars(PollStep(p))

FairSpec == Spec /\ Fairness

----------------------------------------------------------------------------
(* Properties.                                                             *)

\* An active run keeps its job from being started again, so while there is one
\* somebody has its task in hand: the process that is to send it, the broker
\* or a worker.  A run without one would block its job until it is cancelled.
\* It holds as long as no process dies before the send and no exception leaves
\* the task.
ActiveRunIsServed ==
  \A r \in Runs :
    IsActive(r) => run[r].task \in {"unsent", "queued", "opened", "syncing"}

\* A job has at most one active run: whoever starts one looks for another
\* first.  The look and the insert are two statements, so it holds only while a
\* single poll starts runs and no admin does.
OneActiveRun ==
  \A r, s \in Runs :
    IsActive(r) /\ IsActive(s) /\ run[r].job = run[s].job => r = s

\* A run that blocks its job ends, through retries and worker losses.
ActiveRunEnds == \A r \in Runs : IsActive(r) ~> ~IsActive(r)

\* A job that is due gets a run, in spite of another job whose two active runs
\* make the polls fail, unless it is paused, disabled or synced meanwhile.
DueJobGetsRun == \A j \in Jobs : j \in DueJobs ~> (j \notin DueJobs \/ ActiveRuns(j) # {})
=============================================================================
