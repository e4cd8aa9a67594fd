------------------------ MODULE ConnectorRunsProofs ------------------------
(***************************************************************************)
(* What holds of the connector runs for any number of jobs, runs, retries, *)
(* requests and worker losses.  The inductive invariants are TypeOK, the   *)
(* property ActiveRunIsServed itself, and RunsInv for OneActiveRun.        *)
(***************************************************************************)
EXTENDS ConnectorRuns, TLAPS

RunRecord == [job: Jobs, status: RunStatus, task: TaskState,
              tries: 0..MaxRetries, cancelling: BOOLEAN]

USE DEF RunRecord

LEMMA TypeInit == Init => TypeOK
  BY RunsAssumption DEF Init, TypeOK, RunStatus, TaskState

\* What is left to show of a step that takes no request: the run it writes.
LEMMA NewRunTyped ==
  ASSUME NEW j \in Jobs, NEW status \in RunStatus, NEW state \in TaskState
  PROVE  NewRun(j, status, state) \in RunRecord
  BY RunsAssumption DEF NewRun

LEMMA SetRunTyped ==
  ASSUME TypeOK, NEW r \in Runs, NEW status \in RunStatus, NEW state \in TaskState,
         SetRun(r, status, state) \/ MoveTask(r, state)
  PROVE  run' \in [Runs -> RunRecord]
  BY DEF TypeOK, SetRun, MoveTask

LEMMA CreateTyped ==
  ASSUME TypeOK, NEW r \in Runs, NEW j \in Jobs, NEW kind, Request(kind), Create(r, j)
  PROVE  TypeOK'
<1>1. NewRun(j, "none", "creating") \in RunRecord
  BY NewRunTyped DEF RunStatus, TaskState
<1>2. run' \in [Runs -> RunRecord]
  BY <1>1 DEF TypeOK, Create
<1>3. requests' \in 0..MaxRequests
  BY RunsAssumption DEF TypeOK, Request
<1> QED BY <1>2, <1>3 DEF TypeOK, Create

LEMMA RunStepTyped ==
  ASSUME TypeOK, NEW r \in Runs, RunStep(r)
  PROVE  TypeOK'
<1>1. CASE StartCommit(r)
  BY <1>1, SetRunTyped DEF StartCommit, TypeOK, RunStatus, TaskState
<1>2. CASE SendTask(r)
  BY <1>2, SetRunTyped DEF SendTask, TypeOK, RunStatus, TaskState
<1>3. CASE Begin(r)
  BY <1>3, SetRunTyped DEF Begin, TypeOK, RunStatus, TaskState, InWorker
<1>4. CASE SyncStarts(r)
  BY <1>4, SetRunTyped DEF SyncStarts, TypeOK, RunStatus, TaskState, InWorker
<1>5. CASE SyncRefused(r)
  BY <1>5, SetRunTyped DEF SyncRefused, TypeOK, RunStatus, TaskState, InWorker
<1>6. CASE SyncCompletes(r)
  BY <1>6, SetRunTyped DEF SyncCompletes, TypeOK, RunStatus, TaskState, InWorker
<1>7. CASE TerminalFailure(r)
  <2>1. run[r].status \in RunStatus
    BY DEF TypeOK
  <2> QED BY <1>7, <2>1, SetRunTyped DEF TerminalFailure, TypeOK, RunStatus, TaskState
<1>8. CASE Ack(r)
  <2> DEFINE rec == [run[r] EXCEPT !.task = "done", !.tries = 0]
  <2>0. 0 \in 0..MaxRetries
    BY RunsAssumption
  <2>1. rec \in RunRecord
    BY <2>0 DEF TypeOK, TaskState
  <2>2. run' = [run EXCEPT ![r] = rec]
    BY <1>8 DEF Ack, TypeOK
  <2>3. run' \in [Runs -> RunRecord]
    BY <2>1, <2>2 DEF TypeOK
  <2> QED BY <1>8, <2>3 DEF Ack, TypeOK
<1> QED BY <1>1, <1>2, <1>3, <1>4, <1>5, <1>6, <1>7, <1>8 DEF RunStep

LEMMA RunFaultTyped ==
  ASSUME TypeOK, NEW r \in Runs, RunFault(r)
  PROVE  TypeOK'
<1>1. CASE StartAborted(r)
  BY <1>1, SetRunTyped DEF StartAborted, TypeOK, RunStatus, TaskState
<1>2. CASE SyncFails(r)
  <2>1. connected' \in [Jobs -> BOOLEAN]
    BY <1>2 DEF SyncFails, TypeOK
  <2> QED BY <1>2, <2>1, SetRunTyped DEF SyncFails, TypeOK, RunStatus, TaskState, InWorker
<1>3. CASE SyncRetried(r)
  <2>1. run[r].tries + 1 \in 0..MaxRetries
    BY <1>3, RunsAssumption DEF SyncRetried, TypeOK
  <2> DEFINE rec == [run[r] EXCEPT !.task = "queued", !.tries = run[r].tries + 1]
  <2>2. rec \in RunRecord
    BY <2>1 DEF TypeOK, TaskState
  <2>3. run' = [run EXCEPT ![r] = rec]
    BY <1>3 DEF SyncRetried, TypeOK
  <2>4. run' \in [Runs -> RunRecord]
    BY <2>2, <2>3 DEF TypeOK
  <2> QED BY <1>3, <2>4 DEF SyncRetried, TypeOK
<1>4. CASE SyncRaises(r)
  BY <1>4, SetRunTyped DEF SyncRaises, TypeOK, RunStatus, TaskState, InWorker
<1>5. CASE WorkerLost(r)
  <2>1. crashes' \in 0..MaxCrashes
    BY <1>5, RunsAssumption DEF WorkerLost, TypeOK
  <2> QED BY <1>5, <2>1, SetRunTyped DEF WorkerLost, TypeOK, RunStatus, TaskState
<1>6. CASE CancelAborted(r)
  BY <1>6 DEF CancelAborted, TypeOK
<1> QED BY <1>1, <1>2, <1>3, <1>4, <1>5, <1>6 DEF RunFault

LEMMA CancelTyped ==
  ASSUME TypeOK, NEW r \in Runs, CancelCheck(r) \/ CancelCommit(r)
  PROVE  TypeOK'
<1>1. CASE CancelCheck(r)
  <2>1. requests' \in 0..MaxRequests
    BY <1>1, RunsAssumption DEF CancelCheck, Request, TypeOK
  <2> QED BY <1>1, <2>1 DEF CancelCheck, TypeOK
<1>2. CASE CancelCommit(r)
  BY <1>2 DEF CancelCommit, TypeOK, RunStatus
<1> QED BY <1>1, <1>2

LEMMA PollTyped ==
  ASSUME TypeOK, NEW p \in Polls, PollStep(p) \/ PollAborted(p)
  PROVE  TypeOK'
<1>1. CASE PollCheck(p)
  BY <1>1 DEF PollCheck, TypeOK, DueJobs
<1>2. CASE PollCommit(p)
  <2>1. PICK new \in [todo[p] -> Runs] :
          run' = [r \in Runs |->
                    IF \E j \in todo[p] : new[j] = r
                      THEN NewRun(CHOOSE j \in todo[p] : new[j] = r, "queued", "unsent")
                      ELSE run[r]]
    BY <1>2 DEF PollCommit
  <2>2. ASSUME NEW r \in Runs, \E j \in todo[p] : new[j] = r
        PROVE  NewRun(CHOOSE j \in todo[p] : new[j] = r, "queued", "unsent") \in RunRecord
    <3>1. (CHOOSE j \in todo[p] : new[j] = r) \in Jobs
      BY <2>2 DEF TypeOK
    <3> QED BY <3>1, NewRunTyped DEF RunStatus, TaskState
  <2>3. run' \in [Runs -> RunRecord]
    BY <2>1, <2>2 DEF TypeOK
  <2> QED BY <1>2, <2>3 DEF PollCommit, TypeOK
<1>3. CASE PollAborted(p)
  BY <1>3 DEF PollAborted, TypeOK
<1> QED BY <1>1, <1>2, <1>3 DEF PollStep

LEMMA AdminTyped ==
  ASSUME TypeOK, NEW j \in Jobs,
         UpdateJobStatus(j) \/ Disconnect(j) \/ Reconnect(j) \/ IntervalElapses(j)
  PROVE  TypeOK'
<1>1. ASSUME NEW kind, Request(kind) PROVE requests' \in 0..MaxRequests
  BY <1>1, RunsAssumption DEF Request, TypeOK
<1>2. CASE UpdateJobStatus(j)
  BY <1>1, <1>2 DEF UpdateJobStatus, TypeOK
<1>3. CASE Disconnect(j)
  BY <1>1, <1>3 DEF Disconnect, TypeOK
<1>4. CASE Reconnect(j)
  BY <1>1, <1>4 DEF Reconnect, TypeOK
<1>5. CASE IntervalElapses(j)
  BY <1>5 DEF IntervalElapses, TypeOK
<1> QED BY <1>2, <1>3, <1>4, <1>5

LEMMA TypeStep == TypeOK /\ [Next]_vars => TypeOK'
<1> SUFFICES ASSUME TypeOK, [Next]_vars PROVE TypeOK'
  OBVIOUS
<1>1. ASSUME NEW r \in Runs, NEW j \in Jobs, StartCheck(r, j) PROVE TypeOK'
  BY <1>1, CreateTyped DEF StartCheck
<1>2. ASSUME NEW r \in Runs, NEW f \in Runs, RetryCheck(r, f) PROVE TypeOK'
  <2>1. run[f].job \in Jobs
    BY DEF TypeOK
  <2> QED BY <1>2, <2>1, CreateTyped DEF RetryCheck
<1>3. CASE UNCHANGED vars
  BY <1>3 DEF vars, TypeOK
<1> QED BY <1>1, <1>2, <1>3, RunStepTyped, RunFaultTyped, CancelTyped, PollTyped, AdminTyped
        DEF Next

\* The variables keep their types, in particular a task is never retried more
\* often than celery_task_max_retries.
THEOREM RunsTypeCorrect == Spec => []TypeOK
  BY TypeInit, TypeStep, PTL DEF Spec
----------------------------------------------------------------------------
(* An active run is served.                                                *)

LEMMA ServedInit == Init => ActiveRunIsServed
  BY DEF Init, ActiveRunIsServed, IsActive, ActiveStatus

\* A step that writes one run serves all if it serves the run it writes.
LEMMA ServedFrame ==
  ASSUME TypeOK, ActiveRunIsServed, NEW r \in Runs, NEW rec,
         run' = [run EXCEPT ![r] = rec],
         rec.status \in ActiveStatus => rec.task \in {"unsent", "queued", "opened", "syncing"}
  PROVE  ActiveRunIsServed'
  BY DEF TypeOK, ActiveRunIsServed, IsActive

LEMMA ServedMove ==
  ASSUME TypeOK, ActiveRunIsServed, NEW r \in Runs, NEW state, MoveTask(r, state),
         IsActive(r) => state \in {"unsent", "queued", "opened", "syncing"}
  PROVE  ActiveRunIsServed'
  BY DEF TypeOK, ActiveRunIsServed, IsActive, MoveTask

LEMMA ServedSet ==
  ASSUME TypeOK, ActiveRunIsServed, NEW r \in Runs, NEW status, NEW state,
         SetRun(r, status, state),
         status \in ActiveStatus => state \in {"unsent", "queued", "opened", "syncing"}
  PROVE  ActiveRunIsServed'
  BY DEF TypeOK, ActiveRunIsServed, IsActive, SetRun

LEMMA ServedRunStep ==
  ASSUME TypeOK, ActiveRunIsServed, NEW r \in Runs, RunStep(r)
  PROVE  ActiveRunIsServed'
<1>1. CASE StartCommit(r)
  BY <1>1, ServedSet DEF StartCommit
<1>2. CASE SendTask(r)
  BY <1>2, ServedMove DEF SendTask
<1>3. CASE Begin(r)
  BY <1>3, ServedMove DEF Begin, IsActive, ActiveStatus
<1>4. CASE SyncStarts(r)
  BY <1>4, ServedMove DEF SyncStarts
<1>5. CASE SyncRefused(r)
  BY <1>5, ServedSet DEF SyncRefused, ActiveStatus
<1>6. CASE SyncCompletes(r)
  BY <1>6, ServedSet DEF SyncCompletes, ActiveStatus
<1>7. CASE TerminalFailure(r)
  <2>1. ~IsActive(r)
    BY <1>7 DEF TerminalFailure, Task, ActiveRunIsServed
  <2> QED BY <1>7, <2>1, ServedSet DEF TerminalFailure, IsActive, ActiveStatus
<1>8. CASE Ack(r)
  <2> DEFINE rec == [run[r] EXCEPT !.task = "done", !.tries = 0]
  <2>1. ~IsActive(r)
    BY <1>8 DEF Ack, Task, ActiveRunIsServed
  <2>2. run' = [run EXCEPT ![r] = rec] /\ rec.status = run[r].status
    BY <1>8 DEF Ack, TypeOK
  <2> HIDE DEF rec
  <2> QED BY <2>1, <2>2, ServedFrame DEF IsActive
<1> QED BY <1>1, <1>2, <1>3, <1>4, <1>5, <1>6, <1>7, <1>8 DEF RunStep

LEMMA ServedRunFault ==
  ASSUME {"abort", "raise"} \cap Faults = {},
         TypeOK, ActiveRunIsServed, NEW r \in Runs, RunFault(r)
  PROVE  ActiveRunIsServed'
<1>1. ~StartAborted(r) /\ ~SyncRaises(r)
  BY DEF StartAborted, SyncRaises
<1>2. CASE SyncFails(r)
  BY <1>2, ServedSet DEF SyncFails, ActiveStatus
<1>3. CASE SyncRetried(r)
  <2> DEFINE rec == [run[r] EXCEPT !.task = "queued", !.tries = run[r].tries + 1]
  <2>1. run' = [run EXCEPT ![r] = rec] /\ rec.task = "queued"
    BY <1>3 DEF SyncRetried, TypeOK
  <2> HIDE DEF rec
  <2> QED BY <2>1, ServedFrame
<1>4. CASE WorkerLost(r)
  BY <1>4, ServedMove DEF WorkerLost
<1>5. CASE CancelAborted(r)
  BY <1>5 DEF CancelAborted, TypeOK, ActiveRunIsServed, IsActive
<1> QED BY <1>1, <1>2, <1>3, <1>4, <1>5 DEF RunFault

LEMMA ServedCreate ==
  ASSUME TypeOK, ActiveRunIsServed, NEW r \in Runs, NEW j \in Jobs, Create(r, j)
  PROVE  ActiveRunIsServed'
  BY ServedFrame DEF Create, NewRun, ActiveStatus

LEMMA ServedCancel ==
  ASSUME TypeOK, ActiveRunIsServed, NEW r \in Runs, CancelCheck(r) \/ CancelCommit(r)
  PROVE  ActiveRunIsServed'
  BY DEF CancelCheck, CancelCommit, TypeOK, ActiveRunIsServed, IsActive, ActiveStatus

\* Every run a poll creates is about to be sent.
LEMMA ServedPollCommit ==
  ASSUME TypeOK, ActiveRunIsServed, NEW p \in Polls, PollCommit(p)
  PROVE  ActiveRunIsServed'
<1>1. ASSUME NEW r \in Runs
      PROVE  run'[r].task = "unsent" \/ run'[r] = run[r]
  BY DEF PollCommit, NewRun
<1> QED BY <1>1 DEF ActiveRunIsServed, IsActive

LEMMA ServedStep ==
  ASSUME {"abort", "raise"} \cap Faults = {}
  PROVE  TypeOK /\ ActiveRunIsServed /\ [Next]_vars => ActiveRunIsServed'
<1> SUFFICES ASSUME TypeOK, ActiveRunIsServed, [Next]_vars
             PROVE  ActiveRunIsServed'
  OBVIOUS
<1>1. ASSUME NEW r \in Runs, NEW j \in Jobs, StartCheck(r, j)
      PROVE  ActiveRunIsServed'
  BY <1>1, ServedCreate DEF StartCheck
<1>2. ASSUME NEW r \in Runs, NEW f \in Runs, RetryCheck(r, f)
      PROVE  ActiveRunIsServed'
  <2>1. run[f].job \in Jobs
    BY DEF TypeOK
  <2> QED BY <1>2, <2>1, ServedCreate DEF RetryCheck
<1>3. CASE UNCHANGED run
  BY <1>3 DEF ActiveRunIsServed, IsActive
<1>4. ASSUME NEW p \in Polls, PollStep(p) \/ PollAborted(p)
      PROVE  ActiveRunIsServed'
  BY <1>3, <1>4, ServedPollCommit DEF PollStep, PollCheck, PollAborted
<1>5. ASSUME NEW j \in Jobs,
             UpdateJobStatus(j) \/ Disconnect(j) \/ Reconnect(j) \/ IntervalElapses(j)
      PROVE  ActiveRunIsServed'
  BY <1>3, <1>5 DEF UpdateJobStatus, Disconnect, Reconnect, IntervalElapses
<1> QED BY <1>1, <1>2, <1>3, <1>4, <1>5, ServedRunStep, ServedRunFault, ServedCancel
        DEF Next, vars

\* If no process dies before it has sent a committed run's task, and no
\* exception leaves the task, then an active run always has somebody who goes
\* on with it, so nothing but its own progress keeps its job from running again.
THEOREM ActiveRunIsServedHolds ==
  ASSUME {"abort", "raise"} \cap Faults = {}
  PROVE  Spec => []ActiveRunIsServed
  BY TypeInit, TypeStep, ServedInit, ServedStep, PTL DEF Spec

----------------------------------------------------------------------------
(* At most one active run.                                                 *)

\* OneActiveRun alone is not inductive: what a poll has found must still be so
\* when it commits, and no admin's run may be on its way.
NoneOnItsWay == \A r \in Runs : run[r].task # "creating"
TodoIsFree ==
  \A p \in Polls, j \in Jobs : j \in todo[p] => \A r \in Runs : IsActive(r) => run[r].job # j
RunsInv == OneActiveRun /\ NoneOnItsWay /\ TodoIsFree

LEMMA RunsInvInit == Init => RunsInv
  BY DEF Init, RunsInv, OneActiveRun, NoneOnItsWay, TodoIsFree, IsActive, ActiveStatus

\* A step that activates no run, moves none to another job, starts none and
\* finds no due job keeps the invariant.
LEMMA RunsInvFrame ==
  ASSUME TypeOK, RunsInv, UNCHANGED todo,
         \A s \in Runs : /\ IsActive(s)' => IsActive(s)
                        /\ run'[s].job = run[s].job
                        /\ run'[s].task # "creating"
  PROVE  RunsInv'
<1>1. OneActiveRun'
  BY DEF RunsInv, OneActiveRun
<1>2. TodoIsFree'
  BY DEF RunsInv, TodoIsFree
<1> QED BY <1>1, <1>2 DEF RunsInv, NoneOnItsWay

LEMMA RunsInvSet ==
  ASSUME TypeOK, RunsInv, NEW r \in Runs, NEW status, NEW state, UNCHANGED todo,
         SetRun(r, status, state),
         status \in ActiveStatus => IsActive(r),
         state # "creating"
  PROVE  RunsInv'
<1>1. ASSUME NEW s \in Runs
      PROVE  /\ IsActive(s)' => IsActive(s)
             /\ run'[s].job = run[s].job
             /\ run'[s].task # "creating"
  BY DEF SetRun, TypeOK, IsActive, RunsInv, NoneOnItsWay
<1> QED BY <1>1, RunsInvFrame

LEMMA RunsInvMove ==
  ASSUME TypeOK, RunsInv, NEW r \in Runs, NEW state, UNCHANGED todo,
         MoveTask(r, state), state # "creating"
  PROVE  RunsInv'
<1>1. ASSUME NEW s \in Runs
      PROVE  /\ IsActive(s)' => IsActive(s)
             /\ run'[s].job = run[s].job
             /\ run'[s].task # "creating"
  BY DEF MoveTask, TypeOK, IsActive, RunsInv, NoneOnItsWay
<1> QED BY <1>1, RunsInvFrame

LEMMA RunsInvRunStep ==
  ASSUME TypeOK, RunsInv, NEW r \in Runs, RunStep(r)
  PROVE  RunsInv'
<1>1. ~StartCommit(r)
  BY DEF StartCommit, Task, RunsInv, NoneOnItsWay
<1>2. CASE SendTask(r)
  BY <1>2, RunsInvMove DEF SendTask
<1>3. CASE Begin(r)
  BY <1>3, RunsInvMove DEF Begin
<1>4. CASE SyncStarts(r)
  BY <1>4, RunsInvMove DEF SyncStarts
<1>5. CASE SyncRefused(r)
  BY <1>5, RunsInvSet DEF SyncRefused, ActiveStatus
<1>6. CASE SyncCompletes(r)
  BY <1>6, RunsInvSet DEF SyncCompletes, ActiveStatus
<1>7. CASE TerminalFailure(r)
  BY <1>7, RunsInvSet DEF TerminalFailure, ActiveStatus, IsActive
<1>8. CASE Ack(r)
  <2>1. ASSUME NEW s \in Runs
        PROVE  /\ IsActive(s)' => IsActive(s)
               /\ run'[s].job = run[s].job
               /\ run'[s].task # "creating"
    BY <1>8 DEF Ack, TypeOK, IsActive, RunsInv, NoneOnItsWay
  <2> QED BY <1>8, <2>1, RunsInvFrame DEF Ack
<1> QED BY <1>1, <1>2, <1>3, <1>4, <1>5, <1>6, <1>7, <1>8 DEF RunStep

LEMMA RunsInvRunFault ==
  ASSUME TypeOK, RunsInv, NEW r \in Runs, RunFault(r)
  PROVE  RunsInv'
<1>1. CASE StartAborted(r)
  BY <1>1, RunsInvMove DEF StartAborted
<1>2. CASE SyncFails(r)
  BY <1>2, RunsInvSet DEF SyncFails, ActiveStatus
<1>3. CASE SyncRetried(r)
  <2>1. ASSUME NEW s \in Runs
        PROVE  /\ IsActive(s)' => IsActive(s)
               /\ run'[s].job = run[s].job
               /\ run'[s].task # "creating"
    BY <1>3 DEF SyncRetried, TypeOK, IsActive, RunsInv, NoneOnItsWay
  <2> QED BY <1>3, <2>1, RunsInvFrame DEF SyncRetried
<1>4. CASE SyncRaises(r)
  BY <1>4, RunsInvMove DEF SyncRaises
<1>5. CASE WorkerLost(r)
  BY <1>5, RunsInvMove DEF WorkerLost
<1>6. CASE CancelAborted(r)
  <2>1. ASSUME NEW s \in Runs
        PROVE  /\ IsActive(s)' => IsActive(s)
               /\ run'[s].job = run[s].job
               /\ run'[s].task # "creating"
    BY <1>6 DEF CancelAborted, TypeOK, IsActive, RunsInv, NoneOnItsWay
  <2> QED BY <1>6, <2>1, RunsInvFrame DEF CancelAborted
<1> QED BY <1>1, <1>2, <1>3, <1>4, <1>5, <1>6 DEF RunFault

LEMMA RunsInvCancel ==
  ASSUME TypeOK, RunsInv, NEW r \in Runs, CancelCheck(r) \/ CancelCommit(r)
  PROVE  RunsInv'
<1>1. ASSUME NEW s \in Runs
      PROVE  /\ IsActive(s)' => IsActive(s)
             /\ run'[s].job = run[s].job
             /\ run'[s].task # "creating"
  BY DEF CancelCheck, CancelCommit, TypeOK, IsActive, ActiveStatus, RunsInv, NoneOnItsWay
<1> QED BY <1>1, RunsInvFrame DEF CancelCheck, CancelCommit

\* The only poll there is replaces what it had found.
LEMMA RunsInvPoll ==
  ASSUME \A p, q \in Polls : p = q,
         TypeOK, RunsInv, NEW p \in Polls, PollCheck(p) \/ PollAborted(p)
  PROVE  RunsInv'
<1>1. UNCHANGED run
  BY DEF PollCheck, PollAborted
<1>2. ASSUME NEW j \in todo'[p], NEW r \in Runs, IsActive(r) PROVE run[r].job # j
  BY <1>2 DEF PollCheck, PollAborted, TypeOK, ActiveRuns
<1> QED BY <1>1, <1>2 DEF RunsInv, OneActiveRun, NoneOnItsWay, TodoIsFree, IsActive

\* Each job of the poll gets one run, and had none.
LEMMA RunsInvPollCommit ==
  ASSUME \A p, q \in Polls : p = q,
         TypeOK, RunsInv, NEW p \in Polls, PollCommit(p)
  PROVE  RunsInv'
<1>1. PICK new \in [todo[p] -> Runs] :
        /\ \A j, k \in todo[p] : new[j] = new[k] => j = k
        /\ run' = [r \in Runs |->
                     IF \E j \in todo[p] : new[j] = r
                       THEN NewRun(CHOOSE j \in todo[p] : new[j] = r, "queued", "unsent")
                       ELSE run[r]]
  BY DEF PollCommit
<1>2. ASSUME NEW r \in Runs
      PROVE  \/ /\ run'[r].job \in todo[p]
                /\ new[run'[r].job] = r
                /\ run'[r].task = "unsent"
             \/ run'[r] = run[r]
  <2>1. CASE \E j \in todo[p] : new[j] = r
    <3> DEFINE mine == CHOOSE j \in todo[p] : new[j] = r
    <3>1. mine \in todo[p] /\ new[mine] = r
      BY <2>1
    <3> HIDE DEF mine
    <3>2. run'[r] = NewRun(mine, "queued", "unsent")
      BY <1>1, <2>1 DEF mine
    <3> QED BY <3>1, <3>2 DEF NewRun
  <2>2. CASE ~ \E j \in todo[p] : new[j] = r
    BY <1>1, <2>2
  <2> QED BY <2>1, <2>2
<1>3. OneActiveRun'
  BY <1>2 DEF RunsInv, OneActiveRun, TodoIsFree, IsActive, TypeOK
<1>4. NoneOnItsWay'
  BY <1>2 DEF RunsInv, NoneOnItsWay
<1>5. TodoIsFree'
  BY DEF PollCommit, TypeOK, TodoIsFree
<1> QED BY <1>3, <1>4, <1>5 DEF RunsInv

LEMMA RunsInvStep ==
  ASSUME \A p, q \in Polls : p = q, {"start", "retry"} \cap Kinds = {}
  PROVE  TypeOK /\ RunsInv /\ [Next]_vars => RunsInv'
<1> SUFFICES ASSUME TypeOK, RunsInv, [Next]_vars PROVE RunsInv'
  OBVIOUS
<1>1. ASSUME NEW r \in Runs, NEW s PROVE ~StartCheck(r, s) /\ ~RetryCheck(r, s)
  BY DEF StartCheck, RetryCheck, Request
<1>2. CASE UNCHANGED <<run, todo>>
  BY <1>2 DEF RunsInv, OneActiveRun, NoneOnItsWay, TodoIsFree, IsActive
<1>3. ASSUME NEW p \in Polls, PollStep(p) \/ PollAborted(p)
      PROVE  RunsInv'
  BY <1>3, RunsInvPoll, RunsInvPollCommit DEF PollStep
<1>4. ASSUME NEW j \in Jobs,
             UpdateJobStatus(j) \/ Disconnect(j) \/ Reconnect(j) \/ IntervalElapses(j)
      PROVE  RunsInv'
  BY <1>2, <1>4 DEF UpdateJobStatus, Disconnect, Reconnect, IntervalElapses
<1> QED BY <1>1, <1>2, <1>3, <1>4, RunsInvRunStep, RunsInvRunFault, RunsInvCancel
        DEF Next, vars

\* If polls do not overlap and no admin starts a run, no job ever has two
\* active runs, whatever fails, is lost, redelivered or cancelled.
THEOREM OneActiveRunHolds ==
  ASSUME \A p, q \in Polls : p = q, {"start", "retry"} \cap Kinds = {}
  PROVE  Spec => []OneActiveRun
<1>1. RunsInv => OneActiveRun
  BY DEF RunsInv
<1> QED BY <1>1, TypeInit, TypeStep, RunsInvInit, RunsInvStep, PTL DEF Spec
=============================================================================
