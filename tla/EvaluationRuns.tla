--------------------------- MODULE EvaluationRuns ---------------------------
(***************************************************************************)
(* The evaluation runs of one evaluation set.  A request looks for an      *)
(* active run, commits a queued one and sends a task; the task marks the   *)
(* run running, replaces what an earlier attempt left, evaluates the       *)
(* questions it has loaded one commit at a time, writes a summary into the *)
(* run and then its final status.  Users edit and delete the set meanwhile.*)
(*                                                                         *)
(* An answer is what it scored: ok, or a failed computation that is stored *)
(* as such.  The second and later comparison targets of a run, which store *)
(* nothing but their part of the summary, quota and audit are left out.    *)
(***************************************************************************)
EXTENDS Naturals, FiniteSets

CONSTANTS
  Runs,       \* bound: runs ever requested
  Questions,  \* questions that ever exist
  MaxRetries, \* celery_task_max_retries
  MaxCrashes, \* bound: worker losses in a behaviour
  Faults      \* the failures the environment may cause

\* "abort": an API process dies before or after its commit; "publish": the broker
\* refuses a task; "transient": a retried error of a database or provider;
\* "permanent": another error; "terminal": the terminal-failure handler fails.
AllFaults == {"abort", "publish", "transient", "permanent", "terminal"}

ASSUME EvaluationAssumption ==
  /\ MaxRetries \in Nat
  /\ MaxCrashes \in Nat
  /\ Faults \subseteq AllFaults

VARIABLES
  set,      \* whether the evaluation set exists
  question, \* whether each question is "new", "present" or "deleted"
  run,      \* each run's row and request, then task
  results,  \* each run's evaluation_results, marked with the attempt that wrote them
  summary,  \* each run's config.metrics_summary
  crashes   \* worker losses so far

vars == <<set, question, run, results, summary, crashes>>

RowStatus == {"none", "queued", "running", "completed", "failed"}
Active == {"queued", "running"}
WorkerSteps == {"begun", "marked", "evaluating", "summarized", "failing", "acking"}
MaxAttempts == MaxRetries + MaxCrashes + 1

\* "none" is a row that is not committed yet, or gone with its set.  todo, ok
\* and bad are what the task has in memory; "lost" is the end of a run nobody goes
\* on with.
RunRecord ==
  [row: RowStatus,
   pc: {"none", "creating", "unsent", "queued", "done", "lost"} \cup WorkerSteps,
   retries: 0..MaxRetries, attempt: 0..MaxAttempts,
   todo: SUBSET Questions, ok: SUBSET Questions, bad: SUBSET Questions]

NoRun == [row |-> "none", pc |-> "none", retries |-> 0, attempt |-> 0,
          todo |-> {}, ok |-> {}, bad |-> {}]

Result == [question: Questions, ok: BOOLEAN, attempt: 1..MaxAttempts]
Summary == [ok: SUBSET Questions, bad: SUBSET Questions, attempt: 0..MaxAttempts]
NoSummary == [ok |-> {}, bad |-> {}, attempt |-> 0]

TypeOK ==
  /\ set \in BOOLEAN
  /\ question \in [Questions -> {"new", "present", "deleted"}]
  /\ run \in [Runs -> RunRecord]
  /\ results \in [Runs -> SUBSET Result]
  /\ summary \in [Runs -> Summary]
  /\ crashes \in 0..MaxCrashes
  \* Every attempt beyond the first was paid for by a retry or a worker loss.
  /\ \A r \in Runs : run[r].attempt <= run[r].retries + crashes + 1

Init ==
  /\ set = TRUE
  /\ question \in [Questions -> {"new", "present"}]
  /\ run = [r \in Runs |-> NoRun]
  /\ results = [r \in Runs |-> {}]
  /\ summary = [r \in Runs |-> NoSummary]
  /\ crashes = 0

----------------------------------------------------------------------------
(* The requests.                                                           *)

ActiveRuns == {r \in Runs : run[r].row \in Active}

At(r, pc) == run[r].pc = pc

\* The look for an active run of the set, before quota and the insert.
TriggerCheck(r) ==
  /\ At(r, "none")
  /\ set /\ ActiveRuns = {}
  /\ run' = [run EXCEPT ![r].pc = "creating"]
  /\ UNCHANGED <<set, question, results, summary, crashes>>

\* The insert; without its set, it violates a foreign key.
TriggerCommit(r) ==
  /\ At(r, "creating")
  /\ run' = [run EXCEPT ![r].row = IF set THEN "queued" ELSE "none",
                        ![r].pc = IF set THEN "unsent" ELSE "done"]
  /\ UNCHANGED <<set, question, results, summary, crashes>>

Send(r) ==
  /\ At(r, "unsent")
  /\ run' = [run EXCEPT ![r].pc = "queued"]
  /\ UNCHANGED <<set, question, results, summary, crashes>>

\* The status a row that may have been deleted gets.
Updated(r, status) == IF run[r].row = "none" THEN "none" ELSE status

SendFails(r) ==
  /\ "publish" \in Faults
  /\ At(r, "unsent")
  /\ run' = [run EXCEPT ![r].row = Updated(r, "failed"), ![r].pc = "done"]
  /\ UNCHANGED <<set, question, results, summary, crashes>>

TriggerAborted(r) ==
  /\ "abort" \in Faults
  /\ run[r].pc \in {"creating", "unsent"}
  /\ run' = [run EXCEPT ![r].pc = "lost"]
  /\ UNCHANGED <<set, question, results, summary, crashes>>

\* A benchmark run of the set: inserted and sent in a transaction that ends
\* with the session, without a commit.
TriggerBenchmark(r) ==
  /\ At(r, "none")
  /\ set /\ ActiveRuns = {}
  /\ run' = [run EXCEPT ![r].pc = "queued"]
  /\ UNCHANGED <<set, question, results, summary, crashes>>

----------------------------------------------------------------------------
(* The users.                                                              *)

AddQuestion(q) ==
  /\ set /\ question[q] = "new"
  /\ question' = [question EXCEPT ![q] = "present"]
  /\ UNCHANGED <<set, run, results, summary, crashes>>

\* The ORM has no delete cascade from a question to its results and would set
\* their key, which is not nullable, to null: a question with results cannot be
\* deleted.  One stored since the ORM looked goes by the foreign key's cascade.
DeleteQuestion(q) ==
  /\ set /\ question[q] = "present"
  /\ \A r \in Runs : (\E x \in results[r] : x.question = q) => At(r, "evaluating")
  /\ question' = [question EXCEPT ![q] = "deleted"]
  /\ results' = [r \in Runs |-> {x \in results[r] : x.question # q}]
  /\ UNCHANGED <<set, run, summary, crashes>>

DeleteSet ==
  /\ set
  /\ set' = FALSE
  /\ question' = [q \in Questions |-> "deleted"]
  /\ run' = [r \in Runs |-> [run[r] EXCEPT !.row = "none"]]
  /\ results' = [r \in Runs |-> {}]
  /\ summary' = [r \in Runs |-> NoSummary]
  /\ UNCHANGED crashes

----------------------------------------------------------------------------
(* The task.                                                               *)

\* The run's task moves to pc without what it had in memory.
Forgetting(r, pc) == [run[r] EXCEPT !.pc = pc, !.todo = {}, !.ok = {}, !.bad = {}]

\* Mutant: retries are not counted against the limit.
RetryForever(r) == run' = [run EXCEPT ![r] = [Forgetting(r, "queued") EXCEPT !.retries = @ + 1]]

\* A transient error: Celery's retry, or the end of them.
Retry(r) ==
  run' = [run EXCEPT ![r] =
            IF run[r].retries < MaxRetries
              THEN [Forgetting(r, "queued") EXCEPT !.retries = @ + 1]
              ELSE Forgetting(r, "failing")]

GiveUp(r) == run' = [run EXCEPT ![r] = Forgetting(r, "failing")]

\* Mutant: a redelivered task does not look at the run's status.
BeginForced(r) ==
  /\ At(r, "queued")
  /\ IF run[r].row = "none" THEN GiveUp(r) ELSE run' = [run EXCEPT ![r].pc = "begun"]
  /\ UNCHANGED <<set, question, results, summary, crashes>>

\* The task reads the status: a completed run is done, a missing one an error.
Begin(r) ==
  /\ At(r, "queued")
  /\ CASE run[r].row = "none" -> GiveUp(r)
       [] run[r].row = "completed" -> run' = [run EXCEPT ![r].pc = "acking"]
       [] OTHER -> run' = [run EXCEPT ![r].pc = "begun"]
  /\ UNCHANGED <<set, question, results, summary, crashes>>

MarkRunning(r) ==
  /\ At(r, "begun")
  /\ IF run[r].row = "none"
       THEN Retry(r)
       ELSE run' = [run EXCEPT ![r].row = "running", ![r].pc = "marked"]
  /\ UNCHANGED <<set, question, results, summary, crashes>>

\* Mutant: results of an earlier attempt are kept.
ClearKeeping(r) ==
  /\ At(r, "marked")
  /\ IF run[r].row = "none"
       THEN GiveUp(r)
       ELSE run' = [run EXCEPT ![r].pc = "evaluating", ![r].attempt = @ + 1,
                               ![r].todo = {q \in Questions : question[q] = "present"}]
  /\ UNCHANGED <<set, question, results, summary, crashes>>

\* Loading the run and its questions, and the commit that replaces the results
\* of earlier attempts.
Clear(r) ==
  /\ At(r, "marked")
  /\ IF run[r].row = "none"
       THEN GiveUp(r) /\ UNCHANGED results
       ELSE /\ run' = [run EXCEPT ![r].pc = "evaluating", ![r].attempt = @ + 1,
                                  ![r].todo = {q \in Questions : question[q] = "present"}]
            /\ results' = [results EXCEPT ![r] = {}]
  /\ UNCHANGED <<set, question, summary, crashes>>

\* Mutant: the result of a failed computation is counted and not stored.
EvaluateSkipping(r, q) ==
  /\ At(r, "evaluating") /\ q \in run[r].todo
  /\ IF question[q] # "present"
       THEN Retry(r) /\ UNCHANGED results
       ELSE \E good \in BOOLEAN :
              /\ run' = [run EXCEPT ![r].todo = @ \ {q},
                                    ![r].ok = IF good THEN @ \cup {q} ELSE @,
                                    ![r].bad = IF good THEN @ ELSE @ \cup {q}]
              /\ results' = IF good
                              THEN [results EXCEPT
                                      ![r] = @ \cup {[question |-> q, ok |-> TRUE,
                                                      attempt |-> run[r].attempt]}]
                              ELSE results
  /\ UNCHANGED <<set, question, summary, crashes>>

\* One question, and the commit of its result, which names a run and a question
\* that may be gone.
Evaluate(r, q) ==
  /\ At(r, "evaluating") /\ q \in run[r].todo
  /\ IF question[q] # "present"
       THEN Retry(r) /\ UNCHANGED results
       ELSE \E good \in BOOLEAN :
              /\ run' = [run EXCEPT ![r].todo = @ \ {q},
                                    ![r].ok = IF good THEN @ \cup {q} ELSE @,
                                    ![r].bad = IF good THEN @ ELSE @ \cup {q}]
              /\ results' = [results EXCEPT
                               ![r] = @ \cup {[question |-> q, ok |-> good,
                                               attempt |-> run[r].attempt]}]
  /\ UNCHANGED <<set, question, summary, crashes>>

Summarize(r) ==
  /\ At(r, "evaluating") /\ run[r].todo = {}
  /\ IF run[r].row = "none"
       THEN Retry(r) /\ UNCHANGED summary
       ELSE /\ run' = [run EXCEPT ![r].pc = "summarized"]
            /\ summary' = [summary EXCEPT ![r] = [ok |-> run[r].ok, bad |-> run[r].bad,
                                                  attempt |-> run[r].attempt]]
  /\ UNCHANGED <<set, question, results, crashes>>

\* Mutant: a run is completed whatever came of its questions.
FinishCompleting(r) ==
  /\ At(r, "summarized")
  /\ IF run[r].row = "none"
       THEN Retry(r)
       ELSE run' = [run EXCEPT ![r] = [Forgetting(r, "acking") EXCEPT !.row = "completed"]]
  /\ UNCHANGED <<set, question, results, summary, crashes>>

\* A run fails when it had questions and none could be computed.
Finish(r) ==
  /\ At(r, "summarized")
  /\ IF run[r].row = "none"
       THEN Retry(r)
       ELSE run' = [run EXCEPT
                      ![r] = [Forgetting(r, "acking") EXCEPT
                                !.row = IF run[r].bad # {} /\ run[r].ok = {}
                                          THEN "failed" ELSE "completed"]]
  /\ UNCHANGED <<set, question, results, summary, crashes>>

Ack(r) ==
  /\ At(r, "acking")
  /\ run' = [run EXCEPT ![r].pc = "done"]
  /\ UNCHANGED <<set, question, results, summary, crashes>>

TaskRaises(r) ==
  /\ run[r].pc \in {"queued", "begun", "marked", "evaluating", "summarized"}
  /\ \/ "transient" \in Faults /\ Retry(r)
     \/ "permanent" \in Faults /\ GiveUp(r)
  /\ UNCHANGED <<set, question, results, summary, crashes>>

TerminalFailure(r) ==
  /\ At(r, "failing")
  /\ run' = [run EXCEPT ![r].row = Updated(r, "failed"), ![r].pc = "acking"]
  /\ UNCHANGED <<set, question, results, summary, crashes>>

\* The handler swallows its own errors.
TerminalFailureFails(r) ==
  /\ "terminal" \in Faults
  /\ At(r, "failing")
  /\ run' = [run EXCEPT ![r].pc = "lost"]
  /\ UNCHANGED <<set, question, results, summary, crashes>>

\* Mutant: messages are acknowledged before they are executed.
WorkerLostEarlyAck(r) ==
  /\ run[r].pc \in WorkerSteps
  /\ crashes < MaxCrashes
  /\ crashes' = crashes + 1
  /\ run' = [run EXCEPT ![r] = Forgetting(r, "done")]
  /\ UNCHANGED <<set, question, results, summary>>

\* The unacknowledged message is delivered again, with the retries it had.
WorkerLost(r) ==
  /\ run[r].pc \in WorkerSteps
  /\ crashes < MaxCrashes
  /\ crashes' = crashes + 1
  /\ run' = [run EXCEPT ![r] = Forgetting(r, "queued")]
  /\ UNCHANGED <<set, question, results, summary>>

----------------------------------------------------------------------------
RunStep(r) ==
  \/ TriggerCommit(r) \/ Send(r)
  \/ Begin(r) \/ MarkRunning(r) \/ Clear(r)
  \/ \E q \in Questions : Evaluate(r, q)
  \/ Summarize(r) \/ Finish(r) \/ TerminalFailure(r) \/ Ack(r)

RunFault(r) ==
  \/ SendFails(r) \/ TriggerAborted(r) \/ TaskRaises(r)
  \/ TerminalFailureFails(r) \/ WorkerLost(r)

UserStep ==
  \/ \E q \in Questions : AddQuestion(q) \/ DeleteQuestion(q)
  \/ DeleteSet

Next ==
  \/ \E r \in Runs : TriggerCheck(r) \/ TriggerBenchmark(r) \/ RunStep(r) \/ RunFault(r)
  \/ UserStep

Spec == Init /\ [][Next]_vars

\* Live API processes and workers go on and the broker delivers; users and
\* faults are not obliged to do anything.
FairSpec == Spec /\ \A r \in Runs : WF_vars(RunStep(r))

----------------------------------------------------------------------------
(* Properties.                                                             *)

\* The table has no unique key on run and question: that no retry, redelivery
\* or deletion leaves a run with two results of one question is due to the
\* delete at the start of each attempt alone.
EachQuestionOnce ==
  \A r \in Runs : \A x, y \in results[r] : x.question = y.question => x = y

\* The results of run r are those its summary counts, but for questions deleted
\* since, and were written by the same attempt.
Consistent(r) ==
  LET s == summary[r]
  IN /\ s.attempt > 0
     /\ results[r] = {[question |-> q, ok |-> q \in s.ok, attempt |-> s.attempt] :
                        q \in {p \in s.ok \cup s.bad : question[p] = "present"}}

\* A completed run can be trusted: its summary and its results come from one
\* attempt and agree on every question, but for questions deleted since.
CompletedIsConsistent == \A r \in Runs : run[r].row = "completed" => Consistent(r)

\* An active run stops further runs of its set, so somebody has its task in
\* hand: the request that is to send it, the broker or a worker.  A process that
\* dies before the send and a terminal failure that is not recorded are the only
\* ways to strand a run.
ActiveRunHasTask ==
  \A r \in Runs :
    run[r].row \in Active =>
      run[r].pc \in {"unsent", "queued", "begun", "marked", "evaluating", "summarized",
                     "failing", "lost"}

\* A completed run never runs again, whatever is delivered twice or late: its
\* summary stays, its results go by deletion only, and nothing but the
\* terminal-failure handler of a redelivered task, which does not look at the
\* status, takes it out of completed.
CompletedNeverReruns ==
  [][\A r \in Runs :
       run[r].row = "completed" /\ set' =>
         /\ run'[r].row \in {"completed", "failed"}
         /\ summary'[r] = summary[r]
         /\ results'[r] \subseteq results[r]]_vars

\* An active run, which blocks its set, ends through retries and worker losses,
\* unless it was stranded in one of those two ways.
ActiveRunEnds ==
  \A r \in Runs : run[r].row \in Active ~> run[r].row \notin Active \/ At(r, "lost")

----------------------------------------------------------------------------
(* Refinement.                                                             *)

\* What a reader makes of run r.  A completed run whose summary and results
\* disagree is a phase that a report does not have.
ReportOf(r) ==
  LET phase == CASE run[r].row = "none" -> "none"
                 [] run[r].row \in Active -> "pending"
                 [] run[r].row = "failed" -> "failed"
                 [] OTHER -> IF Consistent(r) THEN "published" ELSE "inconsistent"
  IN IF phase = "published"
       THEN [phase |-> phase, asked |-> summary[r].ok \cup summary[r].bad,
             ok |-> summary[r].ok]
       ELSE [phase |-> phase, asked |-> {}, ok |-> {}]

Report == INSTANCE EvaluationReport
            WITH open <- set, report <- [r \in Runs |-> ReportOf(r)]

\* Attempts that are lost, repeated and overlap with edits of the set look to a
\* reader like one step from pending to a complete report.
ImplementsReport == Report!Spec
=============================================================================
