------------------------ MODULE EvaluationRunsProofs ------------------------
(***************************************************************************)
(* What holds of evaluation runs for any number of runs, of questions, of   *)
(* retries and of worker losses.  The invariant is one of each run: what    *)
(* its task has in memory is what it has stored, its attempts have been     *)
(* paid for, and where a completed or an active row can meet its task.      *)
(***************************************************************************)
EXTENDS EvaluationRuns, TLAPS

Old == {q \in Questions : question[q] # "new"}

\* The results that agree with what s says of the questions there still are.
Scored(s) ==
  {[question |-> q, ok |-> q \in s.ok, attempt |-> s.attempt] :
     q \in {p \in s.ok \cup s.bad : question[p] = "present"}}

Once(res) == \A x, y \in res : x.question = y.question => x = y

\* Attempts: each beyond the first is paid for by a retry or a worker loss.
Paid(rec, lost) ==
  /\ rec.attempt <= rec.retries + lost + 1
  /\ rec.pc \in {"none", "creating", "unsent", "queued", "begun", "marked"} =>
       rec.attempt <= rec.retries + lost

\* Rows: there is none before the commit, a task at work has no completed run but
\* the one it has marked, an active run has a task.
Placed(rec) ==
  /\ rec.pc \in {"none", "creating"} => rec.row = "none"
  /\ rec.pc \in {"marked", "evaluating", "summarized"} => rec.row \in {"none", "running"}
  /\ rec.pc \in {"none", "creating", "unsent", "begun", "marked", "evaluating", "summarized"} =>
       rec.row # "completed"
  /\ rec.pc \in {"none", "creating", "acking", "done"} => rec.row \notin Active

\* Results: those of the attempt that is going on, and those of a completed run.
Stored(rec, res, sum) ==
  /\ (rec.todo \cup rec.ok \cup rec.bad \cup sum.ok \cup sum.bad) \subseteq Old
  /\ Once(res)
  /\ rec.pc \in {"none", "creating", "unsent", "queued", "begun", "marked"} =>
       rec.todo = {} /\ rec.ok = {} /\ rec.bad = {}
  /\ rec.pc = "evaluating" => rec.todo \cap (rec.ok \cup rec.bad) = {}
  /\ rec.pc \in {"evaluating", "summarized"} => rec.attempt > 0 /\ res = Scored(rec)
  /\ rec.pc = "summarized" /\ rec.row # "none" =>
       sum.ok = rec.ok /\ sum.bad = rec.bad /\ sum.attempt = rec.attempt
  /\ rec.row = "completed" => sum.attempt > 0 /\ res = Scored(sum)

Inv ==
  /\ TypeOK
  /\ \A r \in Runs : Paid(run[r], crashes) /\ Placed(run[r])
                     /\ Stored(run[r], results[r], summary[r])

USE EvaluationAssumption
    DEF RowStatus, Active, WorkerSteps, MaxAttempts, RunRecord, Result, Summary, At

----------------------------------------------------------------------------
LEMMA InitInv == Init => Inv
<1> SUFFICES ASSUME Init PROVE Inv
  OBVIOUS
<1>1. NoRun \in RunRecord /\ NoSummary \in Summary
  BY DEF NoRun, NoSummary
<1>2. TypeOK
  BY <1>1 DEF Init, TypeOK, NoRun
<1>3. \A r \in Runs : run[r] = NoRun /\ results[r] = {} /\ summary[r] = NoSummary
  BY DEF Init
<1>4. Paid(NoRun, crashes) /\ Placed(NoRun)
  BY DEF Init, Paid, Placed, NoRun
<1>5. Stored(NoRun, {}, NoSummary)
  BY DEF Stored, NoRun, NoSummary, Once
<1> QED BY <1>2, <1>3, <1>4, <1>5 DEF Inv

\* A step of one run: what it leaves of the others, and what is to be shown of it.
LEMMA OneRun ==
  ASSUME Inv, NEW r \in Runs, NEW rec \in RunRecord, NEW res \in SUBSET Result,
         NEW sum \in Summary,
         UNCHANGED <<set, question>>,
         run' = [run EXCEPT ![r] = rec],
         results' = [results EXCEPT ![r] = res],
         summary' = [summary EXCEPT ![r] = sum],
         crashes' \in {crashes, crashes + 1}, crashes' <= MaxCrashes,
         Paid(rec, crashes'), Placed(rec), Stored(rec, res, sum)
  PROVE  Inv'
<1>1. /\ run' \in [Runs -> RunRecord] /\ results' \in [Runs -> SUBSET Result]
      /\ summary' \in [Runs -> Summary]
      /\ run'[r] = rec /\ results'[r] = res /\ summary'[r] = sum
      /\ \A x \in Runs \ {r} : /\ run'[x] = run[x] /\ results'[x] = results[x]
                               /\ summary'[x] = summary[x]
  BY DEF Inv, TypeOK
<1>2. crashes \in Nat /\ crashes' \in 0..MaxCrashes
  BY DEF Inv, TypeOK
<1>3. \A x \in Runs : Paid(run'[x], crashes')
  <2> SUFFICES ASSUME NEW x \in Runs, x # r PROVE Paid(run[x], crashes')
    BY <1>1
  <2>1. Paid(run[x], crashes) /\ run[x].attempt \in Nat /\ run[x].retries \in Nat
    BY DEF Inv, TypeOK
  <2> QED BY <2>1, <1>2 DEF Paid
<1>4. \A x \in Runs : Placed(run'[x])
  BY <1>1 DEF Inv
<1>5. \A x \in Runs : Stored(run[x], results[x], summary[x])'
  <2>1. \A x \in Runs : Stored(run'[x], results'[x], summary'[x])
    BY <1>1 DEF Inv
  <2> QED BY <2>1 DEF Stored, Old, Scored, Once
<1>6. TypeOK'
  BY <1>1, <1>2, <1>3 DEF Inv, TypeOK, Paid
<1> QED BY <1>3, <1>4, <1>5, <1>6 DEF Inv

\* The same for a step that changes no results.
LEMMA RunOnly ==
  ASSUME Inv, NEW r \in Runs, NEW rec \in RunRecord,
         UNCHANGED <<set, question, results, summary>>,
         run' = [run EXCEPT ![r] = rec],
         crashes' \in {crashes, crashes + 1}, crashes' <= MaxCrashes,
         Paid(rec, crashes'), Placed(rec), Stored(rec, results[r], summary[r])
  PROVE  Inv'
<1>1. results[r] \in SUBSET Result /\ summary[r] \in Summary
  BY DEF Inv, TypeOK
<1>2. /\ results' = [results EXCEPT ![r] = results[r]]
      /\ summary' = [summary EXCEPT ![r] = summary[r]]
  BY DEF Inv, TypeOK
<1> QED BY <1>1, <1>2, OneRun

\* What is known of a run.
LEMMA RunFacts ==
  ASSUME Inv, NEW r \in Runs
  PROVE  /\ run[r] \in RunRecord /\ results[r] \in SUBSET Result /\ summary[r] \in Summary
         /\ crashes \in 0..MaxCrashes /\ (crashes' = crashes => crashes' <= MaxCrashes)
         /\ Paid(run[r], crashes) /\ Placed(run[r])
         /\ Stored(run[r], results[r], summary[r])
BY DEF Inv, TypeOK

\* The task of a run loses what it has in memory.
LEMMA ForgettingFields ==
  ASSUME Inv, NEW r \in Runs, NEW pc \in {"queued", "failing", "acking", "done"}
  PROVE  LET rec == Forgetting(r, pc)
         IN  /\ rec \in RunRecord /\ rec.pc = pc /\ rec.row = run[r].row
             /\ rec.retries = run[r].retries /\ rec.attempt = run[r].attempt
             /\ rec.todo = {} /\ rec.ok = {} /\ rec.bad = {}
<1>1. run[r] \in RunRecord
  BY RunFacts
<1> QED BY <1>1 DEF Forgetting

LEMMA ForgettingStep ==
  ASSUME Inv, NEW r \in Runs, NEW rec \in RunRecord,
         rec.pc \in {"queued", "failing", "acking"}, rec.attempt = run[r].attempt,
         rec.todo = {}, rec.ok = {}, rec.bad = {},
         UNCHANGED <<set, question, results, summary>>,
         run' = [run EXCEPT ![r] = rec],
         crashes' \in {crashes, crashes + 1}, crashes' <= MaxCrashes,
         rec.row = "completed" => run[r].row = "completed",
         rec.pc = "acking" => rec.row \notin Active,
         rec.retries >= run[r].retries,
         rec.pc = "queued" => rec.retries + crashes' >= run[r].retries + crashes + 1
  PROVE  Inv'
<1>1. /\ run[r] \in RunRecord /\ crashes \in 0..MaxCrashes
      /\ Paid(run[r], crashes) /\ Stored(run[r], results[r], summary[r])
  BY RunFacts
<1>2. Paid(rec, crashes')
  BY <1>1 DEF Paid
<1>3. Placed(rec)
  BY DEF Placed
<1>4. Stored(rec, results[r], summary[r])
  BY <1>1 DEF Stored
<1> QED BY <1>2, <1>3, <1>4, RunOnly

LEMMA RetryInv ==
  ASSUME Inv, NEW r \in Runs, Retry(r), UNCHANGED <<set, question, results, summary, crashes>>
  PROVE  Inv'
<1>1. run[r] \in RunRecord /\ crashes \in 0..MaxCrashes
  BY RunFacts
<1>2. CASE run[r].retries < MaxRetries
  <2> DEFINE old == Forgetting(r, "queued")
             rec == [old EXCEPT !.retries = old.retries + 1]
  <2>1. /\ old \in RunRecord /\ old.pc = "queued" /\ old.row = run[r].row
        /\ old.retries = run[r].retries /\ old.attempt = run[r].attempt
        /\ old.todo = {} /\ old.ok = {} /\ old.bad = {}
    BY ForgettingFields
  <2>2. run' = [run EXCEPT ![r] = rec]
    BY <1>2 DEF Retry
  <2> HIDE DEF old
  <2>3. old.retries + 1 \in 0..MaxRetries
    BY <1>1, <1>2, <2>1
  <2>4. /\ rec \in RunRecord /\ rec.pc = "queued" /\ rec.row = run[r].row
        /\ rec.retries = run[r].retries + 1 /\ rec.attempt = run[r].attempt
        /\ rec.todo = {} /\ rec.ok = {} /\ rec.bad = {}
    BY <2>1, <2>3
  <2> HIDE DEF rec
  <2>5. /\ crashes' \in {crashes, crashes + 1} /\ crashes' <= MaxCrashes
        /\ rec.retries + crashes' >= run[r].retries + crashes + 1 /\ rec.retries >= run[r].retries
    BY <1>1, <2>4
  <2> QED BY <2>2, <2>4, <2>5, ForgettingStep
<1>3. CASE ~(run[r].retries < MaxRetries)
  <2> DEFINE rec == Forgetting(r, "failing")
  <2>1. /\ rec \in RunRecord /\ rec.pc = "failing" /\ rec.row = run[r].row
        /\ rec.retries = run[r].retries /\ rec.attempt = run[r].attempt
        /\ rec.todo = {} /\ rec.ok = {} /\ rec.bad = {}
    BY ForgettingFields
  <2>2. run' = [run EXCEPT ![r] = rec]
    BY <1>3 DEF Retry
  <2> HIDE DEF rec
  <2>3. /\ crashes' \in {crashes, crashes + 1} /\ crashes' <= MaxCrashes
        /\ rec.retries >= run[r].retries
    BY <1>1, <2>1
  <2> QED BY <2>1, <2>2, <2>3, ForgettingStep
<1> QED BY <1>2, <1>3

LEMMA GiveUpInv ==
  ASSUME Inv, NEW r \in Runs, GiveUp(r), UNCHANGED <<set, question, results, summary, crashes>>
  PROVE  Inv'
<1> DEFINE rec == Forgetting(r, "failing")
<1>1. run[r] \in RunRecord /\ crashes \in 0..MaxCrashes
  BY RunFacts
<1>2. /\ rec \in RunRecord /\ rec.pc = "failing" /\ rec.row = run[r].row
      /\ rec.retries = run[r].retries /\ rec.attempt = run[r].attempt
      /\ rec.todo = {} /\ rec.ok = {} /\ rec.bad = {}
  BY ForgettingFields
<1>3. run' = [run EXCEPT ![r] = rec]
  BY DEF GiveUp
<1> HIDE DEF rec
<1>4. /\ crashes' \in {crashes, crashes + 1} /\ crashes' <= MaxCrashes
      /\ rec.retries >= run[r].retries
  BY <1>1, <1>2
<1> QED BY <1>2, <1>3, <1>4, ForgettingStep

LEMMA WorkerLostInv ==
  ASSUME Inv, NEW r \in Runs, WorkerLost(r)
  PROVE  Inv'
<1> DEFINE rec == Forgetting(r, "queued")
<1>1. run[r] \in RunRecord /\ crashes \in 0..MaxCrashes
  BY RunFacts
<1>2. /\ rec \in RunRecord /\ rec.pc = "queued" /\ rec.row = run[r].row
      /\ rec.retries = run[r].retries /\ rec.attempt = run[r].attempt
      /\ rec.todo = {} /\ rec.ok = {} /\ rec.bad = {}
  BY ForgettingFields
<1>3. run' = [run EXCEPT ![r] = rec] /\ crashes' = crashes + 1 /\ crashes < MaxCrashes
      /\ UNCHANGED <<set, question, results, summary>>
  BY DEF WorkerLost
<1> HIDE DEF rec
<1>4. crashes' \in {crashes, crashes + 1} /\ crashes' <= MaxCrashes
      /\ rec.retries + crashes' >= run[r].retries + crashes + 1 /\ rec.retries >= run[r].retries
  BY <1>1, <1>2, <1>3
<1> QED BY <1>2, <1>3, <1>4, ForgettingStep

\* A step that moves the request or the task of a run and may write its status.
LEMMA MoveStep ==
  ASSUME Inv, NEW r \in Runs, NEW rec \in RunRecord,
         rec.pc \in {"creating", "unsent", "queued", "begun", "marked", "acking", "done", "lost"},
         rec.retries = run[r].retries, rec.attempt = run[r].attempt,
         rec.todo = run[r].todo, rec.ok = run[r].ok, rec.bad = run[r].bad,
         run' = [run EXCEPT ![r] = rec],
         UNCHANGED <<set, question, results, summary, crashes>>,
         rec.pc \in {"creating", "unsent", "queued", "begun", "marked"} =>
           run[r].pc \in {"none", "creating", "unsent", "queued", "begun"},
         Placed(rec),
         rec.row = "completed" => run[r].row = "completed"
  PROVE  Inv'
<1>1. /\ run[r] \in RunRecord /\ crashes \in 0..MaxCrashes
      /\ Paid(run[r], crashes) /\ Stored(run[r], results[r], summary[r])
  BY RunFacts
<1>2. Paid(rec, crashes')
  BY <1>1 DEF Paid
<1>3. Stored(rec, results[r], summary[r])
  BY <1>1 DEF Stored
<1>4. crashes' \in {crashes, crashes + 1} /\ crashes' <= MaxCrashes
  BY <1>1
<1> QED BY <1>2, <1>3, <1>4, RunOnly

LEMMA MovePc ==
  ASSUME Inv, NEW r \in Runs,
         NEW pc \in {"creating", "unsent", "queued", "begun", "marked", "acking", "done", "lost"},
         run' = [run EXCEPT ![r].pc = pc],
         UNCHANGED <<set, question, results, summary, crashes>>,
         pc \in {"creating", "unsent", "queued", "begun", "marked"} =>
           run[r].pc \in {"none", "creating", "unsent", "queued", "begun"},
         pc \in {"creating", "unsent", "begun", "marked"} => run[r].row # "completed",
         pc \in {"creating", "acking", "done"} => run[r].row \notin Active,
         pc = "creating" => run[r].row = "none",
         pc = "marked" => run[r].row = "running"
  PROVE  Inv'
<1> DEFINE rec == [run[r] EXCEPT !.pc = pc]
<1>1. run[r] \in RunRecord
  BY RunFacts
<1>2. /\ rec \in RunRecord /\ rec.pc = pc /\ rec.row = run[r].row
      /\ rec.retries = run[r].retries /\ rec.attempt = run[r].attempt
      /\ rec.todo = run[r].todo /\ rec.ok = run[r].ok /\ rec.bad = run[r].bad
  BY <1>1
<1>3. run' = [run EXCEPT ![r] = rec]
  BY DEF Inv, TypeOK
<1> HIDE DEF rec
<1>4. Placed(rec)
  BY <1>2 DEF Placed
<1> QED BY <1>2, <1>3, <1>4, MoveStep

LEMMA MoveRow ==
  ASSUME Inv, NEW r \in Runs,
         NEW pc \in {"creating", "unsent", "queued", "begun", "marked", "acking", "done", "lost"},
         NEW row \in {"none", "queued", "running", "failed"},
         run' = [run EXCEPT ![r].row = row, ![r].pc = pc],
         UNCHANGED <<set, question, results, summary, crashes>>,
         pc \in {"creating", "unsent", "queued", "begun", "marked"} =>
           run[r].pc \in {"none", "creating", "unsent", "queued", "begun"},
         pc \in {"creating", "acking", "done"} => row \notin Active,
         pc = "creating" => row = "none",
         pc = "marked" => row = "running"
  PROVE  Inv'
<1> DEFINE rec == [run[r] EXCEPT !.row = row, !.pc = pc]
<1>1. run[r] \in RunRecord
  BY RunFacts
<1>2. /\ rec \in RunRecord /\ rec.pc = pc /\ rec.row = row
      /\ rec.retries = run[r].retries /\ rec.attempt = run[r].attempt
      /\ rec.todo = run[r].todo /\ rec.ok = run[r].ok /\ rec.bad = run[r].bad
  BY <1>1
<1>3. run' = [run EXCEPT ![r] = rec]
  BY DEF Inv, TypeOK
<1> HIDE DEF rec
<1>4. Placed(rec)
  BY <1>2 DEF Placed
<1> QED BY <1>2, <1>3, <1>4, MoveStep
----------------------------------------------------------------------------
LEMMA RequestInv ==
  ASSUME Inv, NEW r \in Runs,
         \/ TriggerCheck(r) \/ TriggerCommit(r) \/ Send(r)
         \/ SendFails(r) \/ TriggerAborted(r) \/ TriggerBenchmark(r)
  PROVE  Inv'
<1>0. run[r] \in RunRecord /\ Placed(run[r])
  BY RunFacts
<1>1. CASE TriggerCheck(r)
  BY <1>1, <1>0, MovePc DEF TriggerCheck, Placed
<1>2. CASE TriggerCommit(r)
  <2>1. CASE set
    BY <1>2, <2>1, MoveRow DEF TriggerCommit
  <2>2. CASE ~set
    BY <1>2, <2>2, MoveRow DEF TriggerCommit
  <2> QED BY <2>1, <2>2
<1>3. CASE Send(r)
  BY <1>3, MovePc DEF Send
<1>4. CASE SendFails(r)
  BY <1>4, MoveRow DEF SendFails, Updated
<1>5. CASE TriggerAborted(r)
  BY <1>5, MovePc DEF TriggerAborted
<1>6. CASE TriggerBenchmark(r)
  BY <1>6, MovePc DEF TriggerBenchmark
<1> QED BY <1>1, <1>2, <1>3, <1>4, <1>5, <1>6

LEMMA BeginInv ==
  ASSUME Inv, NEW r \in Runs, Begin(r)
  PROVE  Inv'
<1>1. CASE run[r].row = "none"
  BY <1>1, GiveUpInv DEF Begin
<1>2. CASE run[r].row = "completed"
  BY <1>2, MovePc DEF Begin
<1>3. CASE run[r].row \notin {"none", "completed"}
  <2>1. run' = [run EXCEPT ![r].pc = "begun"] /\ run[r].pc = "queued"
        /\ UNCHANGED <<set, question, results, summary, crashes>>
    BY <1>3 DEF Begin
  <2> QED BY <1>3, <2>1, MovePc
<1> QED BY <1>1, <1>2, <1>3

LEMMA MarkRunningInv ==
  ASSUME Inv, NEW r \in Runs, MarkRunning(r)
  PROVE  Inv'
<1>1. CASE run[r].row = "none"
  BY <1>1, RetryInv DEF MarkRunning
<1>2. CASE run[r].row # "none"
  BY <1>2, MoveRow DEF MarkRunning
<1> QED BY <1>1, <1>2

LEMMA ClearInv ==
  ASSUME Inv, NEW r \in Runs, Clear(r)
  PROVE  Inv'
<1>1. CASE run[r].row = "none"
  BY <1>1, GiveUpInv DEF Clear
<1>2. CASE run[r].row # "none"
  <2> DEFINE todo == {q \in Questions : question[q] = "present"}
             rec == [run[r] EXCEPT !.pc = "evaluating", !.attempt = run[r].attempt + 1,
                                   !.todo = todo]
  <2>1. /\ run[r] \in RunRecord /\ summary[r] \in Summary /\ crashes \in 0..MaxCrashes
        /\ Paid(run[r], crashes) /\ Placed(run[r]) /\ Stored(run[r], results[r], summary[r])
        /\ run[r].pc = "marked"
    BY RunFacts DEF Clear
  <2>2. run[r].attempt + 1 \in 0..MaxAttempts /\ run[r].attempt + 1 > 0
        /\ run[r].attempt + 1 <= run[r].retries + crashes + 1
    BY <2>1 DEF Paid
  <2>3. todo \in SUBSET Questions /\ todo \subseteq Old
    BY DEF Old
  <2>4. run' = [run EXCEPT ![r] = rec]
    BY <1>2 DEF Clear, Inv, TypeOK
  <2> HIDE DEF todo
  <2>5. /\ rec \in RunRecord /\ rec.pc = "evaluating" /\ rec.row = run[r].row
        /\ rec.retries = run[r].retries /\ rec.attempt = run[r].attempt + 1
        /\ rec.todo = todo /\ rec.ok = run[r].ok /\ rec.bad = run[r].bad
    BY <2>1, <2>2, <2>3
  <2> HIDE DEF rec
  <2>6. rec.ok = {} /\ rec.bad = {}
    BY <2>1, <2>5 DEF Stored
  <2>7. Scored(rec) = {}
    BY <2>6 DEF Scored
  <2>8. Paid(rec, crashes) /\ Placed(rec)
    BY <2>1, <2>2, <2>5 DEF Paid, Placed
  <2>9. Stored(rec, {}, summary[r])
    BY <2>1, <2>2, <2>3, <2>5, <2>6, <2>7 DEF Stored, Placed, Once
  <2>10. /\ results' = [results EXCEPT ![r] = {}]
         /\ summary' = [summary EXCEPT ![r] = summary[r]]
         /\ UNCHANGED <<set, question, crashes>>
    BY <1>2 DEF Clear, Inv, TypeOK
  <2>11. crashes' \in {crashes, crashes + 1} /\ crashes' <= MaxCrashes /\ Paid(rec, crashes')
    BY <2>1, <2>8, <2>10
  <2>12. {} \in SUBSET Result
    OBVIOUS
  <2> QED BY <2>1, <2>4, <2>5, <2>8, <2>9, <2>10, <2>11, <2>12, OneRun
<1> QED BY <1>1, <1>2

LEMMA EvaluateInv ==
  ASSUME Inv, NEW r \in Runs, NEW q \in Questions, Evaluate(r, q)
  PROVE  Inv'
<1>1. CASE question[q] # "present"
  BY <1>1, RetryInv DEF Evaluate
<1>2. CASE question[q] = "present"
  <2>1. PICK good \in BOOLEAN :
          /\ run' = [run EXCEPT ![r].todo = @ \ {q},
                                ![r].ok = IF good THEN @ \cup {q} ELSE @,
                                ![r].bad = IF good THEN @ ELSE @ \cup {q}]
          /\ results' = [results EXCEPT
                           ![r] = @ \cup {[question |-> q, ok |-> good,
                                           attempt |-> run[r].attempt]}]
    BY <1>2 DEF Evaluate
  <2> DEFINE todo == run[r].todo \ {q}
             ok == IF good THEN run[r].ok \cup {q} ELSE run[r].ok
             bad == IF good THEN run[r].bad ELSE run[r].bad \cup {q}
             new == [question |-> q, ok |-> good, attempt |-> run[r].attempt]
             rec == [run[r] EXCEPT !.todo = todo, !.ok = ok, !.bad = bad]
             res == results[r] \cup {new}
  <2>2. /\ run[r] \in RunRecord /\ results[r] \in SUBSET Result /\ summary[r] \in Summary
        /\ crashes \in 0..MaxCrashes
        /\ Paid(run[r], crashes) /\ Placed(run[r]) /\ Stored(run[r], results[r], summary[r])
        /\ run[r].pc = "evaluating" /\ q \in run[r].todo
    BY RunFacts DEF Evaluate
  <2>3. /\ run[r].attempt > 0 /\ results[r] = Scored(run[r])
        /\ run[r].todo \cap (run[r].ok \cup run[r].bad) = {}
        /\ q \in Old
    BY <2>2 DEF Stored
  <2>4. run' = [run EXCEPT ![r] = rec] /\ results' = [results EXCEPT ![r] = res]
    BY <2>1 DEF Inv, TypeOK
  <2>5. todo \in SUBSET Questions /\ ok \in SUBSET Questions /\ bad \in SUBSET Questions
        /\ todo \subseteq Old /\ todo \cap (ok \cup bad) = {}
        /\ ok \cup bad = run[r].ok \cup run[r].bad \cup {q}
        /\ (q \in ok <=> good) /\ \A p \in Questions \ {q} : p \in ok <=> p \in run[r].ok
    BY <2>2, <2>3 DEF Stored
  <2> HIDE DEF todo, ok, bad
  <2>6. /\ rec \in RunRecord /\ rec.pc = run[r].pc /\ rec.row = run[r].row
        /\ rec.retries = run[r].retries /\ rec.attempt = run[r].attempt
        /\ rec.todo = todo /\ rec.ok = ok /\ rec.bad = bad
    BY <2>2, <2>5
  <2>7. new \in Result
    BY <2>2, <2>3
  <2> HIDE DEF rec
  <2>8. res = Scored(rec)
    <3> DEFINE Mark(p, s) == [question |-> p, ok |-> p \in s.ok, attempt |-> s.attempt]
    <3>1. \A p \in Questions \ {q} : Mark(p, rec) = Mark(p, run[r])
      BY <2>5, <2>6
    <3>2. Mark(q, rec) = new
      BY <2>5, <2>6
    <3>3. Scored(rec) = {Mark(p, rec) : p \in {x \in ok \cup bad : question[x] = "present"}}
      BY <2>6 DEF Scored
    <3>4. Scored(run[r]) = {Mark(p, run[r]) :
                             p \in {x \in run[r].ok \cup run[r].bad : question[x] = "present"}}
      BY DEF Scored
    <3>5. q \notin run[r].ok \cup run[r].bad
      BY <2>2, <2>3
    <3> HIDE DEF Mark, new
    <3>6. \A x \in Scored(rec) : x \in res
      BY <3>1, <3>2, <3>3, <3>4, <2>2, <2>3, <2>5
    <3>7. \A x \in res : x \in Scored(rec)
      BY <3>1, <3>2, <3>3, <3>4, <3>5, <2>2, <2>3, <2>5, <1>2
    <3> QED BY <3>6, <3>7
  <2>9. Once(res)
    <3>1. \A x \in results[r] : x.question # q
      BY <2>2, <2>3 DEF Scored
    <3>2. new.question = q
      OBVIOUS
    <3> HIDE DEF new
    <3> QED BY <3>1, <3>2, <2>2 DEF Stored, Once
  <2>10. res \in SUBSET Result
    BY <2>2, <2>7
  <2> HIDE DEF res, new
  <2>11. Paid(rec, crashes) /\ Placed(rec)
    BY <2>2, <2>6 DEF Paid, Placed
  <2>12. Stored(rec, res, summary[r])
    BY <2>2, <2>3, <2>5, <2>6, <2>8, <2>9 DEF Stored, Placed
  <2>13. /\ summary' = [summary EXCEPT ![r] = summary[r]]
         /\ UNCHANGED <<set, question, crashes>>
    BY DEF Evaluate, Inv, TypeOK
  <2>14. crashes' \in {crashes, crashes + 1} /\ crashes' <= MaxCrashes /\ Paid(rec, crashes')
    BY <2>2, <2>11, <2>13
  <2> QED BY <2>2, <2>4, <2>6, <2>10, <2>11, <2>12, <2>13, <2>14, OneRun
<1> QED BY <1>1, <1>2
LEMMA SummarizeInv ==
  ASSUME Inv, NEW r \in Runs, Summarize(r)
  PROVE  Inv'
<1>1. CASE run[r].row = "none"
  BY <1>1, RetryInv DEF Summarize
<1>2. CASE run[r].row # "none"
  <2> DEFINE rec == [run[r] EXCEPT !.pc = "summarized"]
             sum == [ok |-> run[r].ok, bad |-> run[r].bad, attempt |-> run[r].attempt]
  <2>1. /\ run[r] \in RunRecord /\ results[r] \in SUBSET Result /\ crashes \in 0..MaxCrashes
        /\ Paid(run[r], crashes) /\ Placed(run[r]) /\ Stored(run[r], results[r], summary[r])
        /\ run[r].pc = "evaluating"
    BY RunFacts DEF Summarize
  <2>2. /\ rec \in RunRecord /\ rec.pc = "summarized" /\ rec.row = run[r].row
        /\ rec.retries = run[r].retries /\ rec.attempt = run[r].attempt
        /\ rec.todo = run[r].todo /\ rec.ok = run[r].ok /\ rec.bad = run[r].bad
    BY <2>1
  <2>3. /\ sum \in Summary /\ sum.ok = run[r].ok /\ sum.bad = run[r].bad
        /\ sum.attempt = run[r].attempt
    BY <2>1
  <2>4. /\ run' = [run EXCEPT ![r] = rec] /\ summary' = [summary EXCEPT ![r] = sum]
        /\ results' = [results EXCEPT ![r] = results[r]]
        /\ UNCHANGED <<set, question, crashes>>
    BY <1>2 DEF Summarize, Inv, TypeOK
  <2> HIDE DEF rec, sum
  <2>5. Paid(rec, crashes) /\ Placed(rec)
    BY <2>1, <2>2 DEF Paid, Placed
  <2>6. Scored(rec) = Scored(run[r])
    BY <2>2 DEF Scored
  <2>7. Stored(rec, results[r], sum)
    BY <2>1, <2>2, <2>3, <2>6 DEF Stored, Placed
  <2>8. crashes' \in {crashes, crashes + 1} /\ crashes' <= MaxCrashes /\ Paid(rec, crashes')
    BY <2>1, <2>4, <2>5
  <2> QED BY <2>1, <2>2, <2>3, <2>4, <2>5, <2>7, <2>8, OneRun
<1> QED BY <1>1, <1>2

LEMMA FinishInv ==
  ASSUME Inv, NEW r \in Runs, Finish(r)
  PROVE  Inv'
<1>1. CASE run[r].row = "none"
  BY <1>1, RetryInv DEF Finish
<1>2. CASE run[r].row # "none"
  <2> DEFINE row == IF run[r].bad # {} /\ run[r].ok = {} THEN "failed" ELSE "completed"
             old == Forgetting(r, "acking")
             rec == [old EXCEPT !.row = row]
  <2>1. /\ run[r] \in RunRecord /\ crashes \in 0..MaxCrashes
        /\ Paid(run[r], crashes) /\ Stored(run[r], results[r], summary[r])
        /\ run[r].pc = "summarized"
    BY RunFacts DEF Finish
  <2>2. /\ old \in RunRecord /\ old.pc = "acking"
        /\ old.retries = run[r].retries /\ old.attempt = run[r].attempt
        /\ old.todo = {} /\ old.ok = {} /\ old.bad = {}
    BY ForgettingFields
  <2>3. run' = [run EXCEPT ![r] = rec] /\ UNCHANGED <<set, question, results, summary, crashes>>
    BY <1>2 DEF Finish
  <2>4. row \in {"failed", "completed"}
    OBVIOUS
  <2> HIDE DEF old, row
  <2>5. /\ rec \in RunRecord /\ rec.pc = "acking" /\ rec.row = row
        /\ rec.retries = run[r].retries /\ rec.attempt = run[r].attempt
        /\ rec.todo = {} /\ rec.ok = {} /\ rec.bad = {}
    BY <2>2, <2>4
  <2> HIDE DEF rec
  <2>6. Paid(rec, crashes) /\ Placed(rec)
    BY <2>1, <2>4, <2>5 DEF Paid, Placed
  <2>7. /\ results[r] = Scored(run[r]) /\ summary[r].attempt > 0
        /\ summary[r].ok = run[r].ok /\ summary[r].bad = run[r].bad
        /\ summary[r].attempt = run[r].attempt
    BY <1>2, <2>1 DEF Stored
  <2>8. results[r] = Scored(summary[r])
    BY <2>7 DEF Scored
  <2>9. Stored(rec, results[r], summary[r])
    BY <2>1, <2>5, <2>7, <2>8 DEF Stored
  <2>10. crashes' \in {crashes, crashes + 1} /\ crashes' <= MaxCrashes /\ Paid(rec, crashes')
    BY <2>1, <2>3, <2>6
  <2> QED BY <2>3, <2>5, <2>6, <2>9, <2>10, RunOnly
<1> QED BY <1>1, <1>2

LEMMA RunStepInv ==
  ASSUME Inv, NEW r \in Runs, RunStep(r)
  PROVE  Inv'
<1>0. run[r] \in RunRecord /\ Placed(run[r])
  BY RunFacts
<1>1. CASE TriggerCommit(r) \/ Send(r)
  BY <1>1, RequestInv
<1>2. CASE Begin(r) \/ MarkRunning(r) \/ Clear(r)
  BY <1>2, BeginInv, MarkRunningInv, ClearInv
<1>3. ASSUME NEW q \in Questions, Evaluate(r, q) PROVE Inv'
  BY <1>3, EvaluateInv
<1>4. CASE Summarize(r) \/ Finish(r)
  BY <1>4, SummarizeInv, FinishInv
<1>5. CASE TerminalFailure(r)
  BY <1>5, MoveRow DEF TerminalFailure, Updated
<1>6. CASE Ack(r)
  BY <1>0, <1>6, MovePc DEF Ack, Placed
<1> QED BY <1>1, <1>2, <1>3, <1>4, <1>5, <1>6 DEF RunStep

LEMMA RunFaultInv ==
  ASSUME Inv, NEW r \in Runs, RunFault(r)
  PROVE  Inv'
<1>1. CASE SendFails(r) \/ TriggerAborted(r)
  BY <1>1, RequestInv
<1>2. CASE TaskRaises(r)
  BY <1>2, RetryInv, GiveUpInv DEF TaskRaises
<1>3. CASE TerminalFailureFails(r)
  BY <1>3, MovePc DEF TerminalFailureFails
<1>4. CASE WorkerLost(r)
  BY <1>4, WorkerLostInv
<1> QED BY <1>1, <1>2, <1>3, <1>4 DEF RunFault

----------------------------------------------------------------------------
\* A new question is in no task's memory and in no summary.
LEMMA AddQuestionInv ==
  ASSUME Inv, NEW q \in Questions, AddQuestion(q)
  PROVE  Inv'
<1>1. /\ question[q] = "new" /\ question' = [question EXCEPT ![q] = "present"]
      /\ UNCHANGED <<set, run, results, summary, crashes>>
  BY DEF AddQuestion
<1>2. /\ question' \in [Questions -> {"new", "present", "deleted"}]
      /\ question'[q] = "present" /\ \A p \in Questions \ {q} : question'[p] = question[p]
  BY <1>1 DEF Inv, TypeOK
<1>3. TypeOK'
  BY <1>1, <1>2 DEF Inv, TypeOK
<1>4. Old \subseteq Old' /\ q \notin Old
  BY <1>1, <1>2 DEF Old
<1>5. ASSUME NEW r \in Runs PROVE Stored(run[r], results[r], summary[r])'
  <2>1. Stored(run[r], results[r], summary[r])
    BY RunFacts
  <2>2. \A s \in {run[r], summary[r]} :
          {p \in s.ok \cup s.bad : question'[p] = "present"}
            = {p \in s.ok \cup s.bad : question[p] = "present"}
    BY <1>2, <1>4, <2>1 DEF Stored, Old
  <2>3. Scored(run[r])' = Scored(run[r]) /\ Scored(summary[r])' = Scored(summary[r])
    BY <1>1, <2>2 DEF Scored
  <2> QED BY <1>1, <1>4, <2>1, <2>3 DEF Stored, Once
<1> QED BY <1>1, <1>3, <1>5 DEF Inv, Paid, Placed

\* The results of a deleted question go, and so do its marks in what is scored.
LEMMA DeleteQuestionInv ==
  ASSUME Inv, NEW q \in Questions, DeleteQuestion(q)
  PROVE  Inv'
<1>1. /\ question[q] = "present" /\ question' = [question EXCEPT ![q] = "deleted"]
      /\ results' = [r \in Runs |-> {x \in results[r] : x.question # q}]
      /\ UNCHANGED <<set, run, summary, crashes>>
  BY DEF DeleteQuestion
<1>2. /\ question' \in [Questions -> {"new", "present", "deleted"}]
      /\ question'[q] = "deleted" /\ \A p \in Questions \ {q} : question'[p] = question[p]
  BY <1>1 DEF Inv, TypeOK
<1>3. TypeOK'
  BY <1>1, <1>2 DEF Inv, TypeOK
<1>4. Old' = Old
  BY <1>1, <1>2 DEF Old
<1>5. ASSUME NEW r \in Runs PROVE Stored(run[r], results[r], summary[r])'
  <2> DEFINE res == {x \in results[r] : x.question # q}
  <2>1. Stored(run[r], results[r], summary[r]) /\ results'[r] = res
    BY <1>1, RunFacts
  <2>2. run[r].ok \cup run[r].bad \subseteq Questions
        /\ summary[r].ok \cup summary[r].bad \subseteq Questions
    BY DEF Inv, TypeOK
  <2>3. results[r] = Scored(run[r]) => res = Scored(run[r])'
    BY <1>1, <1>2, <2>2 DEF Scored
  <2>4. results[r] = Scored(summary[r]) => res = Scored(summary[r])'
    BY <1>1, <1>2, <2>2 DEF Scored
  <2>5. Once(results[r]) => Once(res)
    BY DEF Once
  <2> HIDE DEF res
  <2> QED BY <1>1, <1>4, <2>1, <2>3, <2>4, <2>5 DEF Stored, Once
<1> QED BY <1>1, <1>3, <1>5 DEF Inv, Paid, Placed

LEMMA DeleteSetInv ==
  ASSUME Inv, DeleteSet
  PROVE  Inv'
<1>1. /\ set' = FALSE /\ question' = [q \in Questions |-> "deleted"]
      /\ run' = [r \in Runs |-> [run[r] EXCEPT !.row = "none"]]
      /\ results' = [r \in Runs |-> {}] /\ summary' = [r \in Runs |-> NoSummary]
      /\ UNCHANGED crashes
  BY DEF DeleteSet
<1>2. ASSUME NEW r \in Runs
      PROVE  LET rec == [run[r] EXCEPT !.row = "none"]
             IN /\ run'[r] = rec /\ rec \in RunRecord /\ rec.row = "none"
                /\ rec.pc = run[r].pc /\ rec.retries = run[r].retries
                /\ rec.attempt = run[r].attempt
                /\ rec.todo = run[r].todo /\ rec.ok = run[r].ok /\ rec.bad = run[r].bad
  <2>1. run[r] \in RunRecord
    BY RunFacts
  <2> QED BY <1>1, <2>1
<1>3. run' \in [Runs -> RunRecord]
  BY <1>1, <1>2
<1>4. NoSummary \in Summary /\ NoSummary.ok = {} /\ NoSummary.bad = {}
  BY DEF NoSummary
<1>5. TypeOK'
  BY <1>1, <1>2, <1>3, <1>4 DEF Inv, TypeOK
<1>6. ASSUME NEW r \in Runs
      PROVE  Paid(run[r], crashes)' /\ Placed(run[r])' /\ Stored(run[r], results[r], summary[r])'
  <2>1. Paid(run[r], crashes) /\ Placed(run[r]) /\ Stored(run[r], results[r], summary[r])
        /\ run[r] \in RunRecord
    BY RunFacts
  <2>2. Paid(run[r], crashes)' /\ Placed(run[r])'
    BY <1>1, <1>2, <2>1 DEF Paid, Placed
  <2>3. Old' = Questions
    BY <1>1 DEF Old
  <2>4. Scored(run[r])' = {}
    BY <1>1, <1>2, <2>1 DEF Scored
  <2>5. results'[r] = {} /\ summary'[r] = NoSummary
    BY <1>1
  <2>6. /\ run'[r].row = "none" /\ run'[r].pc = run[r].pc
        /\ run'[r].attempt = run[r].attempt
        /\ run'[r].todo = run[r].todo /\ run'[r].ok = run[r].ok /\ run'[r].bad = run[r].bad
    BY <1>2
  <2>7. (run[r].todo \cup run[r].ok \cup run[r].bad \cup {}) \subseteq Old'
    BY <2>1, <2>3
  <2>8. Stored(run[r], results[r], summary[r])'
    BY <1>4, <2>1, <2>4, <2>5, <2>6, <2>7 DEF Stored, Once
  <2> QED BY <2>2, <2>8
<1> QED BY <1>5, <1>6 DEF Inv

LEMMA StutterInv ==
  ASSUME Inv, UNCHANGED vars
  PROVE  Inv'
BY DEF vars, Inv, TypeOK, Paid, Placed, Stored, Old, Scored, Once

\* The inductive invariant.
LEMMA SpecInv == Spec => []Inv
<1>1. ASSUME Inv, [Next]_vars PROVE Inv'
  BY <1>1, RequestInv, RunStepInv, RunFaultInv, AddQuestionInv, DeleteQuestionInv,
     DeleteSetInv, StutterInv DEF Next, UserStep
<1> QED BY InitInv, <1>1, PTL DEF Spec

----------------------------------------------------------------------------
\* The variables keep their types; in particular the attempts at a run are bounded,
\* each beyond the first by a retry or a worker loss.
THEOREM TypeCorrect == Spec => []TypeOK
<1>1. Inv => TypeOK
  BY DEF Inv
<1> QED BY <1>1, SpecInv, PTL

\* No number of retries, redeliveries and deletions leaves a run with two results
\* of one question.
THEOREM QuestionsOnce == Spec => []EachQuestionOnce
<1>1. Inv => EachQuestionOnce
  BY DEF Inv, Stored, Once, EachQuestionOnce
<1> QED BY <1>1, SpecInv, PTL

\* The summary and the results of a completed run come from one attempt and agree,
\* for any number of questions that come and go meanwhile.
THEOREM CompletedConsistent == Spec => []CompletedIsConsistent
<1>1. Inv => CompletedIsConsistent
  BY DEF Inv, Stored, Scored, CompletedIsConsistent, Consistent
<1> QED BY <1>1, SpecInv, PTL

\* Somebody has the task of an active run in hand, unless a process died before the
\* send or the terminal-failure handler failed.
THEOREM ActiveHasTask == Spec => []ActiveRunHasTask
<1>1. Inv => ActiveRunHasTask
  BY DEF Inv, TypeOK, Placed, ActiveRunHasTask
<1> QED BY <1>1, SpecInv, PTL

\* Retries and ends of a task change nothing of a run but what they write.
LEMMA TaskEnds ==
  ASSUME Inv, NEW x \in Runs, Retry(x) \/ GiveUp(x)
  PROVE  /\ \A r \in Runs \ {x} : run'[r] = run[r]
         /\ run'[x].row = run[x].row
<1>1. \A pc \in {"queued", "failing"} :
        /\ Forgetting(x, pc) \in RunRecord
        /\ Forgetting(x, pc).row = run[x].row
  BY ForgettingFields
<1>2. \E rec : run' = [run EXCEPT ![x] = rec] /\ rec.row = run[x].row
  <2>1. CASE GiveUp(x)
    BY <1>1, <2>1 DEF GiveUp
  <2>2. CASE Retry(x) /\ run[x].retries < MaxRetries
    <3> DEFINE old == Forgetting(x, "queued")
               rec == [old EXCEPT !.retries = old.retries + 1]
    <3>1. run' = [run EXCEPT ![x] = rec]
      BY <2>2 DEF Retry
    <3>2. old \in RunRecord /\ old.row = run[x].row
      BY <1>1
    <3> HIDE DEF old
    <3>3. rec.row = run[x].row
      BY <3>2
    <3> QED BY <3>1, <3>3
  <2>3. CASE Retry(x) /\ ~(run[x].retries < MaxRetries)
    BY <1>1, <2>3 DEF Retry
  <2> QED BY <2>1, <2>2, <2>3
<1>3. PICK rec : run' = [run EXCEPT ![x] = rec] /\ rec.row = run[x].row
  BY <1>2
<1> QED BY <1>3 DEF Inv, TypeOK

\* However late or often a task is delivered, a completed run is not executed again:
\* its summary stays, its results go by deletion only, and only the terminal-failure
\* handler changes its status.
THEOREM CompletedIsLeft == Spec => CompletedNeverReruns
<1> DEFINE Left(r) ==
      run[r].row = "completed" /\ set' =>
        /\ run'[r].row \in {"completed", "failed"}
        /\ summary'[r] = summary[r]
        /\ results'[r] \subseteq results[r]
<1>1. ASSUME Inv, [Next]_vars PROVE \A r \in Runs : Left(r)
  <2>0. SUFFICES ASSUME NEW r \in Runs, run[r].row = "completed", set'
                 PROVE  /\ run'[r].row \in {"completed", "failed"}
                        /\ summary'[r] = summary[r]
                        /\ results'[r] \subseteq results[r]
    OBVIOUS
  <2>1. /\ run \in [Runs -> RunRecord] /\ results \in [Runs -> SUBSET Result]
        /\ summary \in [Runs -> Summary]
        /\ run[r].pc \notin {"none", "creating", "unsent", "begun", "marked",
                             "evaluating", "summarized"}
    BY <1>1, <2>0 DEF Inv, TypeOK, Placed
  <2>2. ASSUME NEW x \in Runs, x # r,
               TriggerCheck(x) \/ TriggerBenchmark(x) \/ RunStep(x) \/ RunFault(x)
        PROVE  run'[r] = run[r] /\ summary'[r] = summary[r] /\ results'[r] = results[r]
    <3>1. CASE TriggerCheck(x) \/ TriggerBenchmark(x) \/ TriggerCommit(x) \/ Send(x)
               \/ SendFails(x) \/ TriggerAborted(x)
      BY <2>1, <2>2, <3>1 DEF TriggerCheck, TriggerBenchmark, TriggerCommit, Send, SendFails,
         TriggerAborted
    <3>2. CASE Begin(x)
      <4>1. GiveUp(x) \/ \E pc : run' = [run EXCEPT ![x].pc = pc]
        BY <3>2 DEF Begin
      <4> QED BY <1>1, <2>1, <2>2, <3>2, <4>1, TaskEnds DEF Begin
    <3>3. CASE MarkRunning(x) \/ Finish(x)
      <4>1. Retry(x) \/ \E rec : run' = [run EXCEPT ![x] = rec]
                     \/ run' = [run EXCEPT ![x].row = "running", ![x].pc = "marked"]
        BY <3>3 DEF MarkRunning, Finish
      <4> QED BY <1>1, <2>1, <2>2, <3>3, <4>1, TaskEnds DEF MarkRunning, Finish
    <3>4. CASE Clear(x)
      BY <1>1, <2>1, <2>2, <3>4, TaskEnds DEF Clear
    <3>5. ASSUME NEW q \in Questions, Evaluate(x, q)
          PROVE  run'[r] = run[r] /\ summary'[r] = summary[r] /\ results'[r] = results[r]
      BY <1>1, <2>1, <2>2, <3>5, TaskEnds DEF Evaluate
    <3>6. CASE Summarize(x)
      BY <1>1, <2>1, <2>2, <3>6, TaskEnds DEF Summarize
    <3>7. CASE TerminalFailure(x) \/ Ack(x) \/ TerminalFailureFails(x) \/ WorkerLost(x)
      BY <2>1, <2>2, <3>7 DEF TerminalFailure, Ack, TerminalFailureFails, WorkerLost
    <3>8. CASE TaskRaises(x)
      BY <1>1, <2>1, <2>2, <3>8, TaskEnds DEF TaskRaises
    <3> QED BY <2>2, <3>1, <3>2, <3>3, <3>4, <3>5, <3>6, <3>7, <3>8 DEF RunStep, RunFault
  <2>3. ASSUME TriggerCheck(r) \/ TriggerBenchmark(r) \/ RunStep(r) \/ RunFault(r)
        PROVE  /\ run'[r].row \in {"completed", "failed"}
               /\ summary'[r] = summary[r] /\ results'[r] = results[r]
    <3>1. \/ Begin(r) \/ Ack(r) \/ TerminalFailure(r) \/ TaskRaises(r)
          \/ TerminalFailureFails(r) \/ WorkerLost(r)
      BY <2>1, <2>3 DEF RunStep, RunFault, TriggerCheck, TriggerBenchmark, TriggerCommit, Send,
         SendFails, TriggerAborted, MarkRunning, Clear, Evaluate, Summarize, Finish
    <3>2. UNCHANGED <<results, summary>>
      BY <3>1 DEF Begin, Ack, TerminalFailure, TaskRaises, TerminalFailureFails, WorkerLost
    <3>3. run'[r].row \in {"completed", "failed"}
      <4>1. CASE Begin(r)
        <5>1. run' = [run EXCEPT ![r].pc = "acking"]
          BY <2>0, <4>1 DEF Begin
        <5> QED BY <2>0, <2>1, <5>1
      <4>2. CASE Ack(r) \/ TerminalFailure(r) \/ TerminalFailureFails(r)
        <5>1. \/ \E pc : run' = [run EXCEPT ![r].pc = pc]
              \/ \E pc : run' = [run EXCEPT ![r].row = "failed", ![r].pc = pc]
          BY <2>0, <4>2 DEF Ack, TerminalFailure, TerminalFailureFails, Updated
        <5> QED BY <2>0, <2>1, <5>1
      <4>3. CASE TaskRaises(r)
        BY <1>1, <2>0, <4>3, TaskEnds DEF TaskRaises
      <4>4. CASE WorkerLost(r)
        <5>1. Forgetting(r, "queued").row = run[r].row
          BY <1>1, ForgettingFields
        <5> QED BY <2>0, <2>1, <4>4, <5>1 DEF WorkerLost
      <4> QED BY <3>1, <4>1, <4>2, <4>3, <4>4
    <3> QED BY <3>2, <3>3
  <2>4. CASE UserStep
    <3>1. UNCHANGED <<run, summary>>
      BY <2>0, <2>4 DEF UserStep, AddQuestion, DeleteQuestion, DeleteSet
    <3>2. results'[r] \subseteq results[r]
      BY <2>0, <2>4 DEF UserStep, AddQuestion, DeleteQuestion, DeleteSet
    <3> QED BY <2>0, <3>1, <3>2
  <2>5. CASE UNCHANGED vars
    BY <2>0, <2>5 DEF vars
  <2>6. ASSUME NEW x \in Runs,
               TriggerCheck(x) \/ TriggerBenchmark(x) \/ RunStep(x) \/ RunFault(x)
        PROVE  /\ run'[r].row \in {"completed", "failed"}
               /\ summary'[r] = summary[r]
               /\ results'[r] \subseteq results[r]
    <3>1. CASE x = r
      BY <2>3, <2>6, <3>1
    <3>2. CASE x # r
      BY <2>0, <2>2, <2>6, <3>2
    <3> QED BY <3>1, <3>2
  <2> QED BY <1>1, <2>4, <2>5, <2>6 DEF Next
<1> QED BY <1>1, SpecInv, PTL DEF Spec, CompletedNeverReruns

----------------------------------------------------------------------------
(* The report.                                                             *)

\* By the invariant, completed runs are consistent: what a reader sees of a run
\* follows from its status and, once it is completed, its summary.
Seen(row, s) ==
  CASE row = "none" -> Report!Unpublished("none")
    [] row \in Active -> Report!Unpublished("pending")
    [] row = "failed" -> Report!Unpublished("failed")
    [] OTHER -> Report!Published(s.ok \cup s.bad, s.ok)

LEMMA ReportSeen ==
  ASSUME Inv, NEW r \in Runs
  PROVE  ReportOf(r) = Seen(run[r].row, summary[r])
<1>1. run[r].row \in RowStatus /\ (run[r].row = "completed" => Consistent(r))
  BY RunFacts DEF Stored, Scored, Consistent
<1>2. CASE run[r].row = "completed"
  BY <1>1, <1>2 DEF ReportOf, Seen, Report!Published
<1>3. CASE run[r].row # "completed"
  BY <1>1, <1>3 DEF ReportOf, Seen, Report!Unpublished
<1> QED BY <1>2, <1>3

LEMMA ReportSeenNext ==
  ASSUME Inv', NEW r \in Runs
  PROVE  ReportOf(r)' = Seen(run'[r].row, summary'[r])
<1>1. run'[r].row \in RowStatus /\ (run'[r].row = "completed" => Consistent(r)')
  BY DEF Inv, TypeOK, Stored, Scored, Consistent
<1>2. CASE run'[r].row = "completed"
  BY <1>1, <1>2 DEF ReportOf, Seen, Report!Published
<1>3. CASE run'[r].row # "completed"
  BY <1>1, <1>3 DEF ReportOf, Seen, Report!Unpublished
<1> QED BY <1>2, <1>3

\* A run whose status and, while it is completed, summary stay.
Unmoved(r) ==
  /\ run'[r].row = run[r].row
  /\ run[r].row = "completed" => summary'[r] = summary[r]

LEMMA UnmovedReport ==
  ASSUME Inv, Inv', NEW r \in Runs, Unmoved(r)
  PROVE  ReportOf(r)' = ReportOf(r)
<1>1. run[r].row \in RowStatus
  BY RunFacts
<1>2. Seen(run'[r].row, summary'[r]) = Seen(run[r].row, summary[r])
  BY <1>1 DEF Unmoved, Seen
<1> QED BY <1>2, ReportSeen, ReportSeenNext

ReportStep == [Report!Next]_<<set, [r \in Runs |-> ReportOf(r)]>>

LEMMA NoReportStep ==
  ASSUME Inv, Inv', UNCHANGED set, \A r \in Runs : Unmoved(r)
  PROVE  ReportStep
BY UnmovedReport DEF ReportStep

\* The run that a step moves, and what is to be shown of it.
LEMMA BecomesStep ==
  ASSUME Inv, Inv', UNCHANGED set, NEW r \in Runs,
         \A x \in Runs \ {r} : Unmoved(x),
         NEW phases, NEW new, ReportOf(r).phase \in phases, ReportOf(r)' = new
  PROVE  Report!Becomes(r, phases, new)
<1>1. \A x \in Runs \ {r} : ReportOf(x)' = ReportOf(x)
  BY UnmovedReport
<1>2. [x \in Runs |-> ReportOf(x)]' = [[x \in Runs |-> ReportOf(x)] EXCEPT ![r] = new]
  BY <1>1
<1> QED BY <1>2 DEF Report!Becomes

\* The moves of a status that a report has.
LEMMA RowMove ==
  ASSUME Inv, Inv', UNCHANGED set, NEW r \in Runs,
         \A x \in Runs \ {r} : Unmoved(x),
         \/ Unmoved(r)
         \/ set /\ run[r].row = "none" /\ run'[r].row = "queued"
         \/ run[r].row = "running" /\ run'[r].row = "completed"
            /\ (summary'[r].bad = {} \/ summary'[r].ok # {})
         \/ run[r].row \in {"queued", "running", "completed", "failed"}
            /\ run'[r].row = "failed"
         \/ run[r].row \in {"queued", "running", "failed"} /\ run'[r].row = "running"
  PROVE  ReportStep
<1> DEFINE old == Seen(run[r].row, summary[r])
           new == Seen(run'[r].row, summary'[r])
<1>0. /\ run[r].row \in RowStatus /\ run'[r].row \in RowStatus
      /\ summary'[r] \in Summary
      /\ ReportOf(r) = old /\ ReportOf(r)' = new
  BY ReportSeen, ReportSeenNext DEF Inv, TypeOK
<1>1. CASE Unmoved(r)
  BY <1>1, NoReportStep
<1>2. CASE set /\ run[r].row = "none" /\ run'[r].row = "queued"
  <2>1. old.phase \in {"none"} /\ new = Report!Unpublished("pending")
    BY <1>2 DEF Seen, Report!Unpublished
  <2>2. Report!Becomes(r, {"none"}, Report!Unpublished("pending"))
    BY <1>0, <2>1, BecomesStep
  <2> QED BY <1>2, <2>2 DEF ReportStep, Report!Next, Report!Request
<1>3. CASE run[r].row = "running" /\ run'[r].row = "completed"
           /\ (summary'[r].bad = {} \/ summary'[r].ok # {})
  <2> DEFINE asked == summary'[r].ok \cup summary'[r].bad
             ok == summary'[r].ok
  <2>1. /\ old.phase \in {"pending"} /\ new = Report!Published(asked, ok)
        /\ asked \in SUBSET Questions /\ ok \in SUBSET Questions
        /\ ok \subseteq asked /\ (asked = {} \/ ok # {})
    BY <1>0, <1>3 DEF Seen, Report!Unpublished
  <2>2. Report!Becomes(r, {"pending"}, Report!Published(asked, ok))
    BY <1>0, <2>1, BecomesStep
  <2>3. Report!Publish(r)
    BY <2>1, <2>2 DEF Report!Publish
  <2> QED BY <2>3 DEF ReportStep, Report!Next
<1>4. CASE run[r].row \in {"queued", "running", "completed", "failed"}
           /\ run'[r].row = "failed"
  <2>1. CASE run[r].row = "failed"
    BY <1>4, <2>1, NoReportStep DEF Unmoved
  <2>2. CASE run[r].row # "failed"
    <3>1. old.phase \in {"pending", "published"} /\ new = Report!Unpublished("failed")
      BY <1>4, <2>2 DEF Seen, Report!Unpublished, Report!Published
    <3>2. Report!Becomes(r, {"pending", "published"}, Report!Unpublished("failed"))
      BY <1>0, <3>1, BecomesStep
    <3> QED BY <3>2 DEF ReportStep, Report!Next, Report!Fail
  <2> QED BY <2>1, <2>2
<1>5. CASE run[r].row \in {"queued", "running", "failed"} /\ run'[r].row = "running"
  <2>1. CASE run[r].row # "failed"
    <3>1. old = new
      BY <1>5, <2>1 DEF Seen
    <3>2. \A x \in Runs : ReportOf(x)' = ReportOf(x)
      BY <1>0, <3>1, UnmovedReport
    <3> QED BY <3>2 DEF ReportStep
  <2>2. CASE run[r].row = "failed"
    <3>1. old.phase \in {"failed"} /\ new = Report!Unpublished("pending")
      BY <1>5, <2>2 DEF Seen, Report!Unpublished
    <3>2. Report!Becomes(r, {"failed"}, Report!Unpublished("pending"))
      BY <1>0, <3>1, BecomesStep
    <3> QED BY <3>2 DEF ReportStep, Report!Next, Report!TakeUp
  <2> QED BY <2>1, <2>2
<1> QED BY <1>1, <1>2, <1>3, <1>4, <1>5

\* A step of a run touches the row and the summary of no other.
LEMMA OthersUnmoved ==
  ASSUME Inv, NEW r \in Runs, NEW x \in Runs \ {r},
         TriggerCheck(r) \/ TriggerBenchmark(r) \/ RunStep(r) \/ RunFault(r)
  PROVE  Unmoved(x)
<1>1. run \in [Runs -> RunRecord] /\ summary \in [Runs -> Summary]
  BY DEF Inv, TypeOK
<1>2. Retry(r) \/ GiveUp(r) => run'[x] = run[x]
  BY TaskEnds
<1>3. CASE TriggerCheck(r) \/ TriggerBenchmark(r) \/ TriggerCommit(r) \/ Send(r)
           \/ SendFails(r) \/ TriggerAborted(r)
  BY <1>1, <1>3 DEF TriggerCheck, TriggerBenchmark, TriggerCommit, Send, SendFails,
     TriggerAborted, Unmoved
<1>4. CASE Begin(r) \/ MarkRunning(r) \/ Finish(r)
  <2>1. \/ Retry(r) \/ GiveUp(r)
        \/ \E rec : run' = [run EXCEPT ![r] = rec]
        \/ \E pc : run' = [run EXCEPT ![r].pc = pc]
        \/ run' = [run EXCEPT ![r].row = "running", ![r].pc = "marked"]
    BY <1>4 DEF Begin, MarkRunning, Finish
  <2>2. UNCHANGED summary
    BY <1>4 DEF Begin, MarkRunning, Finish
  <2> QED BY <1>1, <1>2, <2>1, <2>2 DEF Unmoved
<1>5. CASE Clear(r) \/ Summarize(r)
  BY <1>1, <1>2, <1>5 DEF Clear, Summarize, Unmoved
<1>6. ASSUME NEW q \in Questions, Evaluate(r, q) PROVE Unmoved(x)
  BY <1>1, <1>2, <1>6 DEF Evaluate, Unmoved
<1>7. CASE TerminalFailure(r) \/ Ack(r) \/ TerminalFailureFails(r) \/ WorkerLost(r)
  BY <1>1, <1>7 DEF TerminalFailure, Ack, TerminalFailureFails, WorkerLost, Unmoved
<1>8. CASE TaskRaises(r)
  BY <1>2, <1>8 DEF TaskRaises, Unmoved
<1> QED BY <1>3, <1>4, <1>5, <1>6, <1>7, <1>8 DEF RunStep, RunFault

\* The steps that write no status, or one that is already there.
LEMMA RowKept ==
  ASSUME Inv, NEW r \in Runs,
         \/ TriggerCheck(r) \/ TriggerBenchmark(r) \/ Send(r) \/ TriggerAborted(r)
         \/ Begin(r) \/ Clear(r) \/ (\E q \in Questions : Evaluate(r, q)) \/ Summarize(r)
         \/ Ack(r) \/ TaskRaises(r) \/ TerminalFailureFails(r) \/ WorkerLost(r)
  PROVE  Unmoved(r) /\ UNCHANGED set
<1>1. /\ run \in [Runs -> RunRecord] /\ summary \in [Runs -> Summary]
      /\ Placed(run[r])
  BY DEF Inv, TypeOK
<1>2. Retry(r) \/ GiveUp(r) => run'[r].row = run[r].row
  BY TaskEnds
<1>3. CASE TriggerCheck(r) \/ TriggerBenchmark(r) \/ Send(r) \/ TriggerAborted(r)
           \/ Ack(r) \/ TerminalFailureFails(r)
  BY <1>1, <1>3 DEF TriggerCheck, TriggerBenchmark, Send, TriggerAborted, Ack,
     TerminalFailureFails, Unmoved
<1>4. CASE Begin(r)
  <2>1. GiveUp(r) \/ \E pc : run' = [run EXCEPT ![r].pc = pc]
    BY <1>4 DEF Begin
  <2> QED BY <1>1, <1>2, <1>4, <2>1 DEF Begin, Unmoved
<1>5. CASE Clear(r)
  BY <1>1, <1>2, <1>5 DEF Clear, Unmoved
<1>6. ASSUME NEW q \in Questions, Evaluate(r, q) PROVE Unmoved(r) /\ UNCHANGED set
  <2>1. CASE question[q] # "present"
    BY <1>2, <1>6, <2>1 DEF Evaluate, Unmoved
  <2>2. CASE question[q] = "present"
    <3>1. PICK good \in BOOLEAN :
            run' = [run EXCEPT ![r].todo = @ \ {q},
                               ![r].ok = IF good THEN @ \cup {q} ELSE @,
                               ![r].bad = IF good THEN @ ELSE @ \cup {q}]
      BY <1>6, <2>2 DEF Evaluate
    <3> DEFINE rec == [run[r] EXCEPT !.todo = @ \ {q},
                                     !.ok = IF good THEN @ \cup {q} ELSE @,
                                     !.bad = IF good THEN @ ELSE @ \cup {q}]
    <3>2. run' = [run EXCEPT ![r] = rec]
      BY <1>1, <3>1
    <3>3. rec.row = run[r].row
      BY <1>1 DEF RunRecord
    <3> HIDE DEF rec
    <3>4. run'[r].row = run[r].row
      BY <1>1, <3>2, <3>3
    <3> QED BY <1>6, <3>4 DEF Evaluate, Unmoved
  <2> QED BY <2>1, <2>2
<1>7. CASE Summarize(r)
  BY <1>1, <1>2, <1>7 DEF Summarize, Placed, Unmoved
<1>8. CASE TaskRaises(r)
  BY <1>2, <1>8 DEF TaskRaises, Unmoved
<1>9. CASE WorkerLost(r)
  <2>1. Forgetting(r, "queued").row = run[r].row
    BY ForgettingFields
  <2> QED BY <1>1, <1>9, <2>1 DEF WorkerLost, Unmoved
<1> QED BY <1>3, <1>4, <1>5, <1>6, <1>7, <1>8, <1>9

\* The end of a run: its summary is what it has in memory.
LEMMA FinishReport ==
  ASSUME Inv, Inv', NEW r \in Runs, Finish(r)
  PROVE  ReportStep
<1>0. /\ run[r] \in RunRecord /\ run \in [Runs -> RunRecord]
      /\ Placed(run[r]) /\ Stored(run[r], results[r], summary[r])
      /\ run[r].pc = "summarized"
  BY RunFacts DEF Inv, TypeOK, Finish
<1>1. \A x \in Runs \ {r} : Unmoved(x)
  BY OthersUnmoved DEF RunStep
<1>2. UNCHANGED <<set, summary>>
  BY DEF Finish
<1>3. CASE run[r].row = "none"
  <2>1. Unmoved(r)
    BY <1>2, <1>3, TaskEnds DEF Finish, Unmoved
  <2> QED BY <1>1, <1>2, <2>1, RowMove
<1>4. CASE run[r].row # "none"
  <2> DEFINE row == IF run[r].bad # {} /\ run[r].ok = {} THEN "failed" ELSE "completed"
             old == Forgetting(r, "acking")
  <2>1. run[r].row = "running" /\ summary[r].ok = run[r].ok /\ summary[r].bad = run[r].bad
    BY <1>0, <1>4 DEF Placed, Stored
  <2>2. run' = [run EXCEPT ![r] = [old EXCEPT !.row = row]]
    BY <1>4 DEF Finish
  <2>3. old \in RunRecord
    BY ForgettingFields
  <2> HIDE DEF old
  <2>4. run'[r].row = row
    BY <1>0, <2>2, <2>3
  <2> QED BY <1>1, <1>2, <2>1, <2>4, RowMove
<1> QED BY <1>3, <1>4

\* The other steps that write a status.
LEMMA StatusReport ==
  ASSUME Inv, Inv', NEW r \in Runs,
         TriggerCommit(r) \/ SendFails(r) \/ MarkRunning(r) \/ TerminalFailure(r)
  PROVE  ReportStep
<1>0. /\ run[r].row \in RowStatus /\ run \in [Runs -> RunRecord] /\ Placed(run[r])
  BY RunFacts DEF Inv, TypeOK
<1>1. (\A x \in Runs \ {r} : Unmoved(x)) /\ UNCHANGED <<set, summary>>
  BY OthersUnmoved
     DEF RunStep, RunFault, TriggerCommit, SendFails, MarkRunning, TerminalFailure
<1>2. CASE TriggerCommit(r)
  <2>1. run[r].row = "none" /\ run'[r].row = IF set THEN "queued" ELSE "none"
    BY <1>0, <1>2 DEF TriggerCommit, Placed
  <2> QED BY <1>1, <2>1, RowMove DEF Unmoved
<1>3. CASE SendFails(r) \/ TerminalFailure(r)
  <2>1. run'[r].row = Updated(r, "failed")
    BY <1>0, <1>3 DEF SendFails, TerminalFailure
  <2> QED BY <1>0, <1>1, <2>1, RowMove DEF Updated, Unmoved
<1>4. CASE MarkRunning(r) /\ run[r].row = "none"
  <2>1. Unmoved(r)
    BY <1>1, <1>4, TaskEnds DEF MarkRunning, Unmoved
  <2> QED BY <1>1, <2>1, RowMove
<1>5. CASE MarkRunning(r) /\ run[r].row # "none"
  <2>1. run'[r].row = "running" /\ run[r].row \in {"queued", "running", "failed"}
    BY <1>0, <1>5 DEF MarkRunning, Placed
  <2> QED BY <1>1, <2>1, RowMove
<1> QED BY <1>2, <1>3, <1>4, <1>5

LEMMA UserReport ==
  ASSUME Inv, Inv', UserStep
  PROVE  ReportStep
<1>1. CASE \E q \in Questions : AddQuestion(q) \/ DeleteQuestion(q)
  BY <1>1, NoReportStep DEF AddQuestion, DeleteQuestion, Unmoved
<1>2. CASE DeleteSet
  <2>1. \A r \in Runs : ReportOf(r)' = Report!Unpublished("none")
    <3> SUFFICES ASSUME NEW r \in Runs PROVE ReportOf(r)' = Report!Unpublished("none")
      OBVIOUS
    <3>1. run'[r].row = "none"
      BY <1>2, RunFacts DEF DeleteSet
    <3> QED BY <3>1, ReportSeenNext DEF Seen
  <2>2. [r \in Runs |-> ReportOf(r)]' = [r \in Runs |-> Report!Unpublished("none")]
    BY <2>1
  <2>3. set /\ set' = FALSE
    BY <1>2 DEF DeleteSet
  <2> QED BY <2>2, <2>3 DEF ReportStep, Report!Next, Report!Close
<1> QED BY <1>1, <1>2 DEF UserStep

LEMMA ReportInit == Init => Report!Init
<1> SUFFICES ASSUME Init PROVE Report!Init
  OBVIOUS
<1>1. \A r \in Runs : ReportOf(r) = Report!Unpublished("none")
  BY DEF Init, NoRun, ReportOf, Report!Unpublished
<1> QED BY <1>1 DEF Init, Report!Init

\* To a reader, an evaluation run goes from pending to a complete report in one
\* step, whatever attempts are lost, repeated or overtaken by edits of the set, and
\* a published report stays as it is until it is withdrawn.
THEOREM ImplementsReportHolds == Spec => ImplementsReport
<1>1. Inv /\ Inv' /\ [Next]_vars => ReportStep
  <2> SUFFICES ASSUME Inv, Inv', [Next]_vars PROVE ReportStep
    OBVIOUS
  <2>1. ASSUME NEW r \in Runs,
               TriggerCheck(r) \/ TriggerBenchmark(r) \/ RunStep(r) \/ RunFault(r)
        PROVE  ReportStep
    <3>1. \A x \in Runs \ {r} : Unmoved(x)
      BY <2>1, OthersUnmoved
    <3>2. CASE TriggerCommit(r) \/ SendFails(r) \/ MarkRunning(r) \/ TerminalFailure(r)
      BY <3>2, StatusReport
    <3>3. CASE Finish(r)
      BY <3>3, FinishReport
    <3>4. CASE ~(TriggerCommit(r) \/ SendFails(r) \/ MarkRunning(r) \/ TerminalFailure(r)
                 \/ Finish(r))
      <4>1. Unmoved(r) /\ UNCHANGED set
        BY <2>1, <3>4, RowKept DEF RunStep, RunFault
      <4> QED BY <3>1, <4>1, NoReportStep
    <3> QED BY <3>2, <3>3, <3>4
  <2>2. CASE UNCHANGED vars
    BY <2>2, NoReportStep DEF vars, Unmoved
  <2> QED BY <2>1, <2>2, UserReport DEF Next
<1> QED BY <1>1, ReportInit, SpecInv, PTL DEF Spec, ImplementsReport, Report!Spec, ReportStep
=============================================================================
