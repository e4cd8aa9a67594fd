-------------------------- MODULE EvaluationReport --------------------------
(***************************************************************************)
(* What an evaluation run promises to those who read it, without tasks,    *)
(* attempts or transactions: a report appears at once and complete, does   *)
(* not change while it is published, and says nothing was asked or that    *)
(* something was answered.  It may be withdrawn as failed, and a failed    *)
(* run may be taken up again; all go with their set.                       *)
(***************************************************************************)
CONSTANTS Runs, Questions

VARIABLES
  open,  \* the evaluation set exists
  report \* for each run, what a reader of its row, summary and results sees

Unpublished(phase) == [phase |-> phase, asked |-> {}, ok |-> {}]

Published(asked, ok) == [phase |-> "published", asked |-> asked, ok |-> ok]

Init ==
  /\ open = TRUE
  /\ report = [r \in Runs |-> Unpublished("none")]

Becomes(r, phases, new) ==
  /\ report[r].phase \in phases
  /\ report' = [report EXCEPT ![r] = new]
  /\ UNCHANGED open

Request(r) == open /\ Becomes(r, {"none"}, Unpublished("pending"))

Publish(r) ==
  \E asked, ok \in SUBSET Questions :
    /\ ok \subseteq asked /\ (asked = {} \/ ok # {})
    /\ Becomes(r, {"pending"}, Published(asked, ok))

Fail(r) == Becomes(r, {"pending", "published"}, Unpublished("failed"))

TakeUp(r) == Becomes(r, {"failed"}, Unpublished("pending"))

Close ==
  /\ open
  /\ open' = FALSE
  /\ report' = [r \in Runs |-> Unpublished("none")]

Next ==
  \/ \E r \in Runs : Request(r) \/ Publish(r) \/ Fail(r) \/ TakeUp(r)
  \/ Close

Spec == Init /\ [][Next]_<<open, report>>
=============================================================================
