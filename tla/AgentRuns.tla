------------------------------ MODULE AgentRuns ------------------------------
(***************************************************************************)
(* An agent run and its approvals.  The runtime executes a run in one      *)
(* transaction, to its end or to a tool that needs an approval; owners     *)
(* then decide approvals, ask for further ones and cancel the run, and a   *)
(* scheduled task expires approvals and fails the runs they leave waiting. *)
(* A request loads the run and the approval, decides on what it loaded,    *)
(* and writes the columns that it changes by primary key: other requests   *)
(* and the scheduled task may commit in between.                           *)
(*                                                                         *)
(* Steps, tool calls, budgets and comments are left out.  Nothing resumes  *)
(* a run that is set back to running.                                      *)
(***************************************************************************)
EXTENDS Naturals

CONSTANTS
  Clients,      \* requests that may be served at the same time
  MaxApprovals  \* bound: approvals the run ever has

ASSUME AgentAssumption == MaxApprovals \in Nat \ {0}

VARIABLES
  run,       \* the status of the run, "none" before it is committed
  approval,  \* its approvals, in the order of their creation
  request    \* what each request has loaded

vars == <<run, approval, request>>

Approvals == 1..MaxApprovals

\* queued and planning are never committed.
RunStatus == {"none", "running", "waiting_approval", "completed", "failed", "cancelled"}
Terminal == {"completed", "failed", "cancelled"}
ApprovalStatus == {"none", "pending", "changes_requested", "approved", "rejected", "expired"}
Actionable == {"pending", "changes_requested"}
Decisions == {"approved", "rejected", "changes_requested"}
Final == {"approved", "rejected", "expired"}

Approval == [status: ApprovalStatus, expires: {"never", "later", "past"}]
NoApproval == [status |-> "none", expires |-> "never"]

\* run and status are the statuses as the request loaded them, on the run and on
\* the approval it is to decide.
Request ==
  [pc: {"idle", "cancel", "decide", "ask"},
   run: RunStatus, approval: 0..MaxApprovals, status: ApprovalStatus]
Idle == [pc |-> "idle", run |-> "none", approval |-> 0, status |-> "none"]

TypeOK ==
  /\ run \in RunStatus
  /\ approval \in [Approvals -> Approval]
  /\ request \in [Clients -> Request]
  /\ run = "none" => \A a \in Approvals : approval[a] = NoApproval

Init ==
  /\ run = "none"
  /\ approval = [a \in Approvals |-> NoApproval]
  /\ request = [c \in Clients |-> Idle]

----------------------------------------------------------------------------
(* The runtime.                                                            *)

\* The request that creates the run executes it and commits: completed, failed,
\* or waiting for the approval of a tool, which has no deadline.  The executor
\* looks for an approval the request names under the new run, finds none, and the
\* run fails.
Execute ==
  /\ run = "none"
  /\ run' \in {"completed", "failed", "waiting_approval"}
  /\ approval' = IF run' = "waiting_approval"
                   THEN [approval EXCEPT ![1].status = "pending"]
                   ELSE approval
  /\ UNCHANGED request

----------------------------------------------------------------------------
(* The requests: what they load and check, and what they write and commit. *)

Load(c, pc, a) ==
  /\ request[c].pc = "idle" /\ run # "none"
  /\ request' = [request EXCEPT
                   ![c] = [pc |-> pc, run |-> run, approval |-> a,
                           status |-> IF a = 0 THEN "none" ELSE approval[a].status]]
  /\ UNCHANGED <<run, approval>>

Answered(c) == request' = [request EXCEPT ![c] = Idle]

LoadCancel(c) == run \notin Terminal /\ Load(c, "cancel", 0)

Cancel(c) ==
  /\ request[c].pc = "cancel"
  /\ run' = "cancelled"
  /\ Answered(c)
  /\ UNCHANGED approval

\* Mutant: an approval that has been decided can be decided again.
LoadDecideAny(c, a) ==
  /\ approval[a].status # "none"
  /\ Load(c, "decide", a)

\* A pending approval past its deadline is refused; the request marks it expired
\* but the refusal rolls that back.
LoadDecide(c, a) ==
  /\ approval[a].status \in Actionable
  /\ ~(approval[a].status = "pending" /\ approval[a].expires = "past")
  /\ Load(c, "decide", a)

\* The ORM does not write a status that equals the one it loaded.
DecideApproval(c, verdict) ==
  LET a == request[c].approval
  IN approval' = IF verdict = request[c].status
                   THEN approval
                   ELSE [approval EXCEPT ![a].status = verdict]

\* Mutant: a rejection leaves the run as it is.
DecideOnlyApproved(c, verdict) ==
  /\ request[c].pc = "decide"
  /\ DecideApproval(c, verdict)
  /\ run' = IF request[c].run = "waiting_approval" /\ verdict = "approved"
              THEN "running" ELSE run
  /\ Answered(c)

Decide(c, verdict) ==
  /\ request[c].pc = "decide"
  /\ DecideApproval(c, verdict)
  /\ run' = IF request[c].run = "waiting_approval"
              THEN CASE verdict = "approved" -> "running"
                     [] verdict = "rejected" -> "failed"
                     [] verdict = "changes_requested" -> run
              ELSE run
  /\ Answered(c)

LoadAsk(c) == run \in {"running", "waiting_approval"} /\ Load(c, "ask", 0)

\* A further approval, with or without a deadline, and a run that waits.
Ask(c) ==
  /\ request[c].pc = "ask"
  /\ \E a \in Approvals, expires \in {"never", "later"} :
       /\ approval[a].status = "none"
       /\ \A b \in Approvals : b < a => approval[b].status # "none"
       /\ approval' = [approval EXCEPT ![a] = [status |-> "pending", expires |-> expires]]
  /\ run' = IF request[c].run = "waiting_approval" THEN run ELSE "waiting_approval"
  /\ Answered(c)

\* The process dies or the request raises, and its transaction is rolled back.
Abort(c) ==
  /\ request[c].pc # "idle"
  /\ Answered(c)
  /\ UNCHANGED <<run, approval>>

----------------------------------------------------------------------------
(* Time and the scheduled task.                                            *)

DeadlinePasses(a) ==
  /\ approval[a].expires = "later"
  /\ approval' = [approval EXCEPT ![a].expires = "past"]
  /\ UNCHANGED <<run, request>>

Expired(a) ==
  IF approval[a].status = "pending" /\ approval[a].expires = "past"
    THEN [approval[a] EXCEPT !.status = "expired"]
    ELSE approval[a]

\* Mutant: approvals expire and their runs are left alone.
ExpireApprovalsOnly ==
  /\ approval' = [a \in Approvals |-> Expired(a)]
  /\ UNCHANGED <<run, request>>

\* Mutant: the run gets the status of its approvals.
ExpireRun ==
  /\ approval' = [a \in Approvals |-> Expired(a)]
  /\ run' = IF run = "waiting_approval" /\ \A a \in Approvals : approval'[a].status # "pending"
              THEN "expired" ELSE run
  /\ UNCHANGED request

\* Both statements of the task, in one transaction: it expires approvals and fails
\* a waiting run none of whose approvals is pending.
ExpireAgentApprovals ==
  /\ approval' = [a \in Approvals |-> Expired(a)]
  /\ run' = IF run = "waiting_approval" /\ \A a \in Approvals : approval'[a].status # "pending"
              THEN "failed" ELSE run
  /\ UNCHANGED request

----------------------------------------------------------------------------
RequestStep(c) ==
  \/ LoadCancel(c) \/ Cancel(c)
  \/ \E a \in Approvals : LoadDecide(c, a)
  \/ \E verdict \in Decisions : Decide(c, verdict)
  \/ LoadAsk(c) \/ Ask(c)
  \/ Abort(c)

Next ==
  \/ Execute
  \/ \E c \in Clients : RequestStep(c)
  \/ \E a \in Approvals : DeadlinePasses(a)
  \/ ExpireAgentApprovals

Spec == Init /\ [][Next]_vars

\* Time passes and, where a Celery beat runs, the task comes every minute.
FairSpec ==
  /\ Spec
  /\ WF_vars(ExpireAgentApprovals)
  /\ \A a \in Approvals : WF_vars(DeadlinePasses(a))

----------------------------------------------------------------------------
(* Properties.                                                             *)

\* However decisions, cancellations and further approvals overlap, a run that waits
\* has an approval that can still be decided, unless one has expired meanwhile: a
\* decision loaded before the run waited again does not move it.
WaitingIsAnswerable ==
  run = "waiting_approval" =>
    \E a \in Approvals : approval[a].status \in Actionable \cup {"expired"}

\* A run that has ended and an approval that was decided are changed again only by
\* a request that loaded them before that: never by a later request, nor by the
\* scheduled task.
OnlyStaleRequestsUndo ==
  [][/\ run \in Terminal /\ run' # run =>
          \E c \in Clients : request[c].pc # "idle" /\ request[c].run \notin Terminal
     /\ \A a \in Approvals :
          approval[a].status \in Final /\ approval'[a].status # approval[a].status =>
            \E c \in Clients : request[c].approval = a /\ request[c].status \in Actionable]_vars

\* Deadlines are met without anybody's help: a waiting run all of whose pending
\* approvals have one does not wait for ever.
WaitingEnds ==
  LET HasDeadlines ==
        \A a \in Approvals : approval[a].status = "pending" => approval[a].expires # "never"
  IN run = "waiting_approval" /\ HasDeadlines ~> ~(run = "waiting_approval" /\ HasDeadlines)

\* The scheduled task fails a run only once every approval has been decided or has
\* expired: one for which changes were requested keeps the run waiting.
ChangesRequestedWaits ==
  [][run = "waiting_approval" /\ run' = "failed" =>
       \/ \E a \in Approvals : approval'[a].status = "rejected"
       \/ \A a \in Approvals : approval'[a].status \notin Actionable]_vars
=============================================================================
