--------------------------- MODULE AgentRunsProofs ---------------------------
(***************************************************************************)
(* What holds of an agent run for any number of concurrent requests and of *)
(* approvals.  What a request writes depends on what it loaded, so the      *)
(* invariant says what the requests in flight have loaded: a run and an     *)
(* approval that their endpoints accept, and, of the approval a waiting run *)
(* was last asked for, a run that waits already.                           *)
(***************************************************************************)
EXTENDS AgentRuns, TLAPS

Loaded ==
  \A c \in Clients :
    /\ request[c].pc # "idle" => run # "none"
    /\ request[c].pc \in {"cancel", "ask"} => request[c].run \notin Terminal
    /\ request[c].pc = "decide" =>
         /\ request[c].approval \in Approvals
         /\ request[c].status \in Actionable
         /\ approval[request[c].approval].status # "none"

\* Of approval a, every decision in flight loaded a run that waits, and moves it.
Awaited(a) ==
  /\ approval[a].status \in Actionable \cup {"expired"}
  /\ \A c \in Clients :
       request[c].pc = "decide" /\ request[c].approval = a =>
         request[c].run = "waiting_approval"

Witnessed == run = "waiting_approval" => \E a \in Approvals : Awaited(a)

Inv == TypeOK /\ Loaded /\ Witnessed

USE AgentAssumption
    DEF Approvals, RunStatus, Terminal, ApprovalStatus, Actionable, Decisions, Approval,
        Request, NoApproval, Idle

LEMMA InitInv == Init => Inv
<1> SUFFICES ASSUME Init PROVE Inv
  OBVIOUS
<1>1. NoApproval \in Approval /\ Idle \in Request
  OBVIOUS
<1>2. TypeOK
  BY <1>1 DEF Init, TypeOK
<1>3. Loaded /\ Witnessed
  BY DEF Init, Loaded, Witnessed
<1> QED BY <1>2, <1>3 DEF Inv

\* A request that ends.
LEMMA AnsweredStep ==
  ASSUME Inv, NEW c \in Clients, Answered(c)
  PROVE  /\ request' \in [Clients -> Request]
         /\ request'[c].pc = "idle"
         /\ \A d \in Clients \ {c} : request'[d] = request[d]
<1>1. Idle \in Request /\ Idle.pc = "idle"
  OBVIOUS
<1>2. request' = [request EXCEPT ![c] = Idle]
  BY DEF Answered
<1> HIDE DEF Idle
<1> QED BY <1>1, <1>2 DEF Inv, TypeOK

\* A request that loads an approval, or none.
LEMMA LoadInv ==
  ASSUME Inv, NEW c \in Clients, NEW pc \in {"cancel", "decide", "ask"},
         NEW a \in 0..MaxApprovals, Load(c, pc, a),
         pc # "decide" => run \notin Terminal /\ a = 0,
         pc = "decide" => a \in Approvals /\ approval[a].status \in Actionable
  PROVE  Inv'
<1> DEFINE rec == [pc |-> pc, run |-> run, approval |-> a,
                   status |-> IF a = 0 THEN "none" ELSE approval[a].status]
<1>1. rec \in Request /\ rec.pc = pc /\ rec.run = run /\ rec.approval = a
      /\ (pc = "decide" => rec.status \in Actionable)
  <2>1. (IF a = 0 THEN "none" ELSE approval[a].status) \in ApprovalStatus
    BY DEF Inv, TypeOK
  <2> QED BY <2>1 DEF Inv, TypeOK
<1>2. request' = [request EXCEPT ![c] = rec] /\ run # "none" /\ UNCHANGED <<run, approval>>
  BY DEF Load
<1> HIDE DEF rec
<1>3. /\ request' \in [Clients -> Request] /\ request'[c] = rec
      /\ \A d \in Clients \ {c} : request'[d] = request[d]
  BY <1>1, <1>2 DEF Inv, TypeOK
<1>4. TypeOK'
  BY <1>2, <1>3 DEF Inv, TypeOK
<1>5. Loaded'
  BY <1>1, <1>2, <1>3 DEF Inv, Loaded
<1>6. Witnessed'
  <2> SUFFICES ASSUME run = "waiting_approval"
               PROVE  \E b \in Approvals : Awaited(b)'
    BY <1>2 DEF Witnessed
  <2>1. PICK b \in Approvals : Awaited(b)
    BY DEF Inv, Witnessed
  <2>2. Awaited(b)'
    BY <2>1, <1>1, <1>2, <1>3 DEF Awaited
  <2> QED BY <2>2
<1> QED BY <1>4, <1>5, <1>6 DEF Inv

LEMMA ExecuteInv ==
  ASSUME Inv, Execute
  PROVE  Inv'
<1> DEFINE rec == [approval[1] EXCEPT !.status = "pending"]
<1>0. /\ 1 \in Approvals /\ run = "none" /\ UNCHANGED request
      /\ run' \in {"completed", "failed", "waiting_approval"}
      /\ \A c \in Clients : request[c].pc = "idle"
  BY DEF Execute, Inv, Loaded
<1>1. rec \in Approval /\ rec.status = "pending"
  BY <1>0 DEF Inv, TypeOK
<1>2. approval' = IF run' = "waiting_approval" THEN [approval EXCEPT ![1] = rec] ELSE approval
  BY DEF Execute, Inv, TypeOK
<1> HIDE DEF rec
<1>3. approval' \in [Approvals -> Approval]
  BY <1>0, <1>1, <1>2 DEF Inv, TypeOK
<1>4. TypeOK'
  BY <1>0, <1>3 DEF Inv, TypeOK
<1>5. Loaded'
  BY <1>0 DEF Loaded
<1>6. Witnessed'
  <2>1. run' = "waiting_approval" => Awaited(1)'
    BY <1>0, <1>1, <1>2 DEF Awaited, Inv, TypeOK
  <2> QED BY <1>0, <2>1 DEF Witnessed
<1> QED BY <1>4, <1>5, <1>6 DEF Inv

\* A request that ends and leaves every approval as it was, and moves the run, if at
\* all, out of waiting.
LEMMA QuietStep ==
  ASSUME Inv, NEW c \in Clients, Answered(c), UNCHANGED approval,
         run' \in RunStatus \ {"none"},
         run' = "waiting_approval" => run = "waiting_approval"
  PROVE  Inv'
<1>1. /\ request' \in [Clients -> Request] /\ request'[c].pc = "idle"
      /\ \A d \in Clients \ {c} : request'[d] = request[d]
  BY AnsweredStep
<1>2. TypeOK'
  BY <1>1 DEF Inv, TypeOK
<1>3. Loaded'
  BY <1>1 DEF Inv, Loaded
<1>4. Witnessed'
  <2> SUFFICES ASSUME run' = "waiting_approval"
               PROVE  \E b \in Approvals : Awaited(b)'
    BY DEF Witnessed
  <2>1. PICK b \in Approvals : Awaited(b)
    BY DEF Inv, Witnessed
  <2>2. Awaited(b)'
    BY <2>1, <1>1 DEF Awaited
  <2> QED BY <2>2
<1> QED BY <1>2, <1>3, <1>4 DEF Inv

\* What a decision writes.
LEMMA DecideStep ==
  ASSUME Inv, NEW c \in Clients, NEW verdict \in Decisions, Decide(c, verdict)
  PROVE  LET a == request[c].approval
         IN  /\ a \in Approvals /\ request[c].pc = "decide" /\ request[c].status \in Actionable
             /\ approval' \in [Approvals -> Approval]
             /\ \A b \in Approvals \ {a} : approval'[b] = approval[b]
             /\ approval'[a].status \in {approval[a].status, verdict}
             /\ verdict = "changes_requested" =>
                  approval'[a].status \in {approval[a].status, "changes_requested"}
             /\ run' \in RunStatus \ {"none"}
             /\ run' # run => request[c].run = "waiting_approval"
             /\ run' \in {run, "running", "failed"}
             /\ request[c].run = "waiting_approval" /\ verdict # "changes_requested"
                  => run' \in {"running", "failed"}
<1> DEFINE a == request[c].approval
           rec == [approval[a] EXCEPT !.status = verdict]
<1>1. a \in Approvals /\ request[c].pc = "decide" /\ request[c].status \in Actionable
      /\ run # "none"
  BY DEF Inv, Loaded, Decide
<1>2. rec \in Approval /\ rec.status = verdict
  BY <1>1 DEF Inv, TypeOK
<1>3. approval' = IF verdict = request[c].status THEN approval
                                                 ELSE [approval EXCEPT ![a] = rec]
  BY <1>1 DEF Decide, DecideApproval, Inv, TypeOK
<1> HIDE DEF rec
<1>4. /\ approval' \in [Approvals -> Approval]
      /\ \A b \in Approvals \ {a} : approval'[b] = approval[b]
      /\ approval'[a].status \in {approval[a].status, verdict}
  BY <1>1, <1>2, <1>3 DEF Inv, TypeOK
<1>5. run' = IF request[c].run = "waiting_approval"
               THEN CASE verdict = "approved" -> "running"
                      [] verdict = "rejected" -> "failed"
                      [] verdict = "changes_requested" -> run
               ELSE run
  BY DEF Decide
<1>6. /\ run' \in RunStatus \ {"none"}
      /\ run' # run => request[c].run = "waiting_approval"
      /\ run' \in {run, "running", "failed"}
      /\ request[c].run = "waiting_approval" /\ verdict # "changes_requested"
           => run' \in {"running", "failed"}
  <2>1. CASE request[c].run # "waiting_approval"
    BY <2>1, <1>1, <1>5 DEF Inv, TypeOK
  <2>2. CASE request[c].run = "waiting_approval" /\ verdict = "approved"
    BY <2>2, <1>5
  <2>3. CASE request[c].run = "waiting_approval" /\ verdict = "rejected"
    BY <2>3, <1>5
  <2>4. CASE request[c].run = "waiting_approval" /\ verdict = "changes_requested"
    BY <2>4, <1>1, <1>5 DEF Inv, TypeOK
  <2> QED BY <2>1, <2>2, <2>3, <2>4
<1> QED BY <1>1, <1>4, <1>6

LEMMA DecideInv ==
  ASSUME Inv, NEW c \in Clients, NEW verdict \in Decisions, Decide(c, verdict)
  PROVE  Inv'
<1> DEFINE a == request[c].approval
<1>0. Answered(c)
  BY DEF Decide
<1>1. /\ request' \in [Clients -> Request] /\ request'[c].pc = "idle"
      /\ \A d \in Clients \ {c} : request'[d] = request[d]
  BY <1>0, AnsweredStep
<1>2. /\ a \in Approvals /\ request[c].pc = "decide" /\ request[c].status \in Actionable
      /\ approval' \in [Approvals -> Approval]
      /\ \A b \in Approvals \ {a} : approval'[b] = approval[b]
      /\ approval'[a].status \in {approval[a].status, verdict}
      /\ verdict = "changes_requested" =>
           approval'[a].status \in {approval[a].status, "changes_requested"}
      /\ run' \in RunStatus \ {"none"}
      /\ run' # run => request[c].run = "waiting_approval"
      /\ run' \in {run, "running", "failed"}
      /\ request[c].run = "waiting_approval" /\ verdict # "changes_requested"
           => run' \in {"running", "failed"}
  BY DecideStep
<1>3. TypeOK'
  BY <1>1, <1>2 DEF Inv, TypeOK
<1>4. \A b \in Approvals : approval[b].status # "none" => approval'[b].status # "none"
  BY <1>2
<1>5. Loaded'
  BY <1>1, <1>2, <1>4 DEF Inv, Loaded
<1>6. Witnessed'
  <2> SUFFICES ASSUME run' = "waiting_approval"
               PROVE  \E b \in Approvals : Awaited(b)'
    BY DEF Witnessed
  <2>1. PICK b \in Approvals : Awaited(b)
    BY <1>2 DEF Inv, Witnessed
  <2>2. approval'[b].status \in Actionable \cup {"expired"}
    <3>1. CASE b # a
      BY <3>1, <1>2, <2>1 DEF Awaited
    <3>2. CASE b = a
      <4>1. request[c].run = "waiting_approval"
        BY <3>2, <1>2, <2>1 DEF Awaited
      <4>2. verdict = "changes_requested"
        BY <4>1, <1>2
      <4> QED BY <3>2, <4>2, <1>2, <2>1 DEF Awaited
    <3> QED BY <3>1, <3>2
  <2>3. Awaited(b)'
    BY <1>1, <2>1, <2>2 DEF Awaited
  <2> QED BY <2>3
<1> QED BY <1>3, <1>5, <1>6 DEF Inv

LEMMA AskInv ==
  ASSUME Inv, NEW c \in Clients, Ask(c)
  PROVE  Inv'
<1>0. Answered(c) /\ request[c].pc = "ask" /\ run # "none"
  BY DEF Ask, Inv, Loaded
<1>1. /\ request' \in [Clients -> Request] /\ request'[c].pc = "idle"
      /\ \A d \in Clients \ {c} : request'[d] = request[d]
  BY <1>0, AnsweredStep
<1>2. PICK a \in Approvals, expires \in {"never", "later"} :
        /\ approval[a].status = "none"
        /\ approval' = [approval EXCEPT ![a] = [status |-> "pending", expires |-> expires]]
  BY DEF Ask
<1>3. [status |-> "pending", expires |-> expires] \in Approval
  OBVIOUS
<1>4. /\ approval' \in [Approvals -> Approval] /\ approval'[a].status = "pending"
      /\ \A b \in Approvals \ {a} : approval'[b] = approval[b]
  BY <1>2, <1>3 DEF Inv, TypeOK
<1>5. run' \in {run, "waiting_approval"} /\ run' # "none"
  BY <1>0 DEF Ask
<1>6. TypeOK'
  BY <1>1, <1>4, <1>5 DEF Inv, TypeOK
<1>7. Loaded'
  BY <1>1, <1>4, <1>5 DEF Inv, Loaded
<1>8. \A d \in Clients : request'[d].pc = "decide" => request'[d].approval # a
  BY <1>1, <1>2 DEF Inv, Loaded
<1>9. Awaited(a)'
  BY <1>4, <1>8 DEF Awaited
<1> QED BY <1>6, <1>7, <1>9 DEF Inv, Witnessed

LEMMA RequestStepInv ==
  ASSUME Inv, NEW c \in Clients, RequestStep(c)
  PROVE  Inv'
<1>1. CASE LoadCancel(c)
  BY <1>1, LoadInv DEF LoadCancel
<1>2. CASE Cancel(c)
  BY <1>2, QuietStep DEF Cancel
<1>3. ASSUME NEW a \in Approvals, LoadDecide(c, a) PROVE Inv'
  BY <1>3, LoadInv DEF LoadDecide
<1>4. ASSUME NEW verdict \in Decisions, Decide(c, verdict) PROVE Inv'
  BY <1>4, DecideInv
<1>5. CASE LoadAsk(c)
  BY <1>5, LoadInv DEF LoadAsk
<1>6. CASE Ask(c)
  BY <1>6, AskInv
<1>7. CASE Abort(c)
  <2>1. run # "none" /\ run \in RunStatus
    BY <1>7 DEF Abort, Inv, Loaded, TypeOK
  <2> QED BY <1>7, <2>1, QuietStep DEF Abort
<1> QED BY <1>1, <1>2, <1>3, <1>4, <1>5, <1>6, <1>7 DEF RequestStep

\* Time and the scheduled task change approvals only by letting pending ones expire,
\* and make no run wait.
LEMMA TimeStepInv ==
  ASSUME Inv, UNCHANGED request,
         approval' \in [Approvals -> Approval],
         \A a \in Approvals : approval'[a].status \in {approval[a].status, "expired"},
         \A a \in Approvals : approval[a].status = "none" => approval'[a] = approval[a],
         run' \in RunStatus, run' = "none" <=> run = "none",
         run' = "waiting_approval" => run = "waiting_approval"
  PROVE  Inv'
<1>1. TypeOK'
  BY DEF Inv, TypeOK
<1>2. Loaded'
  BY DEF Inv, Loaded
<1>3. Witnessed'
  BY DEF Inv, Witnessed, Awaited
<1> QED BY <1>1, <1>2, <1>3 DEF Inv

LEMMA DeadlineInv ==
  ASSUME Inv, NEW a \in Approvals, DeadlinePasses(a)
  PROVE  Inv'
<1> DEFINE rec == [approval[a] EXCEPT !.expires = "past"]
<1>1. rec \in Approval /\ rec.status = approval[a].status
  BY DEF Inv, TypeOK
<1>2. approval' = [approval EXCEPT ![a] = rec] /\ UNCHANGED <<run, request>>
      /\ approval[a].expires = "later"
  BY DEF DeadlinePasses, Inv, TypeOK
<1> HIDE DEF rec
<1>3. /\ approval' \in [Approvals -> Approval]
      /\ approval'[a].status = approval[a].status
      /\ \A b \in Approvals \ {a} : approval'[b] = approval[b]
  BY <1>1, <1>2 DEF Inv, TypeOK
<1>4. TypeOK'
  BY <1>2, <1>3 DEF Inv, TypeOK
<1>5. Loaded' /\ Witnessed'
  BY <1>2, <1>3 DEF Inv, Loaded, Witnessed, Awaited
<1> QED BY <1>4, <1>5 DEF Inv

\* What the scheduled task makes of the approvals and of the run.
LEMMA ExpireStep ==
  ASSUME Inv, ExpireAgentApprovals
  PROVE  /\ approval' \in [Approvals -> Approval]
         /\ \A a \in Approvals : \/ approval'[a] = approval[a]
                                 \/ approval[a].status = "pending"
                                    /\ approval'[a].status = "expired"
         /\ run' \in {run, "failed"}
         /\ run' # run => run = "waiting_approval"
         /\ UNCHANGED request
<1>1. ASSUME NEW a \in Approvals
      PROVE  /\ Expired(a) \in Approval
             /\ \/ Expired(a) = approval[a]
                \/ approval[a].status = "pending" /\ Expired(a).status = "expired"
  <2> DEFINE rec == [approval[a] EXCEPT !.status = "expired"]
  <2>1. approval[a] \in Approval
    BY DEF Inv, TypeOK
  <2>2. rec \in Approval /\ rec.status = "expired"
    BY <2>1
  <2> QED BY <2>1, <2>2 DEF Expired
<1>2. approval' = [a \in Approvals |-> Expired(a)]
  BY DEF ExpireAgentApprovals
<1> QED BY <1>1, <1>2 DEF ExpireAgentApprovals

LEMMA ExpireInv ==
  ASSUME Inv, ExpireAgentApprovals
  PROVE  Inv'
BY ExpireStep, TimeStepInv DEF Inv, TypeOK

LEMMA StutterInv ==
  ASSUME Inv, UNCHANGED vars
  PROVE  Inv'
BY DEF vars, Inv, TypeOK, Loaded, Witnessed, Awaited

\* The inductive invariant.
LEMMA SpecInv == Spec => []Inv
<1>1. ASSUME Inv, [Next]_vars PROVE Inv'
  BY <1>1, ExecuteInv, RequestStepInv, DeadlineInv, ExpireInv, StutterInv DEF Next
<1> QED BY InitInv, <1>1, PTL DEF Spec

\* The variables keep their types: a run that is not committed has no approvals,
\* and nothing but the statuses the tables' constraints allow is ever written.
THEOREM TypeCorrect == Spec => []TypeOK
<1>1. Inv => TypeOK
  BY DEF Inv
<1> QED BY <1>1, SpecInv, PTL

\* For any number of overlapping requests and of approvals: a waiting run has an
\* approval that can be decided, or one that has expired.
THEOREM WaitingAnswerable == Spec => []WaitingIsAnswerable
<1>1. Inv => WaitingIsAnswerable
  BY DEF Inv, Witnessed, Awaited, WaitingIsAnswerable
<1> QED BY <1>1, SpecInv, PTL

\* For any number of overlapping requests and of approvals: what has ended or was
\* decided is undone only by a request that loaded it before.
THEOREM StaleRequestsUndo == Spec => OnlyStaleRequestsUndo
<1> DEFINE RunUndone == run \in Terminal /\ run' # run =>
                \E c \in Clients : request[c].pc # "idle" /\ request[c].run \notin Terminal
           ApprovalUndone == \A a \in Approvals :
                approval[a].status \in Final /\ approval'[a].status # approval[a].status =>
                  \E c \in Clients : request[c].approval = a /\ request[c].status \in Actionable
<1>1. ASSUME Inv, [Next]_vars PROVE RunUndone /\ ApprovalUndone
  <2>1. CASE Execute
    BY <1>1, <2>1 DEF Execute, Inv, TypeOK, Final
  <2>2. ASSUME NEW c \in Clients, RequestStep(c) PROVE RunUndone /\ ApprovalUndone
    <3>1. CASE UNCHANGED <<run, approval>>
      BY <3>1
    <3>2. CASE Cancel(c)
      BY <1>1, <3>2 DEF Cancel, Inv, Loaded
    <3>3. ASSUME NEW verdict \in Decisions, Decide(c, verdict)
          PROVE  RunUndone /\ ApprovalUndone
      <4>1. /\ request[c].approval \in Approvals /\ request[c].pc = "decide"
            /\ request[c].status \in Actionable
            /\ \A b \in Approvals \ {request[c].approval} : approval'[b] = approval[b]
            /\ run' # run => request[c].run = "waiting_approval"
        BY <1>1, <3>3, DecideStep
      <4> QED BY <4>1
    <3>4. CASE Ask(c)
      <4>1. request[c].pc = "ask" /\ request[c].run \notin Terminal
        BY <1>1, <3>4 DEF Ask, Inv, Loaded
      <4>2. PICK a \in Approvals, expires \in {"never", "later"} :
              /\ approval[a].status = "none"
              /\ approval' = [approval EXCEPT ![a] = [status |-> "pending", expires |-> expires]]
        BY <3>4 DEF Ask
      <4>3. \A b \in Approvals \ {a} : approval'[b] = approval[b]
        BY <1>1, <4>2 DEF Inv, TypeOK
      <4> QED BY <4>1, <4>2, <4>3 DEF Final
    <3> QED BY <2>2, <3>1, <3>2, <3>3, <3>4
            DEF RequestStep, LoadCancel, LoadDecide, LoadAsk, Load, Abort
  <2>3. ASSUME NEW a \in Approvals, DeadlinePasses(a) PROVE RunUndone /\ ApprovalUndone
    <3>1. UNCHANGED run /\ \A b \in Approvals : approval'[b].status = approval[b].status
      BY <1>1, <2>3 DEF DeadlinePasses, Inv, TypeOK
    <3> QED BY <3>1
  <2>4. CASE ExpireAgentApprovals
    BY <1>1, <2>4, ExpireStep DEF Final
  <2>5. CASE UNCHANGED vars
    BY <2>5 DEF vars
  <2> QED BY <1>1, <2>1, <2>2, <2>3, <2>4, <2>5 DEF Next
<1> QED BY <1>1, SpecInv, PTL DEF Spec, OnlyStaleRequestsUndo
=============================================================================
