---------------------------- MODULE Remediation ----------------------------
(***************************************************************************)
(* The action hub: remediation_actions rows, the approval requests beside  *)
(* them, the HTTP handlers that create, approve and reject actions, the    *)
(* Slack callback, and the goroutine that executes an action.              *)
(*                                                                         *)
(* Every SQL statement is a transaction of its own, so every statement is  *)
(* a step of its own; requests and executor goroutines interleave between  *)
(* statements.  A statement may fail with or without having taken effect,  *)
(* and the backend may crash at any point: the tables survive, the         *)
(* goroutines do not, and no code looks for unfinished actions at start.   *)
(***************************************************************************)
EXTENDS Naturals

CONSTANTS
  Actions,          \* ids of remediation_actions rows (BIGSERIAL)
  Handlers,         \* HTTP requests; a request spawns at most one executor
  ActionTypes,      \* values of the action_type field of a request
  KnownTypes,       \* the types the executor has an operation for
  SlackConfigured,  \* NewSlackClient returned a client
  MaxFaults         \* bound on crashes and failing statements

ASSUME RemediationAssumption ==
  /\ "none" \notin Actions
  /\ KnownTypes \subseteq ActionTypes
  /\ SlackConfigured \in BOOLEAN
  /\ MaxFaults \in Nat

VARIABLES
  status,         \* remediation_actions.status, "absent" when there is no row
  action_type,    \* remediation_actions.action_type
  approved_by,    \* remediation_actions.approved_by: none, api or slack
  needsApproval,  \* requires_approval of the creating request (not stored)
  approval,       \* approval_requests.status of the action's row
  history,        \* remediation_history rows: [action, executor]
  slackMessages,  \* actions whose message with buttons reached Slack
  handler,        \* handler[h]: request h
  executor,       \* executor[h]: the goroutine request h started
  ran,            \* executors that called their target system operation
  faults          \* crashes and failed statements so far

rows  == <<status, action_type, approved_by, needsApproval>>
vars  == <<status, action_type, approved_by, needsApproval, approval, history,
           slackMessages, handler, executor, ran, faults>>

Statuses  == {"pending", "approved", "rejected", "executing", "executed", "failed"}
Terminal  == {"executed", "failed"}
Ops       == {"none", "create", "approve", "reject", "slack"}
Decisions == {"approved", "rejected"}

NoHandler  == [pc |-> "idle", op |-> "none", action |-> "none", known |-> FALSE]
NoExecutor == [pc |-> "none", action |-> "none"]

HandlerPCs  == {"idle", "dispatch", "approval", "load", "done", "dead"}
ExecutorPCs == {"none", "mark", "run", "record", "history", "done", "dead"}

TypeOK ==
  /\ status \in [Actions -> Statuses \cup {"absent"}]
  /\ action_type \in [Actions -> ActionTypes \cup {"none"}]
  /\ approved_by \in [Actions -> {"none", "api", "slack"}]
  /\ needsApproval \in [Actions -> BOOLEAN]
  /\ approval \in [Actions -> {"none", "pending"} \cup Decisions]
  /\ history \subseteq [action : Actions, executor : Handlers]
  /\ slackMessages \subseteq Actions
  /\ handler \in [Handlers -> [pc : HandlerPCs, op : Ops,
                               action : Actions \cup {"none"}, known : BOOLEAN]]
  /\ executor \in [Handlers -> [pc : ExecutorPCs, action : Actions \cup {"none"}]]
  /\ ran \subseteq Handlers
  /\ faults \in Nat

Init ==
  /\ status = [a \in Actions |-> "absent"]
  /\ action_type = [a \in Actions |-> "none"]
  /\ approved_by = [a \in Actions |-> "none"]
  /\ needsApproval = [a \in Actions |-> FALSE]
  /\ approval = [a \in Actions |-> "none"]
  /\ history = {}
  /\ slackMessages = {}
  /\ handler = [h \in Handlers |-> NoHandler]
  /\ executor = [h \in Handlers |-> NoExecutor]
  /\ ran = {}
  /\ faults = 0

-----------------------------------------------------------------------------
(* Statements: "ok", "error" (no effect) and "lost" (the statement         *)
(* committed but its caller sees an error: the connection broke or the     *)
(* request's context was cancelled by a client that went away).            *)

Outcomes    == {"ok", "error", "lost"}
Applied(o)  == o # "error"
Returned(o) == o = "ok"

Charge(o) == \/ o = "ok" /\ UNCHANGED faults
             \/ o # "ok" /\ faults < MaxFaults /\ faults' = faults + 1

\* Mutant: the status = 'pending' guard is forgotten.
DecideUnguarded(a, d, o) ==
  status' = IF Applied(o) /\ status[a] # "absent"
              THEN [status EXCEPT ![a] = d] ELSE status

\* UPDATE ... SET status = d WHERE id = a AND status = 'pending'
Decide(a, d, o) ==
  status' = IF Applied(o) /\ status[a] = "pending"
              THEN [status EXCEPT ![a] = d] ELSE status

\* ... and approved_by, which only an approval that hits the row writes
Credit(a, who, o) ==
  approved_by' = IF Applied(o) /\ status[a] = "pending"
                   THEN [approved_by EXCEPT ![a] = who] ELSE approved_by

\* Mutant: the action's status is copied instead of the decision.
SettleApprovalCopying(a, d, o) ==
  approval' = IF Applied(o) /\ approval[a] = "pending"
                THEN [approval EXCEPT ![a] = status[a]] ELSE approval

\* UPDATE approval_requests SET status = d WHERE ... AND status = 'pending'
SettleApproval(a, d, o) ==
  approval' = IF Applied(o) /\ approval[a] = "pending"
                THEN [approval EXCEPT ![a] = d] ELSE approval

Begin(h, op, a, pc) ==
  /\ handler[h].pc = "idle"
  /\ handler' = [handler EXCEPT ![h] = [pc |-> pc, op |-> op, action |-> a,
                                        known |-> status[a] # "absent"]]

Goto(h, pc) == handler' = [handler EXCEPT ![h].pc = pc]

\* go executeRemediationAction(context.Background(), ...)
Spawn(h) ==
  executor' = [executor EXCEPT ![h] = [pc |-> "mark", action |-> handler[h].action]]

-----------------------------------------------------------------------------
(* POST /identities/:id/remediate.  An invalid body and dry_run return     *)
(* before the first statement and leave no trace; they are not steps.      *)

CreateInsert(h) ==
  \E a \in Actions, t \in ActionTypes, needs \in BOOLEAN, o \in Outcomes :
    /\ status[a] = "absent"
    /\ Begin(h, "create", a, IF Returned(o) THEN "dispatch" ELSE "done")
    /\ status' = IF Applied(o) THEN [status EXCEPT ![a] = "pending"] ELSE status
    /\ action_type' = IF Applied(o) THEN [action_type EXCEPT ![a] = t] ELSE action_type
    /\ needsApproval' =
         IF Applied(o) THEN [needsApproval EXCEPT ![a] = needs] ELSE needsApproval
    /\ Charge(o)
    /\ UNCHANGED <<approved_by, approval, history, slackMessages, executor, ran>>

\* PostApprovalRequest: the HTTP status of the webhook is not looked at and an
\* error only changes the channel column, so "posted" is all that matters.
CreatePost(h) ==
  LET a == handler[h].action IN
    /\ handler[h].op = "create" /\ handler[h].pc = "dispatch"
    /\ needsApproval[a]
    /\ \/ SlackConfigured /\ slackMessages' = slackMessages \cup {a}
       \/ UNCHANGED slackMessages
    /\ Goto(h, "approval")
    /\ UNCHANGED <<rows, approval, history, executor, ran, faults>>

\* The approval_requests row; an error is ignored and the handler answers.
CreateApproval(h) ==
  \E o \in Outcomes :
    LET a == handler[h].action IN
      /\ handler[h].op = "create" /\ handler[h].pc = "approval"
      /\ approval' = IF Applied(o) THEN [approval EXCEPT ![a] = "pending"] ELSE approval
      /\ Goto(h, "done")
      /\ Charge(o)
      /\ UNCHANGED <<rows, history, slackMessages, executor, ran>>

\* Mutant: executes at once even when an approval is required.
CreateSpawnAlways(h) ==
  /\ handler[h].op = "create" /\ handler[h].pc = "dispatch"
  /\ Spawn(h)
  /\ Goto(h, "done")
  /\ UNCHANGED <<rows, approval, history, slackMessages, ran, faults>>

\* No approval required: execute at once, from status 'pending'.
CreateSpawn(h) ==
  /\ handler[h].op = "create" /\ handler[h].pc = "dispatch"
  /\ ~needsApproval[handler[h].action]
  /\ Spawn(h)
  /\ Goto(h, "done")
  /\ UNCHANGED <<rows, approval, history, slackMessages, ran, faults>>

-----------------------------------------------------------------------------
(* POST /remediation/:id/approve, for any id, existing or not.             *)

ApproveAction(h) ==
  \E a \in Actions, o \in Outcomes :
    /\ Begin(h, "approve", a, IF Returned(o) THEN "approval" ELSE "done")
    /\ Decide(a, "approved", o)
    /\ Credit(a, "api", o)
    /\ Charge(o)
    /\ UNCHANGED <<action_type, needsApproval, approval, history, slackMessages,
                   executor, ran>>

ApproveRequest(h) ==
  \E o \in Outcomes :
    /\ handler[h].op = "approve" /\ handler[h].pc = "approval"
    /\ SettleApproval(handler[h].action, "approved", o)
    /\ Goto(h, "load")
    /\ Charge(o)
    /\ UNCHANGED <<rows, history, slackMessages, executor, ran>>

\* Mutant: starts the executor only for a row that is still pending.
ApproveLoadPending(h) ==
  \E o \in {"ok", "error"} :
    /\ handler[h].op = "approve" /\ handler[h].pc = "load"
    /\ IF Returned(o) /\ status[handler[h].action] = "pending"
         THEN Spawn(h) ELSE UNCHANGED executor
    /\ Goto(h, "done")
    /\ Charge(o)
    /\ UNCHANGED <<rows, approval, history, slackMessages, ran>>

\* SELECT the action; when the row is found the executor starts, whatever the
\* row's status is and whatever the UPDATE above did.
ApproveLoad(h) ==
  \E o \in {"ok", "error"} :
    /\ handler[h].op = "approve" /\ handler[h].pc = "load"
    /\ IF Returned(o) /\ status[handler[h].action] # "absent"
         THEN Spawn(h) ELSE UNCHANGED executor
    /\ Goto(h, "done")
    /\ Charge(o)
    /\ UNCHANGED <<rows, approval, history, slackMessages, ran>>

(* POST /remediation/:id/reject.                                           *)

RejectAction(h) ==
  \E a \in Actions, o \in Outcomes :
    /\ Begin(h, "reject", a, IF Returned(o) THEN "approval" ELSE "done")
    /\ Decide(a, "rejected", o)
    /\ Charge(o)
    /\ UNCHANGED <<action_type, approved_by, needsApproval, approval, history,
                   slackMessages, executor, ran>>

RejectRequest(h) ==
  \E o \in Outcomes :
    /\ handler[h].op = "reject" /\ handler[h].pc = "approval"
    /\ SettleApproval(handler[h].action, "rejected", o)
    /\ Goto(h, "done")
    /\ Charge(o)
    /\ UNCHANGED <<rows, history, slackMessages, executor, ran>>

(* POST /slack/interactive: a button of a posted message.  The status is   *)
(* all it writes: it starts no executor and leaves approval_requests alone.*)

SlackInteraction(h) ==
  \E a \in slackMessages, d \in Decisions, o \in Outcomes :
    /\ Begin(h, "slack", a, "done")
    /\ Decide(a, d, o)
    /\ IF d = "approved" THEN Credit(a, "slack", o) ELSE UNCHANGED approved_by
    /\ Charge(o)
    /\ UNCHANGED <<action_type, needsApproval, approval, history, slackMessages,
                   executor, ran>>

-----------------------------------------------------------------------------
(* executeRemediationAction, running on context.Background(): it outlives  *)
(* its request and ignores the errors of its statements.                   *)

At(h, pc)    == executor[h].pc = pc
Known(h)     == action_type[executor[h].action] \in KnownTypes
ExecGoto(h, pc) == executor' = [executor EXCEPT ![h].pc = pc]

\* UPDATE remediation_actions SET status = s WHERE id = a: no status guard
SetStatus(h, s, o) ==
  status' = IF Applied(o) THEN [status EXCEPT ![executor[h].action] = s] ELSE status

\* Mutant: takes only rows that were approved, leaving the others as they are.
ExecMarkUnlessDecided(h) ==
  \E o \in Outcomes :
    /\ At(h, "mark")
    /\ IF status[executor[h].action] = "approved"
         THEN SetStatus(h, "executing", o) /\ ExecGoto(h, "run")
         ELSE UNCHANGED status /\ ExecGoto(h, "done")
    /\ Charge(o)
    /\ UNCHANGED <<action_type, approved_by, needsApproval, approval, history,
                   slackMessages, handler, ran>>

ExecMark(h) ==
  \E o \in Outcomes :
    /\ At(h, "mark")
    /\ SetStatus(h, "executing", o)
    /\ ExecGoto(h, "run")
    /\ Charge(o)
    /\ UNCHANGED <<action_type, approved_by, needsApproval, approval, history,
                   slackMessages, handler, ran>>

\* the switch on action_type; an unknown type calls nothing
ExecRun(h) ==
  /\ At(h, "run")
  /\ ran' = IF Known(h) THEN ran \cup {h} ELSE ran
  /\ ExecGoto(h, "record")
  /\ UNCHANGED <<rows, approval, history, slackMessages, handler, faults>>

\* Mutant: writes the history row whether or not the operation succeeded.
ExecRecordAlwaysHistory(h) ==
  \E o \in Outcomes :
    /\ At(h, "record")
    /\ SetStatus(h, IF Known(h) THEN "executed" ELSE "failed", o)
    /\ ExecGoto(h, "history")
    /\ Charge(o)
    /\ UNCHANGED <<action_type, approved_by, needsApproval, approval, history,
                   slackMessages, handler, ran>>

ExecRecord(h) ==
  \E o \in Outcomes :
    /\ At(h, "record")
    /\ SetStatus(h, IF Known(h) THEN "executed" ELSE "failed", o)
    /\ ExecGoto(h, IF Known(h) THEN "history" ELSE "done")
    /\ Charge(o)
    /\ UNCHANGED <<action_type, approved_by, needsApproval, approval, history,
                   slackMessages, handler, ran>>

ExecHistory(h) ==
  \E o \in Outcomes :
    /\ At(h, "history")
    /\ history' = IF Applied(o)
         THEN history \cup {[action |-> executor[h].action, executor |-> h]}
         ELSE history
    /\ ExecGoto(h, "done")
    /\ Charge(o)
    /\ UNCHANGED <<rows, approval, slackMessages, handler, ran>>

(* The process dies and is started again: requests and goroutines are gone.*)
Crash ==
  /\ faults < MaxFaults /\ faults' = faults + 1
  /\ handler' = [h \in Handlers |-> IF handler[h].pc \in {"idle", "done"}
                   THEN handler[h] ELSE [handler[h] EXCEPT !.pc = "dead"]]
  /\ executor' = [h \in Handlers |-> IF executor[h].pc \in {"none", "done"}
                   THEN executor[h] ELSE [executor[h] EXCEPT !.pc = "dead"]]
  /\ UNCHANGED <<rows, approval, history, slackMessages, ran>>

-----------------------------------------------------------------------------
Request(h) ==
  CreateInsert(h) \/ ApproveAction(h) \/ RejectAction(h) \/ SlackInteraction(h)

HandlerStep(h) ==
  \/ CreatePost(h) \/ CreateApproval(h) \/ CreateSpawn(h)
  \/ ApproveRequest(h) \/ ApproveLoad(h) \/ RejectRequest(h)

ExecutorStep(h) == ExecMark(h) \/ ExecRun(h) \/ ExecRecord(h) \/ ExecHistory(h)

Next ==
  \/ \E h \in Handlers : Request(h) \/ HandlerStep(h) \/ ExecutorStep(h)
  \/ Crash

(* Goroutines are scheduled and statements return; nobody has to send a    *)
(* request or press a button.                                              *)
Fairness == \A h \in Handlers : WF_vars(HandlerStep(h)) /\ WF_vars(ExecutorStep(h))

Spec == Init /\ [][Next]_vars /\ Fairness
-----------------------------------------------------------------------------
(* Properties.                                                             *)

\* A decision is made once: whatever approvals and rejections race for an
\* action through the API and Slack, the first one to hit the row wins, no
\* later one turns approved into rejected or back, and the approver recorded
\* in the row is never replaced (the status = 'pending' guards of
\* remediation_handlers.go and slack_client.go).
DecisionStands ==
  [][\A a \in Actions :
       /\ status[a] = "approved" => status'[a] \notin {"absent", "pending", "rejected"}
       /\ status[a] = "rejected" => status'[a] \notin {"absent", "pending", "approved"}
       /\ approved_by[a] # "none" => approved_by'[a] = approved_by[a]]_vars

\* An action created with requires_approval is executed only on behalf of an
\* approve request, and by then the row has left 'pending', provided that the
\* row existed when the request arrived.
ApprovalGate ==
  \A h \in Handlers :
    executor[h].pc # "none" /\ needsApproval[executor[h].action] =>
      /\ handler[h].op = "approve"
      /\ handler[h].known => status[executor[h].action] # "pending"

\* remediation_history, which the executive dashboard counts as resolved
\* risks, holds a row only for an execution that called its operation, for the
\* action that executor was started for, and never for a failed action.
HistoryIsEarned ==
  \A r \in history :
    /\ r.executor \in ran
    /\ executor[r.executor].action = r.action
    /\ status[r.action] \notin {"absent", "failed"}

Quiet == \A h \in Handlers : /\ handler[h].pc \in {"idle", "done"}
                             /\ executor[h].pc \in {"none", "done"}

\* Without faults, once nothing runs, the tables agree: an action is recorded
\* as executed exactly when the history has it, nothing stays 'executing', an
\* action that needed no approval has been executed, and only an approval
\* through Slack leaves an action 'approved'.
SettledWhenQuiet ==
  Quiet /\ faults = 0 =>
    \A a \in Actions :
      /\ status[a] = "executed" <=> \E r \in history : r.action = a
      /\ status[a] # "executing"
      /\ status[a] # "absent" /\ ~needsApproval[a] => status[a] \in Terminal
      /\ status[a] = "approved" => approved_by[a] = "slack"

\* An approve request whose UPDATE succeeded brings the action to a final
\* status, unless a statement fails or the backend crashes.
ApiApprovalExecutes ==
  \A h \in Handlers, a \in Actions :
    (/\ handler[h].op = "approve" /\ handler[h].pc = "approval"
     /\ handler[h].action = a /\ status[a] # "absent")
      ~> (status[a] \in Terminal \/ faults > 0)

-----------------------------------------------------------------------------
(* Claims of the repository that the code does not keep.                   *)

\* "Resolved actions from the Action Hub (Jira tickets, Slack approvals, or
\* direct remediations) will appear here": the executive dashboard reads
\* remediation_history, so an approval by Slack leads to a history row.
SlackApprovalsAppear ==
  \A a \in Actions :
    (status[a] = "approved" /\ approved_by[a] = "slack")
      ~> (\E r \in history : r.action = a)

\* RejectRemediationAction "rejects a remediation action": an action that was
\* to be approved and was rejected does not start to execute.
RejectedNeverExecutes ==
  [][\A a \in Actions :
       status[a] = "rejected" /\ needsApproval[a] => status'[a] # "executing"]_vars
=============================================================================
