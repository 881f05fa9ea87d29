------------------------- MODULE RemediationProofs -------------------------
(***************************************************************************)
(* Safety of the action hub for any set of actions and requests and any    *)
(* number of faults.                                                       *)
(***************************************************************************)
EXTENDS Remediation, TLAPS

\* A request past its first statement has an action; an executor works on the
\* action of the request that started it, which has returned.
Control ==
  \A h \in Handlers :
    /\ handler[h].pc # "idle" => handler[h].action \in Actions
    /\ executor[h].pc # "none" => /\ handler[h].pc = "done"
                                  /\ handler[h].op \in {"create", "approve"}
                                  /\ executor[h].action = handler[h].action

\* Every reachable state is well typed (the rows, the approval requests, the
\* history and the program counters of remediation_handlers.go), and every
\* executor belongs to a create or approve request that has returned.
THEOREM TypeCorrect == Spec => [](TypeOK /\ Control)
<1> USE RemediationAssumption
<1>1. Init => TypeOK /\ Control
  BY DEF Init, TypeOK, Control, NoHandler, NoExecutor, Ops, HandlerPCs, ExecutorPCs
<1>2. TypeOK /\ Control /\ [Next]_vars => TypeOK' /\ Control'
  <2> SUFFICES ASSUME TypeOK, Control, [Next]_vars PROVE TypeOK' /\ Control'
    OBVIOUS
  <2> USE DEF TypeOK, Control, Statuses, Decisions, Ops, HandlerPCs, ExecutorPCs, rows
  <2>1. ASSUME NEW h \in Handlers, CreateInsert(h) PROVE TypeOK' /\ Control'
    BY <2>1 DEF CreateInsert, Begin, Charge, Outcomes, Applied, Returned
  <2>2. ASSUME NEW h \in Handlers, ApproveAction(h) PROVE TypeOK' /\ Control'
    BY <2>2 DEF ApproveAction, Begin, Charge, Decide, Credit, Outcomes, Applied, Returned
  <2>3. ASSUME NEW h \in Handlers, RejectAction(h) PROVE TypeOK' /\ Control'
    BY <2>3 DEF RejectAction, Begin, Charge, Decide, Outcomes, Applied, Returned
  <2>4. ASSUME NEW h \in Handlers, SlackInteraction(h) PROVE TypeOK' /\ Control'
    <3> PICK a \in slackMessages, d \in Decisions, o \in Outcomes :
          /\ Begin(h, "slack", a, "done")
          /\ Decide(a, d, o)
          /\ IF d = "approved" THEN Credit(a, "slack", o) ELSE UNCHANGED approved_by
          /\ Charge(o)
          /\ UNCHANGED <<action_type, needsApproval, approval, history, slackMessages,
                         executor, ran>>
      BY <2>4 DEF SlackInteraction
    <3>1. /\ status' \in [Actions -> Statuses \cup {"absent"}]
          /\ faults' \in Nat
      BY DEF Decide, Charge
    <3>2. approved_by' \in [Actions -> {"none", "api", "slack"}]
      BY DEF Credit
    <3>3. QED
      BY <3>1, <3>2 DEF Begin
  <2>5. ASSUME NEW h \in Handlers, HandlerStep(h) PROVE TypeOK' /\ Control'
    <3>1. CASE CreatePost(h)
      BY <3>1 DEF CreatePost, Goto
    <3>2. CASE CreateApproval(h)
      BY <3>2 DEF CreateApproval, Goto, Charge, Outcomes, Applied
    <3>3. CASE CreateSpawn(h)
      BY <3>3 DEF CreateSpawn, Spawn, Goto
    <3>4. CASE ApproveRequest(h)
      BY <3>4 DEF ApproveRequest, SettleApproval, Goto, Charge, Outcomes, Applied
    <3>5. CASE ApproveLoad(h)
      <4>1. CASE Spawn(h)
        BY <3>5, <4>1 DEF ApproveLoad, Spawn, Goto, Charge
      <4>2. CASE UNCHANGED executor
        BY <3>5, <4>2 DEF ApproveLoad, Goto, Charge
      <4>3. QED
        BY <3>5, <4>1, <4>2 DEF ApproveLoad
    <3>6. CASE RejectRequest(h)
      BY <3>6 DEF RejectRequest, SettleApproval, Goto, Charge, Outcomes, Applied
    <3>7. QED
      BY <2>5, <3>1, <3>2, <3>3, <3>4, <3>5, <3>6 DEF HandlerStep
  <2>6. ASSUME NEW h \in Handlers, ExecutorStep(h) PROVE TypeOK' /\ Control'
    <3>1. CASE ExecMark(h)
      BY <3>1 DEF ExecMark, At, ExecGoto, SetStatus, Charge, Outcomes, Applied
    <3>2. CASE ExecRun(h)
      BY <3>2 DEF ExecRun, At, ExecGoto
    <3>3. CASE ExecRecord(h)
      BY <3>3 DEF ExecRecord, At, ExecGoto, SetStatus, Charge, Outcomes, Applied
    <3>4. CASE ExecHistory(h)
      BY <3>4 DEF ExecHistory, At, ExecGoto, Charge, Outcomes, Applied
    <3>5. QED
      BY <2>6, <3>1, <3>2, <3>3, <3>4 DEF ExecutorStep
  <2>7. CASE Crash
    <3>1. /\ handler' \in [Handlers -> [pc : HandlerPCs, op : Ops,
                               action : Actions \cup {"none"}, known : BOOLEAN]]
          /\ executor' \in [Handlers -> [pc : ExecutorPCs, action : Actions \cup {"none"}]]
      <4> DEFINE H == [pc : HandlerPCs, op : Ops, action : Actions \cup {"none"},
                       known : BOOLEAN]
                 E == [pc : ExecutorPCs, action : Actions \cup {"none"}]
      <4>1. ASSUME NEW h \in Handlers PROVE [handler[h] EXCEPT !.pc = "dead"] \in H
        <5>1. handler[h] \in H
          OBVIOUS
        <5>2. QED
          BY <5>1
      <4>2. ASSUME NEW h \in Handlers PROVE [executor[h] EXCEPT !.pc = "dead"] \in E
        <5>1. executor[h] \in E
          OBVIOUS
        <5>2. QED
          BY <5>1
      <4>3. handler \in [Handlers -> H] /\ executor \in [Handlers -> E]
        OBVIOUS
      <4> HIDE DEF H, E
      <4>4. handler' \in [Handlers -> H]
        BY <2>7, <4>1, <4>3 DEF Crash
      <4>5. executor' \in [Handlers -> E]
        BY <2>7, <4>2, <4>3 DEF Crash
      <4>6. QED
        BY <4>4, <4>5 DEF H, E
    <3>2. TypeOK'
      BY <2>7, <3>1 DEF Crash
    <3>3. Control'
      BY <2>7 DEF Crash
    <3>4. QED
      BY <3>2, <3>3
  <2>8. CASE UNCHANGED vars
    BY <2>8 DEF vars
  <2>9. QED
    BY <2>1, <2>2, <2>3, <2>4, <2>5, <2>6, <2>7, <2>8 DEF Next, Request
<1>3. QED
  BY <1>1, <1>2, PTL DEF Spec
-----------------------------------------------------------------------------
Present(a) == status[a] # "absent"
Cleared(a) == status[a] \notin {"absent", "pending"}

\* Rows are never deleted, their type and their need for an approval never
\* change, and no statement puts a row back to 'pending'.
LEMMA RowsAreStable ==
  ASSUME TypeOK, Control, [Next]_vars, NEW a \in Actions
  PROVE  /\ Present(a) => /\ Present(a)'
                          /\ needsApproval'[a] = needsApproval[a]
                          /\ action_type'[a] = action_type[a]
         /\ Cleared(a) => Cleared(a)'
<1> USE DEF TypeOK, Control, Present, Cleared, rows
<1> DEFINE Goal == /\ Present(a) => /\ Present(a)'
                                    /\ needsApproval'[a] = needsApproval[a]
                                    /\ action_type'[a] = action_type[a]
                   /\ Cleared(a) => Cleared(a)'
<1>1. ASSUME NEW h \in Handlers, CreateInsert(h) PROVE Goal
  BY <1>1 DEF CreateInsert
<1>2. ASSUME NEW h \in Handlers, ApproveAction(h) PROVE Goal
  BY <1>2 DEF ApproveAction, Decide
<1>3. ASSUME NEW h \in Handlers, RejectAction(h) PROVE Goal
  BY <1>3 DEF RejectAction, Decide
<1>4. ASSUME NEW h \in Handlers, SlackInteraction(h) PROVE Goal
  <2> PICK b \in slackMessages, d \in Decisions, o \in Outcomes :
        /\ Decide(b, d, o)
        /\ UNCHANGED <<action_type, needsApproval>>
    BY <1>4 DEF SlackInteraction
  <2> QED
    BY DEF Decide, Decisions
<1>5. ASSUME NEW h \in Handlers, HandlerStep(h) PROVE Goal
  BY <1>5 DEF HandlerStep, CreatePost, CreateApproval, CreateSpawn, ApproveRequest,
              ApproveLoad, RejectRequest
<1>6. ASSUME NEW h \in Handlers, ExecutorStep(h) PROVE Goal
  BY <1>6 DEF ExecutorStep, ExecMark, ExecRun, ExecRecord, ExecHistory, SetStatus
<1>7. CASE Crash
  BY <1>7 DEF Crash
<1>8. CASE UNCHANGED vars
  BY <1>8 DEF vars
<1>9. QED
  BY <1>1, <1>2, <1>3, <1>4, <1>5, <1>6, <1>7, <1>8 DEF Next, Request

\* What a request knows of its row: it exists once the request has found or
\* inserted it, and an approve or reject request that found it has decided it
\* or found it decided.
GateOf(h) ==
  LET a == handler[h].action IN
    /\ handler[h].pc # "idle" /\ handler[h].known => Present(a)
    /\ handler[h].pc = "dispatch" => handler[h].op = "create"
    /\ handler[h].pc \in {"dispatch", "approval"} /\ handler[h].op = "create" => Present(a)
    /\ executor[h].pc # "none" => Present(a)
    /\ executor[h].pc # "none" /\ handler[h].op = "create" => ~needsApproval[a]
    /\ /\ handler[h].op \in {"approve", "reject"} /\ handler[h].known
       /\ handler[h].pc \in {"approval", "load"} \/ executor[h].pc # "none"
       => Cleared(a)

GateInv == \A h \in Handlers : GateOf(h)

LEMMA GateStep ==
  ASSUME TypeOK, Control, GateInv, [Next]_vars
  PROVE  GateInv'
<1> USE DEF Present, Cleared
<1> SUFFICES ASSUME NEW g \in Handlers PROVE GateOf(g)'
  BY DEF GateInv
<1>0. GateOf(g)
  BY DEF GateInv
<1>s. ASSUME NEW a \in Actions
      PROVE  /\ status[a] # "absent" => /\ status'[a] # "absent"
                                        /\ needsApproval'[a] = needsApproval[a]
             /\ status[a] \notin {"absent", "pending"}
                  => status'[a] \notin {"absent", "pending"}
  BY RowsAreStable
<1>a. handler[g].pc # "idle" \/ executor[g].pc # "none" => handler[g].action \in Actions
  BY DEF Control
<1>1. ASSUME handler'[g].action = handler[g].action,
             handler'[g].op = handler[g].op,
             handler'[g].known = handler[g].known,
             handler'[g].pc = handler[g].pc
               \/ (handler[g].pc # "idle" /\ handler'[g].pc = "dead"),
             executor[g].pc = "none" => executor'[g].pc = "none"
      PROVE  GateOf(g)'
  <2>1. CASE handler[g].pc # "idle"
    <3> DEFINE b == handler[g].action
    <3>0. b \in Actions
      BY <1>a, <2>1
    <3> HIDE DEF b
    <3>1. /\ status[b] # "absent" => /\ status'[b] # "absent"
                                     /\ needsApproval'[b] = needsApproval[b]
          /\ status[b] \notin {"absent", "pending"} =>
               status'[b] \notin {"absent", "pending"}
      BY <1>s, <3>0
    <3>2. QED
      BY <1>0, <1>1, <2>1, <3>1 DEF GateOf, b
  <2>2. CASE handler[g].pc = "idle"
    <3>1. executor'[g].pc = "none" /\ handler'[g].pc = "idle"
      BY <1>1, <2>2 DEF Control
    <3>2. QED
      BY <1>1, <3>1 DEF GateOf
  <2>3. QED
    BY <2>1, <2>2
<1>2. ASSUME NEW h \in Handlers, h # g, Request(h) \/ HandlerStep(h) \/ ExecutorStep(h)
      PROVE  GateOf(g)'
  <2>1. handler'[g] = handler[g] /\ executor'[g] = executor[g]
    BY <1>2 DEF Request, HandlerStep, ExecutorStep, CreateInsert, ApproveAction,
      RejectAction, SlackInteraction, CreatePost, CreateApproval, CreateSpawn,
      ApproveRequest, ApproveLoad, RejectRequest, ExecMark, ExecRun, ExecRecord,
      ExecHistory, Begin, Goto, Spawn, ExecGoto, TypeOK
  <2>2. QED
    BY <1>1, <2>1
<1>3. ASSUME ExecutorStep(g) PROVE GateOf(g)'
  <2>1. handler'[g] = handler[g] /\ executor[g].pc # "none"
    BY <1>3 DEF ExecutorStep, ExecMark, ExecRun, ExecRecord, ExecHistory, At
  <2>2. QED
    BY <1>1, <2>1
<1>4. ASSUME HandlerStep(g) PROVE GateOf(g)'
  <2> USE DEF GateOf, TypeOK, Control, rows
  <2>1. CASE CreatePost(g)
    BY <1>0, <1>s, <1>a, <2>1 DEF CreatePost, Goto
  <2>2. CASE CreateApproval(g)
    BY <1>0, <1>s, <1>a, <2>2 DEF CreateApproval, Goto
  <2>3. CASE CreateSpawn(g)
    BY <1>0, <1>s, <1>a, <2>3 DEF CreateSpawn, Goto, Spawn, Present
  <2>4. CASE ApproveRequest(g)
    BY <1>0, <1>s, <1>a, <2>4 DEF ApproveRequest, Goto
  <2>5. CASE ApproveLoad(g)
    BY <1>0, <1>s, <1>a, <2>5 DEF ApproveLoad, Goto, Spawn, Present
  <2>6. CASE RejectRequest(g)
    BY <1>0, <1>s, <1>a, <2>6 DEF RejectRequest, Goto
  <2>7. QED
    BY <1>4, <2>1, <2>2, <2>3, <2>4, <2>5, <2>6 DEF HandlerStep
<1>5. ASSUME Request(g) PROVE GateOf(g)'
  <2> DEFINE new == handler'[g]
  <2>0. executor'[g].pc = "none"
    BY <1>5 DEF Request, CreateInsert, ApproveAction, RejectAction, SlackInteraction,
                Begin, Control
  <2>1. CASE CreateInsert(g)
    <3>1. PICK a \in Actions, o \in Outcomes :
            /\ status[a] = "absent"
            /\ Begin(g, "create", a, IF Returned(o) THEN "dispatch" ELSE "done")
            /\ status' = IF Applied(o) THEN [status EXCEPT ![a] = "pending"] ELSE status
      BY <2>1 DEF CreateInsert
    <3>2. /\ new.action = a /\ new.op = "create" /\ ~new.known
          /\ new.pc \in {"dispatch", "done"}
          /\ new.pc = "dispatch" => status'[a] = "pending"
      BY <3>1 DEF Begin, TypeOK, Returned, Applied
    <3>3. QED
      BY <2>0, <3>2 DEF GateOf
  <2>2. CASE ApproveAction(g) \/ RejectAction(g)
    <3>1. PICK a \in Actions, o \in Outcomes, op \in {"approve", "reject"}, d \in Decisions :
            /\ Begin(g, op, a, IF Returned(o) THEN "approval" ELSE "done")
            /\ Decide(a, d, o)
      BY <2>2 DEF ApproveAction, RejectAction, Decisions
    <3>2. /\ new.action = a /\ new.op = op /\ new.known = (status[a] # "absent")
          /\ new.pc \in {"approval", "done"}
          /\ new.pc = "approval" => Returned(o)
      BY <3>1 DEF Begin, TypeOK
    <3>3. status[a] # "absent" /\ Returned(o) => status'[a] \notin {"absent", "pending"}
      BY <3>1, <1>s DEF Decide, Returned, Applied, TypeOK, Decisions
    <3>4. status[a] # "absent" => status'[a] # "absent"
      BY <1>s
    <3>5. QED
      BY <2>0, <3>2, <3>3, <3>4 DEF GateOf
  <2>3. CASE SlackInteraction(g)
    <3>1. PICK a \in Actions : Begin(g, "slack", a, "done")
      BY <2>3 DEF SlackInteraction, TypeOK
    <3>2. /\ new.pc = "done" /\ new.op = "slack" /\ new.action = a
          /\ new.known = (status[a] # "absent")
      BY <3>1 DEF Begin, TypeOK
    <3>3. status[a] # "absent" => status'[a] # "absent"
      BY <1>s
    <3>4. QED
      BY <2>0, <3>2, <3>3 DEF GateOf
  <2>4. QED
    BY <1>5, <2>1, <2>2, <2>3 DEF Request
<1>6. CASE Crash
  BY <1>1, <1>6 DEF Crash, TypeOK
<1>7. CASE UNCHANGED vars
  BY <1>1, <1>7 DEF vars
<1>8. QED
  BY <1>2, <1>3, <1>4, <1>5, <1>6, <1>7 DEF Next


THEOREM GateInvariant == Spec => []GateInv
<1>1. Init => GateInv
  BY DEF Init, GateInv, GateOf, NoHandler, NoExecutor
<1>2. QED
  BY <1>1, GateStep, TypeCorrect, PTL DEF Spec

\* An action that requires approval is executed only for an approve request,
\* after its row has left 'pending': ApproveRemediationAction updates the row
\* before it starts the executor and gives up when the update fails.
THEOREM ApprovalIsGated == Spec => []ApprovalGate
<1>1. TypeOK /\ Control /\ GateInv => ApprovalGate
  <2> SUFFICES ASSUME Control, GateInv, NEW h \in Handlers,
                      executor[h].pc # "none", needsApproval[executor[h].action]
               PROVE  /\ handler[h].op = "approve"
                      /\ handler[h].known => status[executor[h].action] # "pending"
    BY DEF ApprovalGate
  <2>1. /\ executor[h].action = handler[h].action
        /\ handler[h].op \in {"create", "approve"}
    BY DEF Control
  <2>2. handler[h].op = "approve"
    BY <2>1 DEF GateInv, GateOf
  <2>3. QED
    BY <2>1, <2>2 DEF GateInv, GateOf, Cleared
<1>2. QED
  BY <1>1, GateInvariant, TypeCorrect, PTL

-----------------------------------------------------------------------------
\* Only a row that has been decided has an approver.
CreditInv == \A a \in Actions : approved_by[a] # "none" => Cleared(a)

Stands(a) ==
  /\ status[a] = "approved" => status'[a] \notin {"absent", "pending", "rejected"}
  /\ status[a] = "rejected" => status'[a] \notin {"absent", "pending", "approved"}
  /\ approved_by[a] # "none" => approved_by'[a] = approved_by[a]

LEMMA DecisionStep ==
  ASSUME TypeOK, Control, CreditInv, Next
  PROVE  CreditInv' /\ \A a \in Actions : Stands(a)
<1> USE DEF TypeOK, Control, rows
<1> SUFFICES ASSUME NEW a \in Actions
             PROVE  (approved_by'[a] # "none" => Cleared(a)') /\ Stands(a)
  BY DEF CreditInv
<1>0. approved_by[a] # "none" => status[a] \notin {"absent", "pending"}
  BY DEF CreditInv, Cleared
<1> DEFINE Goal == (approved_by'[a] # "none" => Cleared(a)') /\ Stands(a)
<1> USE DEF Stands, Cleared
<1>1. ASSUME NEW h \in Handlers, CreateInsert(h) PROVE Goal
  BY <1>0, <1>1 DEF CreateInsert
<1>2. ASSUME NEW h \in Handlers, ApproveAction(h) PROVE Goal
  BY <1>0, <1>2 DEF ApproveAction, Decide, Credit
<1>3. ASSUME NEW h \in Handlers, RejectAction(h) PROVE Goal
  BY <1>0, <1>3 DEF RejectAction, Decide
<1>4. ASSUME NEW h \in Handlers, SlackInteraction(h) PROVE Goal
  <2>1. PICK b \in slackMessages, d \in Decisions, o \in Outcomes :
          /\ Decide(b, d, o)
          /\ IF d = "approved" THEN Credit(b, "slack", o) ELSE UNCHANGED approved_by
    BY <1>4 DEF SlackInteraction
  <2>2. CASE d = "approved"
    BY <1>0, <2>1, <2>2 DEF Decide, Credit
  <2>3. CASE d = "rejected"
    BY <1>0, <2>1, <2>3 DEF Decide
  <2>4. QED
    BY <2>2, <2>3 DEF Decisions
<1>5. ASSUME NEW h \in Handlers, HandlerStep(h) PROVE Goal
  BY <1>0, <1>5 DEF HandlerStep, CreatePost, CreateApproval, CreateSpawn, ApproveRequest,
              ApproveLoad, RejectRequest
<1>6. ASSUME NEW h \in Handlers, ExecutorStep(h) PROVE Goal
  BY <1>0, <1>6 DEF ExecutorStep, ExecMark, ExecRun, ExecRecord, ExecHistory, SetStatus
<1>7. CASE Crash
  BY <1>0, <1>7 DEF Crash
<1>8. QED
  BY <1>1, <1>2, <1>3, <1>4, <1>5, <1>6, <1>7 DEF Next, Request

\* No decision is overwritten by a later one, for any number of racing approvals
\* and rejections through the API and Slack.
THEOREM DecisionsStand == Spec => DecisionStands
<1>1. Init => CreditInv
  BY DEF Init, CreditInv
<1>2. TypeOK /\ Control /\ CreditInv /\ [Next]_vars => CreditInv'
  <2>1. CASE UNCHANGED vars
    BY <2>1 DEF vars, CreditInv, Cleared
  <2>2. QED
    BY <2>1, DecisionStep
<1>3. TypeOK /\ Control /\ CreditInv /\ [Next]_vars =>
        [\A a \in Actions :
           /\ status[a] = "approved" => status'[a] \notin {"absent", "pending", "rejected"}
           /\ status[a] = "rejected" => status'[a] \notin {"absent", "pending", "approved"}
           /\ approved_by[a] # "none" => approved_by'[a] = approved_by[a]]_vars
  BY DecisionStep DEF Stands
<1>4. QED
  BY <1>1, <1>2, <1>3, TypeCorrect, PTL DEF Spec, DecisionStands

-----------------------------------------------------------------------------
\* A request that has not begun has no operation.
Fresh == \A h \in Handlers : handler[h].pc = "idle" => handler[h].op = "none"

\* A request keeps its operation, its action and what it knew of the row; an
\* executor keeps its action.
LEMMA RequestsAreStable ==
  ASSUME TypeOK, Control, [Next]_vars, NEW h \in Handlers
  PROVE  /\ handler[h].pc # "idle" => /\ handler'[h].pc # "idle"
                                      /\ handler'[h].op = handler[h].op
                                      /\ handler'[h].action = handler[h].action
                                      /\ handler'[h].known = handler[h].known
         /\ executor[h].pc # "none" => /\ executor'[h].pc # "none"
                                       /\ executor'[h].action = executor[h].action
<1> USE DEF TypeOK, Control
<1> DEFINE Goal == /\ handler[h].pc # "idle" => /\ handler'[h].pc # "idle"
                                                /\ handler'[h].op = handler[h].op
                                                /\ handler'[h].action = handler[h].action
                                                /\ handler'[h].known = handler[h].known
                   /\ executor[h].pc # "none" => /\ executor'[h].pc # "none"
                                                 /\ executor'[h].action = executor[h].action
<1>1. ASSUME NEW g \in Handlers, Request(g) PROVE Goal
  BY <1>1 DEF Request, CreateInsert, ApproveAction, RejectAction, SlackInteraction, Begin
<1>2. ASSUME NEW g \in Handlers, HandlerStep(g) PROVE Goal
  BY <1>2 DEF HandlerStep, CreatePost, CreateApproval, CreateSpawn, ApproveRequest,
              ApproveLoad, RejectRequest, Goto, Spawn
<1>3. ASSUME NEW g \in Handlers, ExecutorStep(g) PROVE Goal
  BY <1>3 DEF ExecutorStep, ExecMark, ExecRun, ExecRecord, ExecHistory, At, ExecGoto
<1>4. CASE Crash
  BY <1>4 DEF Crash
<1>5. CASE UNCHANGED vars
  BY <1>5 DEF vars
<1>6. QED
  BY <1>1, <1>2, <1>3, <1>4, <1>5 DEF Next

LEMMA FreshStep ==
  ASSUME TypeOK, Control, Fresh, [Next]_vars
  PROVE  Fresh'
<1> SUFFICES ASSUME NEW h \in Handlers, handler'[h].pc = "idle"
             PROVE  handler'[h].op = "none"
  BY DEF Fresh
<1>1. handler[h].pc = "idle" /\ handler[h].op = "none"
  BY RequestsAreStable DEF Fresh
<1> USE <1>1 DEF TypeOK
<1>2. ASSUME NEW g \in Handlers, Request(g) PROVE handler'[h] = handler[h]
  <2>1. CASE g = h
    BY <1>2, <2>1 DEF Request, CreateInsert, ApproveAction, RejectAction, SlackInteraction,
                      Begin
  <2>2. CASE g # h
    BY <1>2, <2>2 DEF Request, CreateInsert, ApproveAction, RejectAction, SlackInteraction,
                      Begin
  <2>3. QED
    BY <2>1, <2>2
<1>3. ASSUME NEW g \in Handlers, HandlerStep(g) PROVE handler'[h] = handler[h]
  BY <1>3 DEF HandlerStep, CreatePost, CreateApproval, CreateSpawn, ApproveRequest,
              ApproveLoad, RejectRequest, Goto
<1>4. ASSUME NEW g \in Handlers, ExecutorStep(g) PROVE handler'[h] = handler[h]
  BY <1>4 DEF ExecutorStep, ExecMark, ExecRun, ExecRecord, ExecHistory
<1>5. CASE Crash
  BY <1>5 DEF Crash
<1>6. CASE UNCHANGED vars
  BY <1>6 DEF vars
<1>7. QED
  BY <1>1, <1>2, <1>3, <1>4, <1>5, <1>6 DEF Next

-----------------------------------------------------------------------------
\* A row fails only for a type without an operation, an executor that goes on
\* to the history has called its operation, and so has one with a history row.
FailedUnknown(a) == status[a] = "failed" => action_type[a] \notin KnownTypes
HasRun(h) == /\ executor[h].pc \in {"record", "history"} /\ Known(h) => h \in ran
             /\ executor[h].pc = "history" => Known(h)
Earned(r) == /\ r.executor \in ran
             /\ executor[r.executor].pc # "none"
             /\ executor[r.executor].action = r.action
             /\ Present(r.action)
             /\ action_type[r.action] \in KnownTypes

EarnedInv == /\ \A a \in Actions : FailedUnknown(a)
             /\ \A h \in Handlers : HasRun(h)
             /\ \A r \in history : Earned(r)

\* Executors work on rows that exist.
LEMMA ExecutorsHaveRows ==
  ASSUME TypeOK, Control, GateInv, NEW h \in Handlers, executor[h].pc # "none"
  PROVE  executor[h].action \in Actions /\ Present(executor[h].action)
BY DEF Control, GateInv, GateOf

LEMMA FailedStep ==
  ASSUME TypeOK, Control, GateInv, EarnedInv, [Next]_vars, NEW a \in Actions
  PROVE  FailedUnknown(a)'
<1> USE DEF TypeOK, FailedUnknown, rows
<1>0. FailedUnknown(a)
  BY DEF EarnedInv
<1>1. ASSUME NEW h \in Handlers, CreateInsert(h) PROVE FailedUnknown(a)'
  BY <1>0, <1>1 DEF CreateInsert
<1>2. ASSUME NEW h \in Handlers, ApproveAction(h) \/ RejectAction(h) \/ SlackInteraction(h)
      PROVE  FailedUnknown(a)'
  <2>1. PICK b \in Actions, d \in Decisions, o \in Outcomes : Decide(b, d, o)
    BY <1>2 DEF ApproveAction, RejectAction, SlackInteraction, Decisions
  <2>2. UNCHANGED action_type
    BY <1>2 DEF ApproveAction, RejectAction, SlackInteraction
  <2>3. QED
    BY <1>0, <2>1, <2>2 DEF Decide, Decisions
<1>3. ASSUME NEW h \in Handlers, HandlerStep(h) PROVE FailedUnknown(a)'
  BY <1>0, <1>3 DEF HandlerStep, CreatePost, CreateApproval, CreateSpawn, ApproveRequest,
              ApproveLoad, RejectRequest
<1>4. ASSUME NEW h \in Handlers, ExecMark(h) \/ ExecRun(h) \/ ExecHistory(h)
      PROVE  FailedUnknown(a)'
  BY <1>0, <1>4 DEF ExecMark, ExecRun, ExecHistory, SetStatus
<1>5. ASSUME NEW h \in Handlers, ExecRecord(h) PROVE FailedUnknown(a)'
  BY <1>0, <1>5 DEF ExecRecord, SetStatus, Known
<1>6. CASE Crash \/ UNCHANGED vars
  BY <1>0, <1>6 DEF Crash, vars
<1>7. QED
  BY <1>1, <1>2, <1>3, <1>4, <1>5, <1>6 DEF Next, Request, ExecutorStep

LEMMA RunStep ==
  ASSUME TypeOK, Control, GateInv, EarnedInv, [Next]_vars, NEW h \in Handlers
  PROVE  HasRun(h)'
<1> USE DEF TypeOK, HasRun, Known
<1>0. HasRun(h)
  BY DEF EarnedInv
<1>t. executor[h].pc # "none" =>
        /\ executor'[h].action = executor[h].action
        /\ action_type'[executor[h].action] = action_type[executor[h].action]
  BY RequestsAreStable, RowsAreStable, ExecutorsHaveRows
<1>1. ASSUME executor'[h].pc = executor[h].pc, ran \subseteq ran' PROVE HasRun(h)'
  BY <1>0, <1>1, <1>t
<1>2. ASSUME NEW g \in Handlers, Request(g) PROVE HasRun(h)'
  BY <1>1, <1>2 DEF Request, CreateInsert, ApproveAction, RejectAction, SlackInteraction
<1>3. ASSUME NEW g \in Handlers, HandlerStep(g) PROVE HasRun(h)'
  <2>1. ran' = ran
    BY <1>3 DEF HandlerStep, CreatePost, CreateApproval, CreateSpawn, ApproveRequest,
                ApproveLoad, RejectRequest
  <2>2. executor'[h].pc \in {executor[h].pc, "mark"}
    BY <1>3 DEF HandlerStep, CreatePost, CreateApproval, CreateSpawn, ApproveRequest,
                ApproveLoad, RejectRequest, Spawn
  <2>3. QED
    BY <1>1, <2>1, <2>2
<1>4. ASSUME NEW g \in Handlers, g # h, ExecutorStep(g) PROVE HasRun(h)'
  BY <1>1, <1>4 DEF ExecutorStep, ExecMark, ExecRun, ExecRecord, ExecHistory, ExecGoto
<1>5. ASSUME ExecutorStep(h) PROVE HasRun(h)'
  <2>1. CASE ExecMark(h)
    BY <2>1 DEF ExecMark, ExecGoto
  <2>2. CASE ExecRun(h)
    BY <1>t, <2>2 DEF ExecRun, ExecGoto, At
  <2>3. CASE ExecRecord(h)
    BY <1>0, <1>t, <2>3 DEF ExecRecord, ExecGoto, At
  <2>4. CASE ExecHistory(h)
    BY <2>4 DEF ExecHistory, ExecGoto
  <2>5. QED
    BY <1>5, <2>1, <2>2, <2>3, <2>4 DEF ExecutorStep
<1>6. CASE Crash
  BY <1>1, <1>6 DEF Crash
<1>7. CASE UNCHANGED vars
  BY <1>1, <1>7 DEF vars
<1>8. QED
  BY <1>2, <1>3, <1>4, <1>5, <1>6, <1>7 DEF Next

LEMMA EarnedStep ==
  ASSUME TypeOK, Control, GateInv, EarnedInv, [Next]_vars
  PROVE  EarnedInv'
<1>1. ran \subseteq ran'
  BY DEF Next, vars, Request, CreateInsert, ApproveAction, RejectAction, SlackInteraction,
         HandlerStep, CreatePost, CreateApproval, CreateSpawn, ApproveRequest, ApproveLoad,
         RejectRequest, ExecutorStep, ExecMark, ExecRun, ExecRecord, ExecHistory, Crash
<1>2. ASSUME NEW r \in history PROVE Earned(r)'
  <2>1. r.action \in Actions /\ r.executor \in Handlers
    BY DEF TypeOK
  <2>2. Earned(r)
    BY DEF EarnedInv
  <2>3. QED
    BY <1>1, <2>1, <2>2, RequestsAreStable, RowsAreStable DEF Earned
<1>3. ASSUME NEW h \in Handlers, ExecHistory(h), NEW r \in history', r \notin history
      PROVE  Earned(r)'
  <2>1. executor[h].pc = "history" /\ ran' = ran /\ Known(h) /\ h \in ran
    BY <1>3 DEF ExecHistory, At, EarnedInv, HasRun
  <2>2. executor[h].action \in Actions /\ Present(executor[h].action)
    BY <2>1, ExecutorsHaveRows
  <2>3. r.executor = h /\ r.action = executor[h].action
    BY <1>3 DEF ExecHistory
  <2>4. QED
    BY <2>1, <2>2, <2>3, RequestsAreStable, RowsAreStable DEF Earned, Known
<1>4. history' = history \/ \E h \in Handlers : ExecHistory(h)
  BY DEF Next, vars, Request, CreateInsert, ApproveAction, RejectAction, SlackInteraction,
         HandlerStep, CreatePost, CreateApproval, CreateSpawn, ApproveRequest, ApproveLoad,
         RejectRequest, ExecutorStep, ExecMark, ExecRun, ExecRecord, Crash
<1>5. \A r \in history' : Earned(r)'
  BY <1>2, <1>3, <1>4
<1>6. QED
  BY <1>5, FailedStep, RunStep DEF EarnedInv

LEMMA EarnedInvariant == Spec => []EarnedInv
<1>1. Init => EarnedInv
  BY DEF Init, EarnedInv, FailedUnknown, HasRun, NoExecutor
<1>2. QED
  BY <1>1, EarnedStep, TypeCorrect, GateInvariant, PTL DEF Spec

\* The history, which the executive dashboard counts as resolved risks, holds
\* only executions that called their operation, for the executor's own action,
\* and never one of a failed action: executeRemediationAction writes it last.
THEOREM HistoryEarned == Spec => []HistoryIsEarned
<1>1. TypeOK /\ EarnedInv => HistoryIsEarned
  <2> SUFFICES ASSUME TypeOK, EarnedInv, NEW r \in history
               PROVE  /\ r.executor \in ran
                      /\ executor[r.executor].action = r.action
                      /\ status[r.action] \notin {"absent", "failed"}
    BY DEF HistoryIsEarned
  <2>1. Earned(r) /\ r.action \in Actions
    BY DEF EarnedInv, TypeOK
  <2>2. FailedUnknown(r.action)
    BY <2>1 DEF EarnedInv
  <2>3. QED
    BY <2>1, <2>2 DEF Earned, Present, FailedUnknown
<1>2. QED
  BY <1>1, EarnedInvariant, TypeCorrect, PTL

-----------------------------------------------------------------------------
\* Without faults, a row that is not settled is in someone's hands.
Working(a, pcs) == \E h \in Handlers : executor[h].action = a /\ executor[h].pc \in pcs
Serving(a, op, pcs) ==
  \E h \in Handlers : handler[h].action = a /\ handler[h].op = op /\ handler[h].pc \in pcs
Logged(a) == \E r \in history : r.action = a

RunningHasExecutor(a) == status[a] = "executing" => Working(a, {"run", "record"})
ExecutedIsLogged(a)   == status[a] = "executed" => Logged(a) \/ Working(a, {"history"})
LoggedIsExecuted(a)   ==
  Logged(a) \/ Working(a, {"history"}) => status[a] \in {"executing", "executed"}
UngatedIsServed(a)    ==
  status[a] \notin Terminal \cup {"absent"} /\ ~needsApproval[a] =>
    Serving(a, "create", {"dispatch"}) \/ Working(a, {"mark", "run", "record"})
ApprovedIsServed(a)   ==
  status[a] = "approved" => \/ approved_by[a] = "slack"
                            \/ Serving(a, "approve", {"approval", "load"})
                            \/ Working(a, {"mark"})

SettleOf(a) == /\ RunningHasExecutor(a) /\ ExecutedIsLogged(a) /\ LoggedIsExecuted(a)
               /\ UngatedIsServed(a) /\ ApprovedIsServed(a)

SettleInv == faults = 0 => \A a \in Actions : SettleOf(a)

LEMMA FaultsCount ==
  ASSUME TypeOK, [Next]_vars, faults' = 0
  PROVE  faults = 0 /\ ~Crash
BY DEF TypeOK, Next, vars, Request, CreateInsert, ApproveAction, RejectAction,
       SlackInteraction, HandlerStep, CreatePost, CreateApproval, CreateSpawn,
       ApproveRequest, ApproveLoad, RejectRequest, ExecutorStep, ExecMark, ExecRun,
       ExecRecord, ExecHistory, Crash, Charge

LEMMA NoFaultOk ==
  ASSUME TypeOK, NEW o \in Outcomes, Charge(o), faults' = 0
  PROVE  o = "ok"
BY DEF TypeOK, Charge

\* The first statement of a request.
LEMMA SettleRequest ==
  ASSUME TypeOK, Control, faults' = 0, NEW a \in Actions, SettleOf(a),
         NEW h \in Handlers, Request(h)
  PROVE  SettleOf(a)'
<1> USE DEF TypeOK, Working, Serving, Logged, Terminal
<1> DEFINE Kept == /\ RunningHasExecutor(a) /\ ExecutedIsLogged(a) /\ LoggedIsExecuted(a)
                   /\ UngatedIsServed(a) /\ ApprovedIsServed(a)
<1>0. Kept
  BY DEF SettleOf
<1>1. handler[h].pc = "idle" /\ executor' = executor /\ history' = history
  BY DEF Request, CreateInsert, ApproveAction, RejectAction, SlackInteraction, Begin
<1>2. \A g \in Handlers : g # h => handler'[g] = handler[g]
  BY DEF Request, CreateInsert, ApproveAction, RejectAction, SlackInteraction, Begin
<1>3. ASSUME NEW op \in Ops, NEW pcs, "idle" \notin pcs, Serving(a, op, pcs)
      PROVE  Serving(a, op, pcs)'
  BY <1>1, <1>2, <1>3
<1>4. Serving(a, "create", {"dispatch"}) => Serving(a, "create", {"dispatch"})'
  BY <1>3 DEF Ops
<1>5. Serving(a, "approve", {"approval", "load"}) => Serving(a, "approve", {"approval", "load"})'
  BY <1>3 DEF Ops
<1>6. \A pcs : Working(a, pcs) = Working(a, pcs)'
  BY <1>1
<1>7. Logged(a)' = Logged(a)
  BY <1>1
<1> USE DEF RunningHasExecutor, ExecutedIsLogged, LoggedIsExecuted, UngatedIsServed,
            ApprovedIsServed
<1>8. CASE CreateInsert(h)
  <2>1. PICK b \in Actions :
          /\ status[b] = "absent"
          /\ Begin(h, "create", b, "dispatch")
          /\ status' = [status EXCEPT ![b] = "pending"]
          /\ UNCHANGED approved_by
          /\ \A c \in Actions : c # b => needsApproval'[c] = needsApproval[c]
    <3>1. PICK b \in Actions, o \in Outcomes, needs \in BOOLEAN :
            /\ status[b] = "absent"
            /\ Begin(h, "create", b, IF Returned(o) THEN "dispatch" ELSE "done")
            /\ status' = IF Applied(o) THEN [status EXCEPT ![b] = "pending"] ELSE status
            /\ needsApproval' =
                 IF Applied(o) THEN [needsApproval EXCEPT ![b] = needs] ELSE needsApproval
            /\ Charge(o) /\ UNCHANGED approved_by
      BY <1>8 DEF CreateInsert
    <3>2. o = "ok"
      BY <3>1, NoFaultOk
    <3>3. QED
      BY <3>1, <3>2 DEF Returned, Applied
  <2>2. CASE a = b
    <3>1. Serving(a, "create", {"dispatch"})'
      BY <2>1, <2>2 DEF Begin
    <3>2. status[a] = "absent" /\ status'[a] = "pending"
      BY <2>1, <2>2
    <3>3. QED
      BY <1>0, <1>6, <1>7, <3>1, <3>2 DEF SettleOf
  <2>3. CASE a # b
    BY <1>0, <1>4, <1>5, <1>6, <1>7, <2>1, <2>3 DEF SettleOf
  <2>4. QED
    BY <2>2, <2>3
<1>9. ASSUME NEW b \in Actions, NEW d \in Decisions, Decide(b, d, "ok"),
             UNCHANGED needsApproval,
             \A c \in Actions : approved_by'[c] = approved_by[c] \/ status[c] = "pending",
             status[a] = "pending" /\ status'[a] = "approved" =>
               approved_by'[a] = "slack" \/ Serving(a, "approve", {"approval", "load"})'
      PROVE  SettleOf(a)'
  <2>1. \/ status'[a] = status[a]
        \/ status[a] = "pending" /\ status'[a] \in Decisions
    BY <1>9 DEF Decide, Applied
  <2>2. CASE status'[a] = status[a]
    BY <1>0, <1>4, <1>5, <1>6, <1>7, <1>9, <2>2 DEF SettleOf
  <2>3. CASE status[a] = "pending" /\ status'[a] \in Decisions
    BY <1>0, <1>4, <1>6, <1>7, <1>9, <2>3 DEF SettleOf, Decisions
  <2>4. QED
    BY <2>1, <2>2, <2>3
<1>10. CASE ApproveAction(h)
  <2>1. PICK b \in Actions, o \in Outcomes :
          /\ Begin(h, "approve", b, IF Returned(o) THEN "approval" ELSE "done")
          /\ Decide(b, "approved", o) /\ Credit(b, "api", o) /\ Charge(o)
          /\ UNCHANGED needsApproval
    BY <1>10 DEF ApproveAction
  <2>2. o = "ok"
    BY <2>1, NoFaultOk
  <2>3. status'[a] # status[a] => a = b
    BY <2>1 DEF Decide
  <2>4. a = b => Serving(a, "approve", {"approval", "load"})'
    BY <2>1, <2>2 DEF Begin, Returned
  <2>5. \A c \in Actions : approved_by'[c] = approved_by[c] \/ status[c] = "pending"
    BY <2>1 DEF Credit
  <2>6. QED
    BY <1>9, <2>1, <2>2, <2>3, <2>4, <2>5 DEF Decisions
<1>11. CASE RejectAction(h)
  <2>1. PICK b \in Actions, o \in Outcomes :
          /\ Decide(b, "rejected", o) /\ Charge(o) /\ UNCHANGED <<needsApproval, approved_by>>
    BY <1>11 DEF RejectAction
  <2>2. o = "ok"
    BY <2>1, NoFaultOk
  <2>3. ~(status[a] = "pending" /\ status'[a] = "approved")
    BY <2>1 DEF Decide
  <2>4. QED
    BY <1>9, <2>1, <2>2, <2>3 DEF Decisions
<1>12. CASE SlackInteraction(h)
  <2>1. PICK b \in slackMessages, d \in Decisions, o \in Outcomes :
          /\ Decide(b, d, o) /\ Charge(o) /\ UNCHANGED needsApproval
          /\ IF d = "approved" THEN Credit(b, "slack", o) ELSE UNCHANGED approved_by
    BY <1>12 DEF SlackInteraction
  <2>2. o = "ok" /\ b \in Actions
    BY <2>1, NoFaultOk
  <2>3. status[a] = "pending" /\ status'[a] = "approved" => a = b /\ d = "approved"
    BY <2>1 DEF Decide
  <2>4. status[a] = "pending" /\ status'[a] = "approved" => approved_by'[a] = "slack"
    BY <2>1, <2>2, <2>3 DEF Credit, Applied
  <2>5. \A c \in Actions : approved_by'[c] = approved_by[c] \/ status[c] = "pending"
    BY <2>1 DEF Credit
  <2>6. QED
    BY <1>9, <2>1, <2>2, <2>4, <2>5
<1>13. QED
  BY <1>8, <1>10, <1>11, <1>12 DEF Request

\* The later statements of a request.
LEMMA SettleHandler ==
  ASSUME TypeOK, Control, GateInv, faults' = 0, NEW a \in Actions, SettleOf(a),
         NEW h \in Handlers, HandlerStep(h)
  PROVE  SettleOf(a)'
<1> USE DEF TypeOK, Working, Serving, Logged, rows
<1>0. status' = status /\ approved_by' = approved_by /\ needsApproval' = needsApproval
      /\ history' = history
  BY DEF HandlerStep, CreatePost, CreateApproval, CreateSpawn, ApproveRequest, ApproveLoad,
         RejectRequest
<1>1. \A g \in Handlers : g # h => handler'[g] = handler[g] /\ executor'[g] = executor[g]
  BY DEF HandlerStep, CreatePost, CreateApproval, CreateSpawn, ApproveRequest, ApproveLoad,
         RejectRequest, Goto, Spawn
<1>2. executor[h].pc = "none"
  BY DEF HandlerStep, CreatePost, CreateApproval, CreateSpawn, ApproveRequest, ApproveLoad,
         RejectRequest, Control
<1>3. executor'[h].pc \in {"none", "mark"}
  BY <1>2 DEF HandlerStep, CreatePost, CreateApproval, CreateSpawn, ApproveRequest,
              ApproveLoad, RejectRequest, Spawn
<1>4. ASSUME NEW pcs, "none" \notin pcs, Working(a, pcs) PROVE Working(a, pcs)'
  BY <1>1, <1>2, <1>4
<1>5. Working(a, {"history"})' => Working(a, {"history"})
  BY <1>1, <1>3
<1>6. /\ Working(a, {"run", "record"}) => Working(a, {"run", "record"})'
      /\ Working(a, {"history"}) => Working(a, {"history"})'
      /\ Working(a, {"mark"}) => Working(a, {"mark"})'
      /\ Working(a, {"mark", "run", "record"}) => Working(a, {"mark", "run", "record"})'
  BY <1>4
<1>7. RunningHasExecutor(a)' /\ ExecutedIsLogged(a)' /\ LoggedIsExecuted(a)'
  BY <1>0, <1>5, <1>6 DEF SettleOf, RunningHasExecutor, ExecutedIsLogged, LoggedIsExecuted
<1>8. UngatedIsServed(a)'
  <2> SUFFICES ASSUME ~needsApproval[a], Serving(a, "create", {"dispatch"})
               PROVE  \/ Serving(a, "create", {"dispatch"})'
                      \/ Working(a, {"mark", "run", "record"})'
    BY <1>0, <1>6 DEF SettleOf, UngatedIsServed
  <2>1. PICK g \in Handlers :
          handler[g].action = a /\ handler[g].op = "create" /\ handler[g].pc = "dispatch"
    OBVIOUS
  <2>2. CASE g # h
    BY <1>1, <2>1, <2>2
  <2>3. CASE g = h
    <3>1. CreateSpawn(h)
      BY <2>1, <2>3 DEF HandlerStep, CreatePost, CreateApproval, ApproveRequest, ApproveLoad,
                        RejectRequest
    <3>2. executor'[h].pc = "mark" /\ executor'[h].action = a
      BY <2>1, <2>3, <3>1 DEF CreateSpawn, Spawn
    <3>3. QED
      BY <3>2
  <2>4. QED
    BY <2>2, <2>3
<1>9. ApprovedIsServed(a)'
  <2> SUFFICES ASSUME status[a] = "approved", Serving(a, "approve", {"approval", "load"})
               PROVE  Serving(a, "approve", {"approval", "load"})' \/ Working(a, {"mark"})'
    BY <1>0, <1>6 DEF SettleOf, ApprovedIsServed
  <2>1. PICK g \in Handlers : /\ handler[g].action = a /\ handler[g].op = "approve"
                              /\ handler[g].pc \in {"approval", "load"}
    OBVIOUS
  <2>2. CASE g # h
    BY <1>1, <2>1, <2>2
  <2>3. CASE g = h /\ handler[g].pc = "approval"
    <3>1. handler'[h] = [handler[h] EXCEPT !.pc = "load"]
      BY <2>1, <2>3 DEF HandlerStep, CreatePost, CreateApproval, CreateSpawn, ApproveRequest,
                        ApproveLoad, RejectRequest, Goto
    <3>2. handler'[h].action = a /\ handler'[h].op = "approve" /\ handler'[h].pc = "load"
      BY <2>1, <2>3, <3>1
    <3>3. QED
      BY <3>2
  <2>4. CASE g = h /\ handler[g].pc = "load"
    <3>1. PICK o \in {"ok", "error"} :
            /\ IF Returned(o) /\ status[handler[h].action] # "absent"
                 THEN Spawn(h) ELSE UNCHANGED executor
            /\ Charge(o)
      BY <2>1, <2>4 DEF HandlerStep, CreatePost, CreateApproval, CreateSpawn, ApproveRequest,
                        ApproveLoad, RejectRequest
    <3>2. o = "ok"
      BY <3>1, NoFaultOk DEF Outcomes
    <3>3. executor'[h].pc = "mark" /\ executor'[h].action = a
      BY <2>1, <2>4, <3>1, <3>2 DEF Returned, Spawn
    <3>4. QED
      BY <3>3
  <2>5. QED
    BY <2>1, <2>2, <2>3, <2>4
<1>10. QED
  BY <1>7, <1>8, <1>9 DEF SettleOf

\* The statements of an executor.
LEMMA SettleExecutor ==
  ASSUME TypeOK, Control, GateInv, EarnedInv, faults' = 0, NEW a \in Actions, SettleOf(a),
         NEW h \in Handlers, ExecutorStep(h)
  PROVE  SettleOf(a)'
<1> USE DEF TypeOK, Working, Serving, Logged, rows
<1> DEFINE b == executor[h].action
<1>0. handler' = handler /\ approved_by' = approved_by /\ needsApproval' = needsApproval
  BY DEF ExecutorStep, ExecMark, ExecRun, ExecRecord, ExecHistory
<1>1. \A g \in Handlers : g # h => executor'[g] = executor[g]
  BY DEF ExecutorStep, ExecMark, ExecRun, ExecRecord, ExecHistory, ExecGoto
<1>2. executor'[h].action = b
  BY DEF ExecutorStep, ExecMark, ExecRun, ExecRecord, ExecHistory, ExecGoto
<1>3. \A op, pcs : Serving(a, op, pcs)' = Serving(a, op, pcs)
  BY <1>0
<1>b. b \in Actions /\ status[b] # "absent"
  BY ExecutorsHaveRows DEF ExecutorStep, ExecMark, ExecRun, ExecRecord, ExecHistory, At,
                           Present
<1>o. ASSUME b # a PROVE SettleOf(a)'
  <2>1. \A pcs : Working(a, pcs)' = Working(a, pcs)
    BY <1>1, <1>2, <1>o
  <2>2. Logged(a)' = Logged(a)
    BY <1>o DEF ExecutorStep, ExecMark, ExecRun, ExecRecord, ExecHistory
  <2>3. status'[a] = status[a]
    BY <1>o DEF ExecutorStep, ExecMark, ExecRun, ExecRecord, ExecHistory, SetStatus
  <2>4. QED
    BY <1>0, <1>3, <2>1, <2>2, <2>3
       DEF SettleOf, RunningHasExecutor, ExecutedIsLogged, LoggedIsExecuted,
           UngatedIsServed, ApprovedIsServed
<1> SUFFICES ASSUME b = a PROVE SettleOf(a)'
  BY <1>o
<1> HIDE DEF b
<1> USE DEF SettleOf, RunningHasExecutor, ExecutedIsLogged, LoggedIsExecuted,
            UngatedIsServed, ApprovedIsServed, Terminal
<1>4. CASE ExecMark(h)
  <2>1. PICK o \in Outcomes : SetStatus(h, "executing", o) /\ Charge(o)
    BY <1>4 DEF ExecMark
  <2>2. status'[a] = "executing" /\ executor'[h].pc = "run" /\ history' = history
    BY <1>4, <1>b, <2>1, NoFaultOk DEF ExecMark, SetStatus, Applied, ExecGoto, b
  <2>3. Working(a, {"run", "record"})' /\ Working(a, {"mark", "run", "record"})'
    BY <1>2, <2>2
  <2>4. QED
    BY <2>2, <2>3
<1>5. CASE ExecRun(h)
  <2>1. /\ status' = status /\ history' = history
        /\ executor[h].pc = "run" /\ executor'[h].pc = "record"
    BY <1>5 DEF ExecRun, At, ExecGoto
  <2>2. Working(a, {"run", "record"})' /\ Working(a, {"mark", "run", "record"})'
    BY <1>2, <2>1
  <2>3. /\ Working(a, {"mark"}) => Working(a, {"mark"})'
        /\ Working(a, {"history"})' <=> Working(a, {"history"})
    BY <1>1, <1>2, <2>1
  <2>4. QED
    BY <1>0, <1>3, <2>1, <2>2, <2>3
<1>6. CASE ExecRecord(h)
  <2>1. PICK o \in Outcomes :
          SetStatus(h, IF Known(h) THEN "executed" ELSE "failed", o) /\ Charge(o)
    BY <1>6 DEF ExecRecord
  <2>2. /\ status'[a] = IF Known(h) THEN "executed" ELSE "failed"
        /\ history' = history
        /\ executor[h].pc = "record"
        /\ executor'[h].pc = IF Known(h) THEN "history" ELSE "done"
    BY <1>6, <1>b, <2>1, NoFaultOk DEF ExecRecord, At, SetStatus, Applied, ExecGoto, b
  <2>3. CASE Known(h)
    BY <1>2, <2>2, <2>3
  <2>4. CASE ~Known(h)
    <3>1. action_type[a] \notin KnownTypes
      BY <2>4 DEF Known, b
    <3>2. ~Logged(a)
      BY <3>1 DEF EarnedInv, Earned
    <3>3. ~Working(a, {"history"})
      BY <3>1 DEF EarnedInv, HasRun, Known
    <3>4. ~Logged(a)' /\ ~Working(a, {"history"})'
      BY <1>1, <2>2, <2>4, <3>2, <3>3
    <3>5. QED
      BY <2>2, <2>4, <3>4
  <2>5. QED
    BY <2>3, <2>4
<1>7. CASE ExecHistory(h)
  <2>1. PICK o \in Outcomes :
          /\ history' = IF Applied(o)
               THEN history \cup {[action |-> executor[h].action, executor |-> h]} ELSE history
          /\ Charge(o)
    BY <1>7 DEF ExecHistory
  <2>2. /\ status' = status
        /\ history' = history \cup {[action |-> a, executor |-> h]}
        /\ executor[h].pc = "history" /\ executor'[h].pc = "done"
    BY <1>7, <2>1, NoFaultOk DEF ExecHistory, At, Applied, ExecGoto, b
  <2>3. Logged(a)'
    <3>1. [action |-> a, executor |-> h] \in history' /\ [action |-> a, executor |-> h].action = a
      BY <2>2
    <3>2. QED
      BY <3>1
  <2>4. Working(a, {"history"})
    BY <2>2 DEF b
  <2>5. /\ Working(a, {"run", "record"}) => Working(a, {"run", "record"})'
        /\ Working(a, {"mark"}) => Working(a, {"mark"})'
    BY <1>1, <2>2
  <2>6. status[a] \in {"executing", "executed"}
    BY <2>4
  <2>7. Working(a, {"run", "record"})' => Working(a, {"mark", "run", "record"})'
    OBVIOUS
  <2>8. QED
    BY <2>2, <2>3, <2>5, <2>6, <2>7
<1>8. QED
  BY <1>4, <1>5, <1>6, <1>7 DEF ExecutorStep

LEMMA SettleStep ==
  ASSUME TypeOK, Control, GateInv, EarnedInv, SettleInv, [Next]_vars
  PROVE  SettleInv'
<1> SUFFICES ASSUME faults' = 0, NEW a \in Actions PROVE SettleOf(a)'
  BY DEF SettleInv
<1>1. faults = 0 /\ ~Crash
  BY FaultsCount
<1>2. SettleOf(a)
  BY <1>1 DEF SettleInv
<1>3. CASE UNCHANGED vars
  BY <1>2, <1>3 DEF vars, SettleOf, RunningHasExecutor, ExecutedIsLogged, LoggedIsExecuted,
                    UngatedIsServed, ApprovedIsServed, Working, Serving, Logged
<1>4. QED
  BY <1>1, <1>2, <1>3, SettleRequest, SettleHandler, SettleExecutor DEF Next

\* Without faults, once no request and no goroutine runs, the tables agree: an
\* action is executed exactly when the history has it, none stays 'executing',
\* one that needed no approval is final, and only Slack leaves one 'approved'.
THEOREM Settled == Spec => []SettledWhenQuiet
<1>1. Init => SettleInv
  <2> SUFFICES ASSUME Init, NEW a \in Actions PROVE SettleOf(a)
    BY DEF SettleInv
  <2>1. status[a] = "absent" /\ ~Logged(a)
    BY DEF Init, Logged
  <2>2. ~Working(a, {"history"})
    BY DEF Init, Working, NoExecutor
  <2>3. QED
    BY <2>1, <2>2 DEF SettleOf, RunningHasExecutor, ExecutedIsLogged, LoggedIsExecuted,
                      UngatedIsServed, ApprovedIsServed
<1>2. TypeOK /\ SettleInv => SettledWhenQuiet
  <2> SUFFICES ASSUME TypeOK, SettleInv, Quiet, faults = 0, NEW a \in Actions
               PROVE  /\ status[a] = "executed" <=> \E r \in history : r.action = a
                      /\ status[a] # "executing"
                      /\ status[a] # "absent" /\ ~needsApproval[a] => status[a] \in Terminal
                      /\ status[a] = "approved" => approved_by[a] = "slack"
    BY DEF SettledWhenQuiet
  <2>1. SettleOf(a)
    BY DEF SettleInv
  <2>2. /\ \A pcs : pcs \subseteq {"mark", "run", "record", "history"} => ~Working(a, pcs)
        /\ ~Serving(a, "create", {"dispatch"})
        /\ ~Serving(a, "approve", {"approval", "load"})
    BY DEF Quiet, Working, Serving
  <2>3. /\ ~Working(a, {"mark"}) /\ ~Working(a, {"history"}) /\ ~Working(a, {"run", "record"})
        /\ ~Working(a, {"mark", "run", "record"})
    BY <2>2
  <2>4. QED
    BY <2>1, <2>2, <2>3 DEF SettleOf, RunningHasExecutor, ExecutedIsLogged, LoggedIsExecuted,
                            UngatedIsServed, ApprovedIsServed, Logged
<1>3. QED
  BY <1>1, <1>2, SettleStep, EarnedInvariant, TypeCorrect, GateInvariant, PTL DEF Spec

=============================================================================
