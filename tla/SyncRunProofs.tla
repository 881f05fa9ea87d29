---------------------------- MODULE SyncRunProofs ----------------------------
(***************************************************************************)
(* What the status of a finished sync run says, and the health that the    *)
(* connector page derives from it, for any number of executions of any     *)
(* connectors.                                                             *)
(***************************************************************************)
EXTENDS SyncRun, TLAPS, FiniteSetTheorems, WellFoundedInduction

Words == {"error", "warning", "silent"}

StepType == [fails  : {"fatal", "error", "warning", "never"},
             items  : SUBSET Words,
             skips  : SUBSET Words,
             always : SUBSET Words]

\* Every step of the three connectors has the shape of a step: what it loses
\* is told as an error, as a warning, or not at all.
LEMMA StepsHaveShape ==
    ASSUME NEW c \in {"okta", "sailpoint", "gcp"}, NEW i \in 1 .. Len(Sync[c])
    PROVE  Sync[c][i] \in StepType
<1>1. /\ oktaUsers \in StepType
      /\ oktaGroups \in StepType
      /\ oktaApps \in StepType
      /\ oktaRoles \in StepType
      /\ oktaAssignments \in StepType
      /\ oktaGovernance \in StepType
      /\ oktaSnapshot \in StepType
  BY DEF StepType, Words, Step, oktaUsers, oktaGroups, oktaApps, oktaRoles,
         oktaAssignments, oktaGovernance, oktaSnapshot
<1>2. /\ sailpointIdentities \in StepType
      /\ sailpointProfiles \in StepType
      /\ sailpointRoles \in StepType
      /\ sailpointEntitlements \in StepType
      /\ sailpointAccounts \in StepType
      /\ sailpointAccess \in StepType
      /\ sailpointGovernance \in StepType
      /\ sailpointSnapshot \in StepType
  BY DEF StepType, Words, Step, sailpointIdentities, sailpointProfiles,
         sailpointRoles, sailpointEntitlements, sailpointAccounts,
         sailpointAccess, sailpointGovernance, sailpointSnapshot
<1>3. /\ gcpUsers \in StepType
      /\ gcpServiceAccounts \in StepType
      /\ gcpGroups \in StepType
      /\ gcpRoles \in StepType
      /\ gcpBindings \in StepType
      /\ gcpGovernance \in StepType
      /\ gcpSnapshot \in StepType
  BY DEF StepType, Words, Step, gcpUsers, gcpServiceAccounts, gcpGroups,
         gcpRoles, gcpBindings, gcpGovernance, gcpSnapshot
<1>4. CASE c = "okta"
  <2>1. Sync[c] = <<oktaUsers, oktaGroups, oktaApps, oktaRoles,
                    oktaAssignments, oktaGovernance, oktaSnapshot>>
    BY <1>4 DEF Sync
  <2>2. i \in {1, 2, 3, 4, 5, 6, 7}
    BY <2>1
  <2> QED BY <1>1, <2>1, <2>2
<1>5. CASE c = "sailpoint"
  <2>1. Sync[c] = <<sailpointIdentities, sailpointProfiles, sailpointRoles,
                    sailpointEntitlements, sailpointAccounts,
                    sailpointAccess, sailpointGovernance, sailpointSnapshot>>
    BY <1>5 DEF Sync
  <2>2. i \in {1, 2, 3, 4, 5, 6, 7, 8}
    BY <2>1
  <2> QED BY <1>2, <2>1, <2>2
<1>6. CASE c = "gcp"
  <2>1. Sync[c] = <<gcpUsers, gcpServiceAccounts, gcpGroups, gcpRoles,
                    gcpBindings, gcpGovernance, gcpSnapshot>>
    BY <1>6 DEF Sync
  <2>2. i \in {1, 2, 3, 4, 5, 6, 7}
    BY <2>1
  <2> QED BY <1>3, <2>1, <2>2
<1> QED BY <1>4, <1>5, <1>6

\* Every connector has steps.
LEMMA SyncHasSteps ==
    ASSUME NEW c \in {"okta", "sailpoint", "gcp"}
    PROVE  Len(Sync[c]) \in Nat /\ 1 \in 1 .. Len(Sync[c])
<1>1. CASE c = "okta"      BY <1>1 DEF Sync
<1>2. CASE c = "sailpoint" BY <1>2 DEF Sync
<1>3. CASE c = "gcp"       BY <1>3 DEF Sync
<1> QED BY <1>1, <1>2, <1>3

-----------------------------------------------------------------------------
(* Types. *)

First == [connector : Connector, pc : {"idle"}, run : {0}, step : {1},
          errors : {0}, warnings : {0}, cancelled : {FALSE}]

PC == {"idle", "step", "finish", "ended", "killed"}

\* An execution that has not started has a control state.
LEMMA FirstIsControl ==
    ASSUME NEW x \in First
    PROVE  x \in Control
<1> USE DEF First
<1>1. x = [connector |-> x.connector, pc |-> x.pc, run |-> x.run,
           step |-> x.step, errors |-> x.errors, warnings |-> x.warnings,
           cancelled |-> x.cancelled]
  OBVIOUS
<1>2. /\ x.connector \in Connector /\ x.pc = "idle" /\ x.run = 0
      /\ x.step = 1 /\ x.errors = 0 /\ x.warnings = 0
  OBVIOUS
<1>3. x.cancelled = FALSE
  OBVIOUS
<1>4. x.cancelled \in BOOLEAN
  BY <1>3
<1> QED BY <1>1, <1>2, <1>4 DEF Control, Count

\* The empty tables, and executions that have not started, have their types.
THEOREM InitTypes == Init => TypeOK
<1> SUFFICES ASSUME Init PROVE TypeOK
  OBVIOUS
<1>1. process \in [Process -> Control]
  <2>1. process \in [Process -> First]
    BY DEF Init, First
  <2> QED BY <2>1, FirstIsControl
<1>2. /\ sync_runs \in Seq(Row)
      /\ missed \in Seq(SUBSET How)
      /\ Len(missed) = Len(sync_runs)
      /\ unclaimed \subseteq Process
      /\ unwritten \subseteq Process
      /\ faults \in 0 .. MaxFaults
  BY FaultsAssumption DEF Init
<1> QED BY <1>1, <1>2 DEF TypeOK

\* A fault keeps their count within its bound.
LEMMA FaultCounted ==
    ASSUME faults \in 0 .. MaxFaults, Fault
    PROVE  faults' \in 0 .. MaxFaults
BY FaultsAssumption DEF Fault

\* The updates of an execution's state that the actions make.
LEMMA MoveTyped ==
    ASSUME NEW x \in Control, NEW v \in PC
    PROVE  /\ [x EXCEPT !.pc = v] \in Control
           /\ [x EXCEPT !.pc = v].run = x.run
           /\ [x EXCEPT !.pc = v].pc = v
           /\ [x EXCEPT !.pc = v].connector = x.connector
           /\ [x EXCEPT !.pc = v].cancelled = x.cancelled
BY DEF Control, PC

\* The state an execution has when its row is inserted.
Started(x, pc, run) == [x EXCEPT !.pc = pc, !.run = run]

\* StartSyncRun gives an execution its run and leaves its position and its
\* counters alone, whether the execution hears of it or not.
LEMMA StartTyped ==
    ASSUME NEW x \in Control, NEW r \in Nat, NEW v \in PC
    PROVE  /\ Started(x, v, r) \in Control
           /\ Started(x, v, r).run = r
           /\ Started(x, v, r).pc = v
           /\ Started(x, v, r).connector = x.connector
           /\ Started(x, v, r).step = x.step
           /\ Started(x, v, r).errors = x.errors
           /\ Started(x, v, r).warnings = x.warnings
BY DEF Control, PC, Started

\* A signal changes nothing of an execution but its context.
LEMMA CancelTyped ==
    ASSUME NEW x \in Control
    PROVE  /\ [x EXCEPT !.cancelled = TRUE] \in Control
           /\ [x EXCEPT !.cancelled = TRUE].run = x.run
           /\ [x EXCEPT !.cancelled = TRUE].pc = x.pc
           /\ [x EXCEPT !.cancelled = TRUE].connector = x.connector
           /\ [x EXCEPT !.cancelled = TRUE].step = x.step
           /\ [x EXCEPT !.cancelled = TRUE].errors = x.errors
           /\ [x EXCEPT !.cancelled = TRUE].warnings = x.warnings
           /\ [x EXCEPT !.cancelled = TRUE].cancelled = TRUE
BY DEF Control

\* The state an execution has after a step: i is the next one.
Stepped(x, pc, i, errors, warnings) ==
    [x EXCEPT !.pc = pc, !.step = i, !.errors = errors, !.warnings = warnings]

\* Such a state is a control state of the same run of the same connector.
LEMMA SteppedTyped ==
    ASSUME NEW x \in Control, NEW v \in PC, NEW i \in Nat,
           NEW e \in Count, NEW w \in Count
    PROVE  /\ Stepped(x, v, i, e, w) \in Control
           /\ Stepped(x, v, i, e, w).run = x.run
           /\ Stepped(x, v, i, e, w).pc = v
           /\ Stepped(x, v, i, e, w).connector = x.connector
           /\ Stepped(x, v, i, e, w).step = i
           /\ Stepped(x, v, i, e, w).errors = e
           /\ Stepped(x, v, i, e, w).warnings = w
           /\ Stepped(x, v, i, e, w).cancelled = x.cancelled
BY DEF Control, PC, Stepped

-----------------------------------------------------------------------------
(* The inductive invariant. *)

Running(p) == process[p].pc \in {"step", "finish"}

\* An execution that runs has an open row of its own.
Owned(p) ==
    /\ process[p].run \in 0 .. Len(sync_runs)
    /\ process[p].pc = "idle" => /\ process[p].run = 0 /\ process[p].step = 1
                                 /\ process[p].errors = 0 /\ process[p].warnings = 0
    /\ Running(p) => process[p].run # 0 /\ IsOpen(process[p].run)
    /\ process[p].pc = "step" => process[p].step \in 1 .. Len(Sync[Of(p)])

Unshared(p, q) == p # q /\ process[p].run # 0 => process[p].run # process[q].run

\* While it runs, its counters tell what its run has missed so far.
Counted(p) ==
    Running(p) =>
        LET m == missed[process[p].run] IN
        /\ process[p].errors = 0 => m \subseteq {"warning", "silent"}
        /\ process[p].errors # 0 => m \intersect {"error", "fatal"} # {}
        /\ process[p].warnings = 0 => "warning" \notin m

RowTrue(r) ==
    /\ sync_runs[r].status = "success" => missed[r] \subseteq {"warning", "silent"}
    /\ sync_runs[r].status = "partial" => missed[r] \intersect {"error", "fatal"} # {}
    /\ ~IsOpen(r) /\ sync_runs[r].warning_count = 0 => "warning" \notin missed[r]

Explained(p) ==
    process[p].run # 0 /\ ~Alive(p) /\ IsOpen(process[p].run)
    => MayStayOpen(p)

IInv == /\ TypeOK
        /\ \A p \in Process : Owned(p)
        /\ \A p, q \in Process : Unshared(p, q)
        /\ \A p \in Process : Counted(p)
        /\ \A r \in DOMAIN sync_runs : RowTrue(r)
        /\ \A p \in Process : Explained(p)

\* Nothing has started: there is no run to own, to count or to explain.
THEOREM InitInv == Init => IInv
<1> SUFFICES ASSUME Init PROVE IInv
  OBVIOUS
<1>1. TypeOK
  BY InitTypes
<1>2. \A p \in Process : process[p] \in First
  BY DEF Init, First
<1>3. \A p \in Process : /\ process[p].pc = "idle" /\ process[p].run = 0
                         /\ process[p].step = 1 /\ process[p].errors = 0
                         /\ process[p].warnings = 0
  BY <1>2 DEF First
<1>4. Len(sync_runs) = 0 /\ DOMAIN sync_runs = {}
  BY DEF Init
<1>5. \A p \in Process : Owned(p)
  BY <1>3, <1>4 DEF Owned, Running
<1>6. \A p, q \in Process : Unshared(p, q)
  BY <1>3 DEF Unshared
<1>7. \A p \in Process : Counted(p) /\ Explained(p)
  BY <1>3 DEF Counted, Running, Explained, MayStayOpen
<1> QED BY <1>1, <1>4, <1>5, <1>6, <1>7 DEF IInv

\* A step of p that leaves the tables alone and either ends p, or leaves p
\* where it was, keeps the invariant if it explains an open row.
LEMMA QuietStep ==
    ASSUME IInv, NEW p \in Process, NEW n \in Control,
           process' = [process EXCEPT ![p] = n],
           sync_runs' = sync_runs, missed' = missed,
           unclaimed' = unclaimed,
           unwritten' = unwritten \/ unwritten' = unwritten \union {p},
           faults' \in 0 .. MaxFaults,
           n.run = process[p].run, n.connector = process[p].connector,
           n.cancelled = process[p].cancelled \/ n.cancelled,
           \/ n.pc \in {"ended", "killed"}
           \/ /\ n.pc = process[p].pc /\ n.step = process[p].step
              /\ n.errors = process[p].errors /\ n.warnings = process[p].warnings,
           Explained(p)'
    PROVE  IInv'
<1> USE DEF IInv
<1>1. TypeOK'
  BY DEF TypeOK
<1>2. /\ process'[p] = n
      /\ \A q \in Process : q # p => process'[q] = process[q]
  BY DEF TypeOK
<1>3. \A q \in Process : process'[q].run = process[q].run
  BY <1>2
<1>4. \A q \in Process : Owned(q)'
  <2> TAKE q \in Process
  <2>1. CASE q # p
    BY <2>1, <1>2 DEF Owned, Running, IsOpen, Of
  <2>2. CASE q = p
    BY <2>2, <1>2 DEF Owned, Running, IsOpen, Of
  <2> QED BY <2>1, <2>2
<1>5. \A q, r \in Process : Unshared(q, r)'
  BY <1>3 DEF Unshared
<1>6. \A q \in Process : Counted(q)'
  <2> TAKE q \in Process
  <2>1. CASE q # p
    BY <2>1, <1>2 DEF Counted, Running
  <2>2. CASE q = p
    BY <2>2, <1>2 DEF Counted, Running
  <2> QED BY <2>1, <2>2
<1>7. \A r \in DOMAIN sync_runs' : RowTrue(r)'
  BY DEF RowTrue, IsOpen
<1>8. \A q \in Process : Explained(q)'
  <2> TAKE q \in Process
  <2>1. CASE q # p
    BY <2>1, <1>2 DEF Explained, MayStayOpen, Alive, IsOpen, Of
  <2> QED BY <2>1
<1> QED BY <1>1, <1>4, <1>5, <1>6, <1>7, <1>8

\* A StartSyncRun that fails leaves no row, so there is nothing to explain.
LEMMA StartFailsStep ==
    ASSUME IInv, NEW p \in Process, StartFails(p)
    PROVE  IInv'
<1> DEFINE n == [process[p] EXCEPT !.pc = "ended"]
<1>1. process[p] \in Control
  BY DEF IInv, TypeOK
<1>2. /\ n \in Control /\ n.run = process[p].run /\ n.pc = "ended"
      /\ n.connector = process[p].connector /\ n.cancelled = process[p].cancelled
  BY <1>1, MoveTyped DEF PC
<1>3. process' = [process EXCEPT ![p] = n]
  BY DEF StartFails
<1>4. faults' \in 0 .. MaxFaults
  BY FaultCounted DEF StartFails, IInv, TypeOK
<1>5. process'[p] = n
  BY <1>3 DEF IInv, TypeOK
<1>6. process[p].run = 0
  BY DEF StartFails, IInv, Owned
<1> HIDE DEF n
<1>7. Explained(p)'
  BY <1>2, <1>5, <1>6 DEF Explained, MayStayOpen
<1> QED BY <1>2, <1>3, <1>4, <1>7, QuietStep DEF StartFails

\* A final UPDATE that fails leaves an open row, and is the cause of it.
LEMMA FinishFailsStep ==
    ASSUME IInv, NEW p \in Process, FinishFails(p)
    PROVE  IInv'
<1> DEFINE n == [process[p] EXCEPT !.pc = "ended"]
<1>1. process[p] \in Control
  BY DEF IInv, TypeOK
<1>2. /\ n \in Control /\ n.run = process[p].run /\ n.pc = "ended"
      /\ n.connector = process[p].connector /\ n.cancelled = process[p].cancelled
  BY <1>1, MoveTyped DEF PC
<1>3. process' = [process EXCEPT ![p] = n]
  BY DEF FinishFails
<1>4. faults' \in 0 .. MaxFaults
  BY FaultCounted DEF FinishFails, IInv, TypeOK
<1> HIDE DEF n
<1>5. Explained(p)'
  BY DEF Explained, MayStayOpen, FinishFails
<1> QED BY <1>2, <1>3, <1>4, <1>5, QuietStep DEF FinishFails

\* A signal explains the open row of an execution that ends without closing it.
LEMMA SignalStep ==
    ASSUME IInv, NEW p \in Process, Signal(p)
    PROVE  IInv'
<1> DEFINE n == [process[p] EXCEPT !.cancelled = TRUE]
<1>1. process[p] \in Control
  BY DEF IInv, TypeOK
<1>2. /\ n \in Control /\ n.run = process[p].run /\ n.pc = process[p].pc
      /\ n.connector = process[p].connector /\ n.step = process[p].step
      /\ n.errors = process[p].errors /\ n.warnings = process[p].warnings
      /\ n.cancelled
  BY <1>1, CancelTyped
<1>3. process' = [process EXCEPT ![p] = n]
  BY DEF Signal
<1>4. faults' \in 0 .. MaxFaults
  BY FaultCounted DEF Signal, IInv, TypeOK
<1>5. process'[p] = n
  BY <1>3 DEF IInv, TypeOK
<1> HIDE DEF n
<1>6. Explained(p)'
  BY <1>2, <1>5 DEF Explained, MayStayOpen
<1> QED BY <1>2, <1>3, <1>4, <1>6, QuietStep DEF Signal

\* A crash explains the open row it leaves.
LEMMA KillStep ==
    ASSUME IInv, NEW p \in Process, Kill(p)
    PROVE  IInv'
<1> DEFINE n == [process[p] EXCEPT !.pc = "killed"]
<1>1. process[p] \in Control
  BY DEF IInv, TypeOK
<1>2. /\ n \in Control /\ n.run = process[p].run /\ n.pc = "killed"
      /\ n.connector = process[p].connector /\ n.cancelled = process[p].cancelled
  BY <1>1, MoveTyped DEF PC
<1>3. process' = [process EXCEPT ![p] = n]
  BY DEF Kill
<1>4. faults' \in 0 .. MaxFaults
  BY FaultCounted DEF Kill, IInv, TypeOK
<1>5. process'[p] = n
  BY <1>3 DEF IInv, TypeOK
<1> HIDE DEF n
<1>6. Explained(p)'
  BY <1>2, <1>5 DEF Explained, MayStayOpen
<1> QED BY <1>2, <1>3, <1>4, <1>6, QuietStep DEF Kill

\* StartSyncRun adds an open row that no other execution owns, of which
\* nothing is missed yet; if its execution ends at once, that is explained.
LEMMA InsertedStep ==
    ASSUME IInv, NEW p \in Process, process[p].pc = "idle",
           NEW v \in {"step", "ended"}, Inserted(p, v),
           \/ v = "step" /\ unclaimed' = unclaimed
           \/ v = "ended" /\ unclaimed' = unclaimed \union {p},
           unwritten' = unwritten, faults' \in 0 .. MaxFaults
    PROVE  IInv'
<1> DEFINE k == Len(sync_runs) + 1
           row == [connector |-> Of(p), status |-> "running",
                   error_count |-> 0, warning_count |-> 0]
           n == Started(process[p], v, k)
<1>1. /\ process[p] \in Control /\ process \in [Process -> Control]
      /\ sync_runs \in Seq(Row) /\ missed \in Seq(SUBSET How)
      /\ Len(sync_runs) \in Nat /\ Len(missed) = Len(sync_runs) /\ k \in Nat
  BY DEF IInv, TypeOK
<1>2. /\ n \in Control /\ n.run = k /\ n.pc = v
      /\ n.connector = process[p].connector /\ n.step = process[p].step
      /\ n.errors = process[p].errors /\ n.warnings = process[p].warnings
  <2>1. v \in PC
    BY DEF PC
  <2> QED BY <1>1, <2>1, StartTyped
<1>3. /\ process' = [process EXCEPT ![p] = n]
      /\ sync_runs' = Append(sync_runs, row) /\ missed' = Append(missed, {})
      /\ unclaimed \subseteq unclaimed' /\ unclaimed' \subseteq Process
      /\ v = "ended" => p \in unclaimed'
  BY DEF Inserted, Started, IInv, TypeOK
<1>4. row \in Row /\ row.status = "running"
  <2>1. Of(p) \in Connector
    BY <1>1 DEF Of, Control
  <2> QED BY <2>1 DEF Row, Status, Count
<1> HIDE DEF n, row
<1>5. /\ sync_runs' \in Seq(Row) /\ Len(sync_runs') = k
      /\ \A r \in 1 .. Len(sync_runs) : sync_runs'[r] = sync_runs[r]
      /\ sync_runs'[k] = row
  BY <1>1, <1>3, <1>4
<1>6. /\ missed' \in Seq(SUBSET How) /\ Len(missed') = k
      /\ \A r \in 1 .. Len(sync_runs) : missed'[r] = missed[r]
      /\ missed'[k] = {}
  BY <1>1, <1>3
<1>7. /\ process'[p] = n
      /\ \A q \in Process : q # p => process'[q] = process[q]
      /\ process' \in [Process -> Control]
  BY <1>1, <1>2, <1>3
<1>8. TypeOK'
  BY <1>3, <1>5, <1>6, <1>7 DEF TypeOK, IInv
<1>9. \A q \in Process : Owned(q) /\ process[q].run \in 0 .. Len(sync_runs)
  BY DEF IInv, Owned
<1>10. process[p].step = 1 /\ process[p].errors = 0 /\ process[p].warnings = 0
  BY <1>9 DEF Owned
<1>11. \A q \in Process : Owned(q)'
  <2> TAKE q \in Process
  <2>1. CASE q # p
    BY <2>1, <1>1, <1>5, <1>7, <1>9 DEF Owned, Running, IsOpen, Of
  <2>2. CASE q = p
    <3>1. 1 \in 1 .. Len(Sync[Of(p)'])
      <4>1. Of(p)' \in {"okta", "sailpoint", "gcp"}
        BY <1>2, <1>7, ConnectorAssumption DEF Of, Control
      <4> QED BY <4>1, SyncHasSteps
    <3>2. sync_runs'[process'[p].run].status = "running"
      BY <1>2, <1>4, <1>5, <1>7
    <3>3. process'[p].step = 1 /\ process'[p].pc = v /\ process'[p].run = k
      BY <1>2, <1>7, <1>10
    <3>4. k \in 0 .. Len(sync_runs') /\ k # 0
      BY <1>1, <1>5
    <3> HIDE DEF k
    <3> QED BY <2>2, <3>1, <3>2, <3>3, <3>4 DEF Owned, Running, IsOpen, Of
  <2> QED BY <2>1, <2>2
<1>12. \A q, r \in Process : Unshared(q, r)'
  <2> TAKE q, r \in Process
  <2>1. CASE q = p /\ r # p
    BY <2>1, <1>1, <1>2, <1>7, <1>9 DEF Unshared
  <2>2. CASE q # p /\ r = p
    BY <2>2, <1>1, <1>2, <1>7, <1>9 DEF Unshared
  <2>3. CASE q # p /\ r # p
    BY <2>3, <1>7 DEF Unshared, IInv
  <2> QED BY <2>1, <2>2, <2>3 DEF Unshared
<1>13. \A q \in Process : Counted(q)'
  <2> TAKE q \in Process
  <2>1. CASE q # p
    <3>1. Running(q) => missed'[process[q].run] = missed[process[q].run]
      BY <1>1, <1>6, <1>9 DEF Owned
    <3> QED BY <2>1, <3>1, <1>7 DEF Counted, Running, IInv
  <2>2. CASE q = p
    BY <2>2, <1>2, <1>6, <1>7, <1>10 DEF Counted
  <2> QED BY <2>1, <2>2
<1>14. \A r \in DOMAIN sync_runs' : RowTrue(r)'
  <2> TAKE r \in DOMAIN sync_runs'
  <2>1. CASE r = k
    BY <2>1, <1>4, <1>5 DEF RowTrue, IsOpen
  <2>2. CASE r # k
    <3>1. r \in 1 .. Len(sync_runs)
      BY <2>2, <1>1, <1>5
    <3> QED BY <3>1, <1>1, <1>5, <1>6 DEF RowTrue, IsOpen, IInv
  <2> QED BY <2>1, <2>2
<1>15. \A q \in Process : Explained(q)'
  <2> TAKE q \in Process
  <2>1. CASE q # p
    BY <2>1, <1>1, <1>3, <1>5, <1>7, <1>9 DEF Explained, MayStayOpen, Alive, IsOpen, Of, IInv
  <2>2. CASE q = p
    BY <2>2, <1>2, <1>3, <1>7 DEF Explained, MayStayOpen, Alive
  <2> QED BY <2>1, <2>2
<1> QED BY <1>8, <1>11, <1>12, <1>13, <1>14, <1>15 DEF IInv

\* An execution that hears of its row starts its steps.
LEMMA StartStep ==
    ASSUME IInv, NEW p \in Process, Start(p)
    PROVE  IInv'
<1>1. faults' \in 0 .. MaxFaults
  BY DEF Start, IInv, TypeOK
<1> QED BY <1>1, InsertedStep DEF Start

\* One that does not is the cause of the open row it leaves.
LEMMA StartUnansweredStep ==
    ASSUME IInv, NEW p \in Process, StartUnanswered(p)
    PROVE  IInv'
<1>1. faults' \in 0 .. MaxFaults
  BY FaultCounted DEF StartUnanswered, IInv, TypeOK
<1> QED BY <1>1, InsertedStep DEF StartUnanswered

\* What a step records and what it misses, by its counters.
LEMMA StepRecords ==
    ASSUME NEW s \in StepType, NEW lost \in SUBSET Words, NEW failed \in BOOLEAN,
           failed => s.fails # "never"
    PROVE  LET told == Recorded(s, lost, failed)
               misses == lost \union (IF failed THEN {s.fails} ELSE {})
           IN /\ misses \subseteq How
              /\ "error" \in told <=> misses \intersect {"error", "fatal"} # {}
              /\ "warning" \in told <=> "warning" \in misses
<1>1. s.fails \in {"fatal", "error", "warning", "never"}
  BY DEF StepType
<1>2. CASE ~failed
  BY <1>2 DEF Recorded, How, Words
<1>3. CASE failed /\ s.fails = "fatal"
  BY <1>3 DEF Recorded, How, Words
<1>4. CASE failed /\ s.fails = "error"
  BY <1>4 DEF Recorded, How, Words
<1>5. CASE failed /\ s.fails = "warning"
  BY <1>5 DEF Recorded, How, Words
<1> QED BY <1>1, <1>2, <1>3, <1>4, <1>5

\* A step adds to its own run's misses, and its counters follow: an error is
\* counted exactly when it misses something as an error, or fatally.
LEMMA RunStepStep ==
    ASSUME IInv, NEW p \in Process, RunStep(p)
    PROVE  IInv'
<1> DEFINE x == process[p]
           s == Sync[Of(p)][x.step]
<1>1. /\ x \in Control /\ process \in [Process -> Control]
      /\ missed \in Seq(SUBSET How) /\ sync_runs \in Seq(Row)
      /\ Len(missed) = Len(sync_runs) /\ Len(sync_runs) \in Nat
      /\ x.pc = "step"
  BY DEF IInv, TypeOK, RunStep
<1>2. /\ x.run \in 1 .. Len(sync_runs) /\ IsOpen(x.run)
      /\ x.step \in 1 .. Len(Sync[Of(p)])
  BY <1>1 DEF IInv, Owned, Running
<1>3. Of(p) \in {"okta", "sailpoint", "gcp"}
  BY <1>1, ConnectorAssumption DEF Of, Control
<1>4. s \in StepType
  BY <1>2, <1>3, StepsHaveShape
<1>5. PICK lost \in SUBSET (s.items \union s.skips \union s.always),
           failed \in BOOLEAN : StepEnds(p, lost, failed)
  BY DEF RunStep
<1>6. lost \in SUBSET Words /\ (failed => s.fails # "never")
  BY <1>4, <1>5 DEF StepType, StepEnds
<1> DEFINE told == Recorded(s, lost, failed)
           misses == lost \union (IF failed THEN {s.fails} ELSE {})
           pc == After(Of(p), x.step, failed /\ s.fails = "fatal")
           e == IF "error" \in told THEN 1 ELSE x.errors
           w == IF "warning" \in told THEN 1 ELSE x.warnings
           n == Stepped(x, pc, x.step + 1, e, w)
           m == missed[x.run] \union misses
<1>7. /\ misses \subseteq How
      /\ "error" \in told <=> misses \intersect {"error", "fatal"} # {}
      /\ "warning" \in told <=> "warning" \in misses
  BY <1>4, <1>6, StepRecords
<1>8. /\ process' = [process EXCEPT ![p] = n]
      /\ missed' = [missed EXCEPT ![x.run] = m]
      /\ sync_runs' = sync_runs /\ unwritten' = unwritten
      /\ unclaimed' = unclaimed
  <2>1. process' = [process EXCEPT ![p] = n]
    BY <1>5 DEF StepEnds, Stepped
  <2>2. m = missed[x.run] \union lost \union (IF failed THEN {s.fails} ELSE {})
    OBVIOUS
  <2>3. missed' = [missed EXCEPT ![x.run] =
             missed[x.run] \union lost \union (IF failed THEN {s.fails} ELSE {})]
    BY <1>5 DEF StepEnds
  <2>4. sync_runs' = sync_runs /\ unwritten' = unwritten /\ unclaimed' = unclaimed
    BY DEF RunStep
  <2> HIDE DEF m, n
  <2> QED BY <2>1, <2>2, <2>3, <2>4
<1>9. faults' \in 0 .. MaxFaults
  BY <1>5, FaultCounted DEF StepEnds, IInv, TypeOK
<1>10. /\ pc \in PC /\ pc \in {"step", "finish"}
       /\ pc = "step" => x.step # Len(Sync[Of(p)])
  BY DEF After, PC
<1>11. e \in Count /\ w \in Count /\ x.step + 1 \in Nat
  BY <1>1 DEF Control, Count
<1>12. /\ n \in Control /\ n.run = x.run /\ n.pc = pc
       /\ n.connector = x.connector /\ n.step = x.step + 1
       /\ n.errors = e /\ n.warnings = w /\ n.cancelled = x.cancelled
  BY <1>1, <1>10, <1>11, SteppedTyped
<1>13. /\ process'[p] = n /\ process' \in [Process -> Control]
       /\ \A q \in Process : q # p => process'[q] = process[q]
  BY <1>1, <1>8, <1>12
<1>14. /\ missed[x.run] \subseteq How /\ m \subseteq How
  BY <1>1, <1>2, <1>7
<1>15. /\ missed' \in Seq(SUBSET How) /\ Len(missed') = Len(sync_runs)
       /\ missed'[x.run] = m
       /\ \A r \in 1 .. Len(sync_runs) : r # x.run => missed'[r] = missed[r]
  <2> HIDE DEF m, x
  <2> QED BY <1>1, <1>2, <1>8, <1>14
<1>16. Counted(p)
  BY DEF IInv
<1>17. /\ e = 0 => m \subseteq {"warning", "silent"}
       /\ e # 0 => m \intersect {"error", "fatal"} # {}
       /\ w = 0 => "warning" \notin m
  <2>1. /\ x.errors = 0 => missed[x.run] \subseteq {"warning", "silent"}
        /\ x.errors # 0 => missed[x.run] \intersect {"error", "fatal"} # {}
        /\ x.warnings = 0 => "warning" \notin missed[x.run]
    BY <1>1, <1>16 DEF Counted, Running
  <2> HIDE DEF x, told, misses
  <2>2. misses \intersect {"error", "fatal"} = {} => misses \subseteq {"warning", "silent"}
    BY <1>7 DEF How
  <2> QED BY <1>7, <2>1, <2>2
<1> HIDE DEF n, e, w, m, pc, told, misses, s
<1>18. TypeOK'
  BY <1>8, <1>9, <1>13, <1>15 DEF TypeOK, IInv
<1>19. \A q \in Process : Owned(q) /\ Unshared(p, q) /\ Counted(q) /\ Explained(q)
  BY DEF IInv
<1>20. \A q \in Process : process'[q].run = process[q].run
  BY <1>12, <1>13
<1>21. \A q \in Process : Owned(q)'
  <2> TAKE q \in Process
  <2>1. CASE q # p
    BY <2>1, <1>8, <1>13, <1>19 DEF Owned, Running, IsOpen, Of
  <2>2. CASE q = p
    <3>1. Of(p)' = Of(p)
      BY <1>12, <1>13 DEF Of
    <3>2. pc = "step" => x.step + 1 \in 1 .. Len(Sync[Of(p)])
      BY <1>2, <1>3, <1>10, SyncHasSteps
    <3> QED BY <2>2, <3>1, <3>2, <1>2, <1>8, <1>10, <1>12, <1>13
            DEF Owned, Running, IsOpen
  <2> QED BY <2>1, <2>2
<1>22. \A q, r \in Process : Unshared(q, r)'
  BY <1>20 DEF Unshared, IInv
<1>23. \A q \in Process : Counted(q)'
  <2> TAKE q \in Process
  <2>1. CASE q # p
    <3>1. Running(q) => /\ process[q].run \in 1 .. Len(sync_runs)
                        /\ process[q].run # x.run
      BY <2>1, <1>1, <1>2, <1>19 DEF Owned, Unshared
    <3> QED BY <2>1, <3>1, <1>13, <1>15, <1>19 DEF Counted, Running
  <2>2. CASE q = p
    BY <2>2, <1>12, <1>13, <1>15, <1>17 DEF Counted
  <2> QED BY <2>1, <2>2
<1>24. \A r \in DOMAIN sync_runs' : RowTrue(r)'
  <2> TAKE r \in DOMAIN sync_runs'
  <2>1. CASE r = x.run
    BY <2>1, <1>2, <1>8 DEF RowTrue, IsOpen
  <2>2. CASE r # x.run
    <3>1. r \in 1 .. Len(sync_runs)
      BY <1>1, <1>8
    <3> QED BY <2>2, <3>1, <1>1, <1>8, <1>15 DEF RowTrue, IsOpen, IInv
  <2> QED BY <2>1, <2>2
<1>25. \A q \in Process : Explained(q)'
  <2> TAKE q \in Process
  <2>1. CASE q # p
    BY <2>1, <1>8, <1>13, <1>19 DEF Explained, MayStayOpen, Alive, IsOpen, Of
  <2>2. CASE q = p
    BY <2>2, <1>10, <1>12, <1>13 DEF Explained, MayStayOpen, Alive
  <2> QED BY <2>1, <2>2
<1> QED BY <1>18, <1>21, <1>22, <1>23, <1>24, <1>25 DEF IInv

\* The deferred function may write nothing, because the context is cancelled
\* or the connector's UPDATE is refused: then the open row is explained.
\* Otherwise it writes what the counters tell of the run.
LEMMA FinishStep ==
    ASSUME IInv, NEW p \in Process, Finish(p)
    PROVE  IInv'
<1> DEFINE x == process[p]
           n == [x EXCEPT !.pc = "ended"]
<1>1. /\ x \in Control /\ process \in [Process -> Control]
      /\ sync_runs \in Seq(Row) /\ Len(sync_runs) \in Nat
      /\ Len(missed) = Len(sync_runs) /\ missed \in Seq(SUBSET How)
      /\ x.pc = "finish"
  BY DEF IInv, TypeOK, Finish
<1>2. /\ n \in Control /\ n.run = x.run /\ n.pc = "ended"
      /\ n.connector = x.connector /\ n.cancelled = x.cancelled
  BY <1>1, MoveTyped DEF PC
<1>3. /\ process' = [process EXCEPT ![p] = n]
      /\ missed' = missed /\ unclaimed' = unclaimed
      /\ unwritten' = unwritten /\ faults' = faults
  BY DEF Finish
<1>4. /\ process'[p] = n /\ process' \in [Process -> Control]
      /\ \A q \in Process : q # p => process'[q] = process[q]
  BY <1>1, <1>2, <1>3
<1>5. x.run \in 1 .. Len(sync_runs) /\ IsOpen(x.run)
  BY <1>1 DEF IInv, Owned, Running
<1>6. CASE x.cancelled \/ ~Closes(Of(p))
  <2>1. sync_runs' = sync_runs
    BY <1>6 DEF Finish
  <2>2. faults' \in 0 .. MaxFaults
    BY <1>3 DEF IInv, TypeOK
  <2> HIDE DEF n
  <2>3. Explained(p)'
    BY <1>2, <1>4, <1>6 DEF Explained, MayStayOpen, Of
  <2> QED BY <1>2, <1>3, <2>1, <2>2, <2>3, QuietStep
<1>7. CASE ~(x.cancelled \/ ~Closes(Of(p)))
  <2> DEFINE row == [sync_runs[x.run] EXCEPT !.status = FinalStatus(x.errors),
                                             !.error_count = x.errors,
                                             !.warning_count = x.warnings]
  <2>1. sync_runs' = [sync_runs EXCEPT ![x.run] = row]
    BY <1>7 DEF Finish, Closed
  <2>2. x.errors \in Count /\ x.warnings \in Count
    BY <1>1 DEF Control
  <2>3. FinalStatus(x.errors) = IF x.errors = 0 THEN "success" ELSE "partial"
    BY <2>2 DEF FinalStatus, Count
  <2>4. /\ row \in Row /\ row.status = FinalStatus(x.errors)
        /\ row.warning_count = x.warnings
    <3>1. sync_runs[x.run] \in Row
      BY <1>1, <1>5
    <3>2. FinalStatus(x.errors) \in Status
      BY <2>3 DEF Status
    <3> QED BY <2>2, <3>1, <3>2 DEF Row
  <2> HIDE DEF n, row, x
  <2>5. /\ sync_runs' \in Seq(Row) /\ Len(sync_runs') = Len(sync_runs)
        /\ sync_runs'[x.run] = row
        /\ \A r \in 1 .. Len(sync_runs) : r # x.run => sync_runs'[r] = sync_runs[r]
    BY <1>1, <1>5, <2>1, <2>4
  <2>6. \A q \in Process : /\ Owned(q) /\ Counted(q) /\ Explained(q)
                           /\ process[q].run \in 0 .. Len(sync_runs)
    BY DEF IInv, Owned
  <2>7. \A q \in Process : q # p => process[q].run # x.run
    BY <1>5 DEF IInv, Unshared, x
  <2>8. TypeOK'
    BY <1>3, <1>4, <2>5 DEF TypeOK, IInv
  <2>9. \A q \in Process : Owned(q)'
    <3> TAKE q \in Process
    <3>1. CASE q # p
      <4>1. process[q].run # 0 => sync_runs'[process[q].run] = sync_runs[process[q].run]
        BY <1>1, <2>5, <2>6, <2>7, <3>1
      <4> QED BY <3>1, <4>1, <1>4, <2>5, <2>6 DEF Owned, Running, IsOpen, Of
    <3>2. CASE q = p
      BY <3>2, <1>2, <1>4, <1>5, <2>5 DEF Owned, Running
    <3> QED BY <3>1, <3>2
  <2>10. \A q, r \in Process : Unshared(q, r)'
    <3>1. \A q \in Process : process'[q].run = process[q].run
      BY <1>2, <1>4 DEF x
    <3> QED BY <3>1 DEF Unshared, IInv
  <2>11. \A q \in Process : Counted(q)'
    <3> TAKE q \in Process
    <3>1. CASE q # p
      BY <3>1, <1>3, <1>4, <2>6 DEF Counted, Running
    <3>2. CASE q = p
      BY <3>2, <1>2, <1>4 DEF Counted, Running
    <3> QED BY <3>1, <3>2
  <2>12. /\ x.errors = 0 => missed[x.run] \subseteq {"warning", "silent"}
         /\ x.errors # 0 => missed[x.run] \intersect {"error", "fatal"} # {}
         /\ x.warnings = 0 => "warning" \notin missed[x.run]
    BY <1>1, <2>6 DEF Counted, Running, x
  <2>13. \A r \in DOMAIN sync_runs' : RowTrue(r)'
    <3> TAKE r \in DOMAIN sync_runs'
    <3>1. CASE r = x.run
      BY <3>1, <1>3, <2>3, <2>4, <2>5, <2>12 DEF RowTrue, IsOpen
    <3>2. CASE r # x.run
      <4>1. r \in 1 .. Len(sync_runs)
        BY <1>1, <2>5
      <4> QED BY <3>2, <4>1, <1>1, <1>3, <2>5 DEF RowTrue, IsOpen, IInv
    <3> QED BY <3>1, <3>2
  <2>14. \A q \in Process : Explained(q)'
    <3> TAKE q \in Process
    <3>1. CASE q # p
      <4>1. process[q].run # 0 => sync_runs'[process[q].run] = sync_runs[process[q].run]
        BY <1>1, <2>5, <2>6, <2>7, <3>1
      <4> QED BY <3>1, <4>1, <1>3, <1>4, <2>6 DEF Explained, MayStayOpen, Alive, IsOpen, Of
    <3>2. CASE q = p
      BY <3>2, <1>2, <1>4, <2>3, <2>4, <2>5 DEF Explained, MayStayOpen, IsOpen
    <3> QED BY <3>1, <3>2
  <2> QED BY <2>8, <2>9, <2>10, <2>11, <2>13, <2>14 DEF IInv
<1> QED BY <1>6, <1>7

\* The invariant is inductive: every action of every execution keeps it, and
\* so does a step that changes nothing.
LEMMA NextStep == IInv /\ [Next]_vars => IInv'
<1> SUFFICES ASSUME IInv, [Next]_vars PROVE IInv'
  OBVIOUS
<1>1. CASE Next
  <2>1. PICK p \in Process :
            \/ Start(p) \/ StartFails(p) \/ StartUnanswered(p) \/ RunStep(p)
            \/ Finish(p) \/ FinishFails(p) \/ Signal(p) \/ Kill(p)
    BY <1>1 DEF Next
  <2>2. CASE Start(p)       BY <2>2, StartStep
  <2>3. CASE StartFails(p)  BY <2>3, StartFailsStep
  <2>4. CASE RunStep(p)     BY <2>4, RunStepStep
  <2>5. CASE Finish(p)      BY <2>5, FinishStep
  <2>6. CASE FinishFails(p) BY <2>6, FinishFailsStep
  <2>7. CASE Signal(p)      BY <2>7, SignalStep
  <2>8. CASE Kill(p)        BY <2>8, KillStep
  <2>9. CASE StartUnanswered(p)
    BY <2>9, StartUnansweredStep
  <2> QED BY <2>1, <2>2, <2>3, <2>4, <2>5, <2>6, <2>7, <2>8, <2>9
<1>2. CASE UNCHANGED vars
  <2>1. TypeOK'
    BY <1>2 DEF IInv, TypeOK, vars
  <2>2. \A p \in Process : Owned(p)'
    BY <1>2 DEF IInv, Owned, Running, IsOpen, Of, vars
  <2>3. \A p, q \in Process : Unshared(p, q)'
    BY <1>2 DEF IInv, Unshared, vars
  <2>4. \A p \in Process : Counted(p)'
    BY <1>2 DEF IInv, Counted, Running, vars
  <2>5. \A r \in DOMAIN sync_runs' : RowTrue(r)'
    BY <1>2 DEF IInv, RowTrue, IsOpen, vars
  <2>6. \A p \in Process : Explained(p)'
    BY <1>2 DEF IInv, Explained, MayStayOpen, Alive, IsOpen, Of, vars
  <2> QED BY <2>1, <2>2, <2>3, <2>4, <2>5, <2>6 DEF IInv
<1> QED BY <1>1, <1>2

-----------------------------------------------------------------------------
(* What follows from it. *)

\* In every reachable state the invariant holds.
THEOREM Inductive == Spec => []IInv
BY InitInv, NextStep, PTL DEF Spec

\* In every reachable state the rows of sync_runs, the executions' counters
\* and the histories have their types, and each row has its history.
THEOREM TypeCorrect == Spec => []TypeOK
<1>1. IInv => TypeOK
  BY DEF IInv
<1> QED BY <1>1, Inductive, PTL

\* A finished run tells what happened to it, whatever fails, whenever its
\* process is signalled or killed, and however many runs overlap: the status
\* and the counters that the deferred FinishSyncRun writes agree with what the
\* steps of that run, and of no other, have missed.
THEOREM StatusIsTrue == Spec => []StatusTellsTruth
<1>1. IInv => StatusTellsTruth
  BY DEF IInv, RowTrue, StatusTellsTruth
<1> QED BY <1>1, Inductive, PTL

\* A run whose process is gone is still 'running' only after a crash, a signal
\* before the deferred UPDATE, an INSERT of the run that was committed but not
\* answered, a failure of that UPDATE, or, for GCP, always.
THEOREM StuckRunsExplained == Spec => []StuckIsExplained
<1>1. IInv => StuckIsExplained
  BY DEF IInv, Explained, MayStayOpen, StuckIsExplained
<1> QED BY <1>1, Inductive, PTL

-----------------------------------------------------------------------------
(* The connector page. *)

\* A set of ids has a greatest one.
LEMMA MaxExists ==
    ASSUME NEW n \in Nat, NEW S \in SUBSET (1 .. n), S # {}
    PROVE  Max(S) \in S
<1> DEFINE Gaps == {n - k : k \in S}
           Less == {p \in Nat \X Nat : p[1] < p[2]}
<1>1. Gaps \subseteq Nat /\ Gaps # {}
  <2>1. \A k \in S : k \in 1 .. n
    OBVIOUS
  <2>2. \A k \in S : n - k \in Nat
    BY <2>1
  <2> QED BY <2>2
<1>2. PICK g \in Gaps : \A h \in Gaps : ~(<<h, g>> \in Less)
  <2>1. IsWellFoundedOn(Less, Nat)
    BY NatLessThanWellFounded, Zenon DEF OpToRel
  <2> HIDE DEF Less, Gaps
  <2> QED BY <1>1, <2>1, WFMin
<1>3. \A h \in Gaps : ~(h < g)
  BY <1>1, <1>2
<1>4. PICK k \in S : g = n - k
  OBVIOUS
<1>5. \A m \in S : k >= m
  <2> TAKE m \in S
  <2>1. ~(n - m < n - k)
    BY <1>3, <1>4
  <2>2. \A x \in S : x \in 1 .. n
    OBVIOUS
  <2>3. m \in Int /\ k \in Int
    BY <2>2
  <2> QED BY <2>1, <2>3
<1> QED BY <1>5 DEF Max

\* Nothing but FinishSyncRun sets the counters of a row.
OpenIsClean == \A r \in DOMAIN sync_runs : IsOpen(r) => sync_runs[r].error_count = 0

\* StartSyncRun appends an open row, FinishSyncRun closes one that is open,
\* and nothing else writes sync_runs.
LEMMA RowsChange ==
    ASSUME IInv, [Next]_vars
    PROVE  \/ sync_runs' = sync_runs
           \/ \E row \in Row : /\ row.status = "running" /\ row.error_count = 0
                               /\ sync_runs' = Append(sync_runs, row)
           \/ \E r \in DOMAIN sync_runs, row \in Row :
                  /\ IsOpen(r) /\ row.status # "running"
                  /\ row.connector = sync_runs[r].connector
                  /\ sync_runs' = [sync_runs EXCEPT ![r] = row]
<1>1. process \in [Process -> Control] /\ sync_runs \in Seq(Row)
  BY DEF IInv, TypeOK
<1>2. ASSUME NEW p \in Process, Start(p) \/ StartUnanswered(p)
      PROVE  \E row \in Row : /\ row.status = "running" /\ row.error_count = 0
                              /\ sync_runs' = Append(sync_runs, row)
  <2> DEFINE row == [connector |-> Of(p), status |-> "running",
                     error_count |-> 0, warning_count |-> 0]
  <2>1. row \in Row
    BY <1>1 DEF Of, Control, Row, Status, Count
  <2> QED BY <1>2, <2>1 DEF Start, StartUnanswered, Inserted
<1>3. ASSUME NEW p \in Process, Finish(p), sync_runs' # sync_runs
      PROVE  \E r \in DOMAIN sync_runs, row \in Row :
                  /\ IsOpen(r) /\ row.status # "running"
                  /\ row.connector = sync_runs[r].connector
                  /\ sync_runs' = [sync_runs EXCEPT ![r] = row]
  <2> DEFINE r == process[p].run
             row == [sync_runs[r] EXCEPT !.status = FinalStatus(process[p].errors),
                                         !.error_count = process[p].errors,
                                         !.warning_count = process[p].warnings]
  <2>1. r \in DOMAIN sync_runs /\ IsOpen(r)
    BY <1>1, <1>3 DEF IInv, Owned, Running, Finish
  <2>2. sync_runs' = [sync_runs EXCEPT ![r] = row]
    BY <1>3 DEF Finish, Closed
  <2>3. process[p].errors \in Count /\ process[p].warnings \in Count
    BY <1>1 DEF Control
  <2>4. FinalStatus(process[p].errors) \in Status \ {"running"}
    BY DEF FinalStatus, Status
  <2>5. sync_runs[r] \in Row
    BY <1>1, <2>1
  <2>6. row \in Row /\ row.status # "running" /\ row.connector = sync_runs[r].connector
    BY <2>3, <2>4, <2>5 DEF Row
  <2> HIDE DEF r, row
  <2> QED BY <2>1, <2>2, <2>6
<1> QED BY <1>2, <1>3 DEF Next, StartFails, RunStep, FinishFails, Signal, Kill, vars

LEMMA CleanStep ==
    ASSUME IInv, OpenIsClean, [Next]_vars
    PROVE  OpenIsClean'
<1>1. sync_runs \in Seq(Row)
  BY DEF IInv, TypeOK
<1>2. CASE sync_runs' = sync_runs
  BY <1>2 DEF OpenIsClean, IsOpen
<1>3. ASSUME NEW row \in Row, row.error_count = 0, sync_runs' = Append(sync_runs, row)
      PROVE  OpenIsClean'
  BY <1>1, <1>3 DEF OpenIsClean, IsOpen
<1>4. ASSUME NEW r \in DOMAIN sync_runs, NEW row \in Row, row.status # "running",
             sync_runs' = [sync_runs EXCEPT ![r] = row]
      PROVE  OpenIsClean'
  BY <1>1, <1>4 DEF OpenIsClean, IsOpen
<1> QED BY <1>2, <1>3, <1>4, RowsChange

\* A connector with a run has a latest one.
LEMMA LatestRun ==
    ASSUME NEW c, sync_runs \in Seq(Row), RunsOf(c) # {}
    PROVE  Max(RunsOf(c)) \in DOMAIN sync_runs
<1>1. Len(sync_runs) \in Nat /\ RunsOf(c) \in SUBSET (1 .. Len(sync_runs))
  BY DEF RunsOf
<1>2. Max(RunsOf(c)) \in RunsOf(c)
  BY <1>1, MaxExists
<1> QED BY <1>2 DEF RunsOf

\* A connector shown degraded is shown healthy again only when a newer run of
\* it has started: a run that ends changes the page only if it is the latest,
\* which then was open, and an open run is not shown degraded
\* (connector_handlers.go:104-111, 183-194).
THEOREM HealthIsEarned == Spec => HealthRecovers
<1>1. Init => OpenIsClean
  BY DEF Init, OpenIsClean
<1>2. IInv /\ OpenIsClean /\ [Next]_vars
      => [\A c \in Connector : Health(c) = "degraded" /\ Health(c)' = "healthy"
            => Cardinality(RunsOf(c)') > Cardinality(RunsOf(c))]_vars
  <2> SUFFICES ASSUME IInv, OpenIsClean, [Next]_vars, NEW c \in Connector,
                      Health(c) = "degraded", Health(c)' = "healthy"
               PROVE  Cardinality(RunsOf(c)') > Cardinality(RunsOf(c))
    OBVIOUS
  <2> DEFINE m == Max(RunsOf(c))
  <2>1. sync_runs \in Seq(Row) /\ Len(sync_runs) \in Nat
    BY DEF IInv, TypeOK
  <2>2. RunsOf(c) # {} /\ m \in DOMAIN sync_runs
    BY <2>1, LatestRun DEF Health
  <2>3. ASSUME RunsOf(c)' = RunsOf(c) PROVE sync_runs'[m] # sync_runs[m]
    BY <2>2, <2>3 DEF Health
  <2>4. CASE sync_runs' = sync_runs
    BY <2>3, <2>4 DEF RunsOf
  <2>5. ASSUME NEW row \in Row, sync_runs' = Append(sync_runs, row)
        PROVE  Cardinality(RunsOf(c)') > Cardinality(RunsOf(c))
    <3> DEFINE n == Len(sync_runs) + 1
    <3>1. /\ DOMAIN sync_runs' = DOMAIN sync_runs \cup {n} /\ n \notin DOMAIN sync_runs
          /\ sync_runs'[n] = row
          /\ \A r \in DOMAIN sync_runs : sync_runs'[r] = sync_runs[r]
      BY <2>1, <2>5
    <3> HIDE DEF n
    <3>2. CASE row.connector # c
      BY <2>2, <2>3, <3>1, <3>2 DEF RunsOf
    <3>3. CASE row.connector = c
      <4>1. RunsOf(c)' = RunsOf(c) \cup {n} /\ n \notin RunsOf(c)
        BY <3>1, <3>3 DEF RunsOf
      <4>2. IsFiniteSet(RunsOf(c))
        <5>1. RunsOf(c) \subseteq 1 .. Len(sync_runs)
          BY <2>1 DEF RunsOf
        <5>2. IsFiniteSet(1 .. Len(sync_runs))
          BY <2>1, FS_Interval
        <5> QED BY <5>1, <5>2, FS_Subset
      <4>3. Cardinality(RunsOf(c)) \in Nat
        BY <4>2, FS_CardinalityType
      <4>4. Cardinality(RunsOf(c) \cup {n}) = Cardinality(RunsOf(c)) + 1
        BY <4>1, <4>2, FS_AddElement
      <4> QED BY <4>1, <4>3, <4>4
    <3> QED BY <3>2, <3>3
  <2>6. ASSUME NEW r \in DOMAIN sync_runs, NEW row \in Row, IsOpen(r),
               row.connector = sync_runs[r].connector,
               sync_runs' = [sync_runs EXCEPT ![r] = row]
        PROVE  FALSE
    <3>1. RunsOf(c)' = RunsOf(c)
      BY <2>1, <2>6 DEF RunsOf
    <3>2. r = m
      BY <2>1, <2>2, <2>3, <2>6, <3>1
    <3> QED BY <2>2, <2>6, <3>2 DEF Health, OpenIsClean, IsOpen
  <2> QED BY <2>4, <2>5, <2>6, RowsChange
<1> QED BY <1>1, <1>2, CleanStep, Inductive, PTL DEF Spec, HealthRecovers

=============================================================================
