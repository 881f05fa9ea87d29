------------------------------- MODULE SyncRun -------------------------------
(***************************************************************************)
(* The life cycle of a sync run: src/connectors/{okta,sailpoint,gcp}.      *)
(*                                                                         *)
(* A connector is a process started by a scheduler.  It inserts a row with *)
(* status 'running' into sync_runs, performs its steps in a fixed order,   *)
(* and a deferred call writes the final status.  What went wrong in a step *)
(* is recorded as an error, as a warning, or nowhere at all.  A SIGINT or  *)
(* SIGTERM cancels the context that every later statement uses, the        *)
(* deferred one too; a crash ends the process where it stands.  The        *)
(* connector page derives a connector's health from its latest row.        *)
(*                                                                         *)
(* A step is one action: what it stores is abstracted, what it misses and  *)
(* how it tells so is kept.                                                *)
(***************************************************************************)
EXTENDS Naturals, Sequences, FiniteSets, FiniteSetsExt

CONSTANTS Process,    \* executions of connectors, each of which runs once
          Connector,  \* the connectors that are deployed
          MaxFaults   \* bound on failures, signals and crashes

ASSUME ConnectorAssumption == Connector \subseteq {"okta", "sailpoint", "gcp"}
ASSUME FaultsAssumption == MaxFaults \in Nat

VARIABLES sync_runs,  \* the table, in the order of its ids
          process,    \* each execution's control state
          missed,     \* history: how each run's misses were told
          unclaimed,  \* history: executions whose INSERT of the run was written
                      \* but not answered
          unwritten,  \* history: executions whose final UPDATE failed
          faults

vars == <<sync_runs, process, missed, unclaimed, unwritten, faults>>

-----------------------------------------------------------------------------
(* What a step can miss.  "fails" is how a connector treats the error the  *)
(* step returns, "items" how it tells the failure of single items, "skips" *)
(* what it may miss without any fault (what is not implemented, items the  *)
(* database always refuses), and "always" what it misses on every run.     *)

Step(fails, items, skips, always) ==
    [fails |-> fails, items |-> items, skips |-> skips, always |-> always]

oktaUsers         == Step("fatal", {"error"}, {}, {})
oktaGroups        == Step("fatal", {"error", "warning", "silent"}, {}, {})
oktaApps          == Step("fatal", {"error", "warning"}, {}, {})
oktaRoles         == Step("error", {"silent"}, {"warning"}, {})
oktaAssignments   == Step("error", {"silent"}, {"warning"}, {})
oktaGovernance    == Step("never", {}, {}, {"silent"})
oktaSnapshot      == Step("warning", {}, {}, {})

sailpointIdentities   == Step("fatal", {"error"}, {"warning"}, {})
sailpointProfiles     == Step("fatal", {"error"}, {}, {})
sailpointRoles        == Step("fatal", {"error"}, {}, {})
\* The database refuses every entitlement (permissions has no column
\* permission_type), which is recorded; a tenant may have none.
sailpointEntitlements == Step("fatal", {"error", "warning"}, {"error"}, {})
sailpointAccounts     == Step("warning", {"warning", "silent"}, {}, {})
sailpointAccess       == Step("fatal", {"warning", "silent"}, {}, {})
sailpointGovernance   == Step("never", {}, {}, {"silent"})
sailpointSnapshot     == Step("warning", {}, {}, {})

gcpUsers           == Step("warning", {"warning"}, {}, {})
gcpServiceAccounts == Step("error", {"warning"}, {}, {})
gcpGroups          == Step("warning", {"warning", "silent"}, {}, {})
gcpRoles           == Step("never", {"warning"}, {}, {})
gcpBindings        == Step("error", {"silent"}, {"silent"}, {})
gcpGovernance      == Step("never", {}, {}, {})
gcpSnapshot        == Step("never", {}, {}, {"warning"})

Sync == [okta      |-> <<oktaUsers, oktaGroups, oktaApps, oktaRoles,
                         oktaAssignments, oktaGovernance, oktaSnapshot>>,
         sailpoint |-> <<sailpointIdentities, sailpointProfiles, sailpointRoles,
                         sailpointEntitlements, sailpointAccounts,
                         sailpointAccess, sailpointGovernance, sailpointSnapshot>>,
         gcp       |-> <<gcpUsers, gcpServiceAccounts, gcpGroups, gcpRoles,
                         gcpBindings, gcpGovernance, gcpSnapshot>>]

\* GCP's FinishSyncRun sets a column, updated_at, that sync_runs does not
\* have: the database refuses its UPDATE, and the error is dropped.
Closes(c) == c # "gcp"

\* How a miss is told; "fatal" stands for an error that ended the sync, which
\* misses all the steps that follow too.
How == {"error", "warning", "silent", "fatal"}

-----------------------------------------------------------------------------
Status == {"running", "success", "partial", "error"}

\* The code only asks of its counters whether they are zero: they stop at one.
Count == 0 .. 1

Row == [connector : Connector, status : Status,
        error_count : Count, warning_count : Count]

Control == [connector : Connector,
            pc : {"idle", "step", "finish", "ended", "killed"},
            run : Nat, step : Nat, errors : Count, warnings : Count,
            cancelled : BOOLEAN]

Init == /\ sync_runs = <<>>
        /\ process \in [Process ->
               [connector : Connector, pc : {"idle"}, run : {0}, step : {1},
                errors : {0}, warnings : {0}, cancelled : {FALSE}]]
        /\ missed = <<>>
        /\ unclaimed = {}
        /\ unwritten = {}
        /\ faults = 0

Of(p) == process[p].connector

Fault == faults < MaxFaults /\ faults' = faults + 1

\* The row that StartSyncRun inserts for p, after which p stands at pc.
Inserted(p, pc) ==
    /\ sync_runs' = Append(sync_runs, [connector |-> Of(p), status |-> "running",
                                       error_count |-> 0, warning_count |-> 0])
    /\ missed' = Append(missed, {})
    /\ process' = [process EXCEPT ![p].pc = pc,
                                  ![p].run = Len(sync_runs) + 1]

\* StartSyncRun answers with the id of its row.
Start(p) ==
    /\ process[p].pc = "idle"
    /\ ~process[p].cancelled
    /\ Inserted(p, "step")
    /\ UNCHANGED <<unclaimed, unwritten, faults>>

\* The INSERT fails, or the context is cancelled already: Sync returns before
\* it has deferred anything, and nothing is written.
StartFails(p) ==
    /\ process[p].pc = "idle"
    /\ IF process[p].cancelled THEN UNCHANGED faults ELSE Fault
    /\ process' = [process EXCEPT ![p].pc = "ended"]
    /\ UNCHANGED <<sync_runs, missed, unclaimed, unwritten>>

\* The INSERT is committed, but its answer is lost, or the signal comes while
\* it is under way: Sync returns as in StartFails, and leaves the row behind.
StartUnanswered(p) ==
    /\ process[p].pc = "idle"
    /\ IF process[p].cancelled THEN UNCHANGED faults ELSE Fault
    /\ Inserted(p, "ended")
    /\ unclaimed' = unclaimed \union {p}
    /\ UNCHANGED unwritten

\* A failure that ends the sync returned without recordError.
RecordedUnlessFatal(s, lost, failed) ==
    lost \union (IF ~failed \/ s.fails = "fatal" THEN {} ELSE {s.fails})

\* How a step that misses the items in lost and, if failed, returns an error
\* is recorded: the calls of recordError and recordWarning it leads to.
Recorded(s, lost, failed) ==
    lost \union (IF ~failed THEN {}
                 ELSE {IF s.fails = "fatal" THEN "error" ELSE s.fails})

\* A fatal failure that exits the process, so that nothing deferred runs.
AfterByExit(c, i, stop) ==
    IF stop THEN "ended" ELSE IF i = Len(Sync[c]) THEN "finish" ELSE "step"

\* Where Sync goes after step i of connector c: after the last one, and when a
\* fatal failure returns, the deferred function runs.
After(c, i, stop) ==
    IF stop \/ i = Len(Sync[c]) THEN "finish" ELSE "step"

\* Step i of a sync.  Once the context is cancelled, any of its statements may
\* fail; before that each troubled step is one fault.
StepEnds(p, lost, failed) ==
    LET c == Of(p)
        i == process[p].step
        s == Sync[c][i]
        recorded == Recorded(s, lost, failed)
    IN /\ s.always \subseteq lost
       /\ failed => s.fails # "never"
       /\ IF process[p].cancelled \/ (~failed /\ lost \subseteq s.skips \union s.always)
          THEN UNCHANGED faults
          ELSE Fault
       /\ process' = [process EXCEPT
              ![p].pc       = After(c, i, failed /\ s.fails = "fatal"),
              ![p].step     = i + 1,
              ![p].errors   = IF "error" \in recorded THEN 1 ELSE @,
              ![p].warnings = IF "warning" \in recorded THEN 1 ELSE @]
       /\ missed' = [missed EXCEPT ![process[p].run] =
              @ \union lost \union (IF failed THEN {s.fails} ELSE {})]

RunStep(p) ==
    /\ process[p].pc = "step"
    /\ LET s == Sync[Of(p)][process[p].step]
       IN \E lost \in SUBSET (s.items \union s.skips \union s.always),
             failed \in BOOLEAN : StepEnds(p, lost, failed)
    /\ UNCHANGED <<sync_runs, unclaimed, unwritten>>

\* The words of the connector page instead of those of sync_runs.
FinalStatusAsHealth(errors) == IF errors > 0 THEN "degraded" ELSE "healthy"

\* The deferred function's choice of a status.  It also tests err, but the err
\* of a failing step is declared in that step's if and never reaches it.
FinalStatus(errors) == IF errors > 0 THEN "partial" ELSE "success"

\* An UPDATE keyed by the connector instead of the run.
ClosedBySource(rows, r, errors, warnings) ==
    [k \in DOMAIN rows |->
        IF rows[k].connector # rows[r].connector THEN rows[k]
        ELSE [rows[k] EXCEPT !.status = FinalStatus(errors),
                             !.error_count = errors,
                             !.warning_count = warnings]]

\* An UPDATE of the connector's latest run.
ClosedLatest(rows, r, errors, warnings) ==
    LET last == Max({k \in DOMAIN rows : rows[k].connector = rows[r].connector})
    IN [rows EXCEPT ![last] = [@ EXCEPT !.status = FinalStatus(errors),
                                        !.error_count = errors,
                                        !.warning_count = warnings]]

\* FinishSyncRun's UPDATE of row r.
Closed(rows, r, errors, warnings) ==
    [rows EXCEPT ![r] = [@ EXCEPT !.status = FinalStatus(errors),
                                  !.error_count = errors,
                                  !.warning_count = warnings]]

Finish(p) ==
    /\ process[p].pc = "finish"
    /\ IF process[p].cancelled \/ ~Closes(Of(p))
       THEN UNCHANGED sync_runs
       ELSE sync_runs' = Closed(sync_runs, process[p].run,
                                process[p].errors, process[p].warnings)
    /\ process' = [process EXCEPT ![p].pc = "ended"]
    /\ UNCHANGED <<missed, unclaimed, unwritten, faults>>

\* The UPDATE fails; FinishSyncRun's error is dropped.
FinishFails(p) ==
    /\ process[p].pc = "finish"
    /\ Fault
    /\ unwritten' = unwritten \union {p}
    /\ process' = [process EXCEPT ![p].pc = "ended"]
    /\ UNCHANGED <<sync_runs, missed, unclaimed>>

Alive(p) == process[p].pc \notin {"ended", "killed"}

\* The first SIGINT or SIGTERM cancels the context; no other one does anything.
Signal(p) ==
    /\ Alive(p)
    /\ ~process[p].cancelled
    /\ Fault
    /\ process' = [process EXCEPT ![p].cancelled = TRUE]
    /\ UNCHANGED <<sync_runs, missed, unclaimed, unwritten>>

Kill(p) ==
    /\ Alive(p)
    /\ Fault
    /\ process' = [process EXCEPT ![p].pc = "killed"]
    /\ UNCHANGED <<sync_runs, missed, unclaimed, unwritten>>

Next == \E p \in Process :
            \/ Start(p) \/ StartFails(p) \/ StartUnanswered(p) \/ RunStep(p)
            \/ Finish(p) \/ FinishFails(p) \/ Signal(p) \/ Kill(p)

\* A step ends, because calls to a provider are retried a bounded number of
\* times, and the deferred function runs.  Nothing obliges an execution to
\* start, to fail, or to be signalled.
Fairness == \A p \in Process : WF_vars(RunStep(p)) /\ WF_vars(Finish(p))

Spec == Init /\ [][Next]_vars
FairSpec == Spec /\ Fairness

-----------------------------------------------------------------------------
(* The connector page. *)

RunsOf(c) == {r \in DOMAIN sync_runs : sync_runs[r].connector = c}

\* listConnectorsFull and overallConnectorStatus: the row started last decides.
Health(c) ==
    IF RunsOf(c) = {} THEN "unknown"
    ELSE LET last == sync_runs[Max(RunsOf(c))]
         IN IF last.status = "error" THEN "error"
            ELSE IF last.status = "partial" \/ last.error_count > 0 THEN "degraded"
            ELSE "healthy"

-----------------------------------------------------------------------------
(* Properties. *)

\* Every variable has its type: rows, control states and histories.
TypeOK ==
    /\ sync_runs \in Seq(Row)
    /\ process \in [Process -> Control]
    /\ missed \in Seq(SUBSET How)
    /\ Len(missed) = Len(sync_runs)
    /\ unclaimed \subseteq Process
    /\ unwritten \subseteq Process
    /\ faults \in 0 .. MaxFaults

IsOpen(r) == sync_runs[r].status = "running"

\* A finished run tells what happened to it.  'success' means that no step
\* failed and no item was recorded as an error; 'partial' means that one was;
\* and a run without warnings missed only what the code records nowhere.  The
\* status depends on recordError having been called on every path that
\* returns, since the error itself never reaches the deferred function
\* (okta/main.go:84-113 and its siblings).
StatusTellsTruth ==
    \A r \in DOMAIN sync_runs :
        /\ sync_runs[r].status = "success" => missed[r] \subseteq {"warning", "silent"}
        /\ sync_runs[r].status = "partial" => missed[r] \intersect {"error", "fatal"} # {}
        /\ ~IsOpen(r) /\ sync_runs[r].warning_count = 0 => "warning" \notin missed[r]

\* The causes for which a run may stay 'running': a crash, a signal, an INSERT
\* of the run that was committed but not answered, so that Sync returned
\* without its id, a database failure in the deferred UPDATE, and the GCP
\* connector, whose UPDATE is never accepted.
MayStayOpen(p) ==
    \/ process[p].pc = "killed"
    \/ process[p].cancelled
    \/ p \in unclaimed
    \/ p \in unwritten
    \/ ~Closes(Of(p))

\* A row that is still 'running' when its process is gone has one of these
\* five causes.  Nothing in the system closes such a row later.
StuckIsExplained ==
    \A p \in Process :
        process[p].run # 0 /\ ~Alive(p) /\ IsOpen(process[p].run) => MayStayOpen(p)

\* The connector page does not forget a failure on its own: a connector shown
\* degraded is shown healthy again only when a newer run of it has started,
\* even if an older, overlapping run finishes in the meantime with success
\* (connector_handlers.go:104-111, 183-194).
HealthRecovers ==
    [][\A c \in Connector :
          Health(c) = "degraded" /\ Health(c)' = "healthy"
          => Cardinality(RunsOf(c)') > Cardinality(RunsOf(c))]_vars

\* Every run that starts is closed in the end, however runs of its connector
\* overlap, unless one of the five causes holds.
RunsClose ==
    \A p \in Process :
        process[p].run # 0
        ~> (process[p].run # 0 /\ ~IsOpen(process[p].run)) \/ MayStayOpen(p)

\* "Connector service that [...] logs sync status and errors"
\* (docs/BUILD_BREAKDOWN.md:96), with a handler for a "graceful shutdown"
\* (okta/main_entry.go:25): a connector that ends in an orderly way, with a
\* database that answers, has given its run a final status.
OrderlyEndIsLogged ==
    \A p \in Process :
        /\ process[p].pc = "ended" /\ process[p].run # 0
        /\ p \notin unclaimed \union unwritten
        => ~IsOpen(process[p].run)
=============================================================================
