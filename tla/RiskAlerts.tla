----------------------------- MODULE RiskAlerts -----------------------------
(***************************************************************************)
(* Risk scores, risk flags and the alerts sent for them                    *)
(* (src/backend/risk_engine.go, risk_handlers.go, alert_webhook.go), with  *)
(* the connection pool that all handlers share.                            *)
(*                                                                         *)
(* GET /identities/:id/risk answers from the tables, or computes: one      *)
(* query after the other, while the connectors write, and then one         *)
(* statement after the other to replace what is stored.  Nothing is a      *)
(* transaction.  POST /alerts/emit walks through the recent flags and, for *)
(* each, looks for an earlier alert, posts, and records the alert.  It     *)
(* keeps the connection of its first query while the inner statements need *)
(* a second one; GET /connectors/full does the same.                       *)
(*                                                                         *)
(* Every request is served once.  A query is one step.  The variables and  *)
(* fields called observers are never read by an action.                    *)
(***************************************************************************)
EXTENDS Integers, FiniteSets, FiniteSetsExt

CONSTANTS Identity,
          Assess,       \* requests for the risk of an identity
          Emit,         \* requests to emit alerts
          List,         \* requests for the full list of connectors
          Facts,        \* what the tables may say of an identity
          None,         \* no row, NULL
          Connectors,   \* rows of the outer query of the list
          MaxConns,     \* connections of the pool
          Hour, Window, \* age of a flag that is alerted, and dedupe window
          MaxArrivals,  \* bounds on requests and syncs, on time and on faults
          MaxTime, MaxFaults

Request == Assess \cup Emit \cup List

\* What connectors store as the status of an account.  Okta and SailPoint write
\* "inactive" for one that is deprovisioned, suspended or deleted; only the
\* mock's data set has "disabled".  Statuses Okta keeps as they are, STAGED for
\* one, decide no rule and are like "inactive" here.
Status == {"active", "inactive", "disabled"}

\* The three views of dead ends an identity may be listed in.
DeadEnd == {"deadend_orphaned_group", "deadend_stale_role",
            "deadend_disconnected_permission"}

\* What decides the rules: in how many systems the identity holds an admin
\* role, the statuses of its accounts in the main IdP, whether an account of
\* another system is active, whether an active account shows MFA, and its
\* dead ends.  MAIN_IDP_KEY is the IdP the view of orphaned users names,
\* okta_primary, as it is by default.
Fact == [admin : Nat, main : SUBSET Status, elsewhere : BOOLEAN,
         mfa : BOOLEAN, deadends : SUBSET DeadEnd]

ASSUME FactsAssumption == Facts \subseteq Fact
ASSUME RequestAssumption ==
    /\ Assess \cap Emit = {} /\ Assess \cap List = {} /\ Emit \cap List = {}
    /\ IsFiniteSet(Request)
ASSUME NoneAssumption == None \notin Nat
ASSUME BoundsAssumption ==
    {Hour, Window, MaxArrivals, MaxTime, MaxFaults, Connectors, MaxConns} \subseteq Nat

-----------------------------------------------------------------------------
(* The rules.                                                              *)

Weight == [cross_system_admin |-> 40, disabled_drift |-> 50,
           privileged_without_mfa |-> 30, deadend_orphaned_user |-> 50,
           deadend_orphaned_group |-> 40, deadend_stale_role |-> 20,
           deadend_disconnected_permission |-> 30]

Severity == [cross_system_admin |-> "high", disabled_drift |-> "critical",
             privileged_without_mfa |-> "high", deadend_orphaned_user |-> "critical",
             deadend_orphaned_group |-> "high", deadend_stale_role |-> "medium",
             deadend_disconnected_permission |-> "medium"]

Rule == DOMAIN Weight

\* No rule has the key super_admin or org_owner.
highValueRuleKeys == {"deadend_orphaned_user", "super_admin", "cross_system_admin", "org_owner"}

severityValue == [low |-> 1, medium |-> 2, high |-> 3, critical |-> 4]

\* The score and the severity that a set of flags amounts to.
Assessment(flags) ==
    LET total  == MapThenSumSet(LAMBDA f : Weight[f], flags)
        levels == {"low"} \cup {Severity[f] : f \in flags}
    IN [score    |-> IF total > 100 THEN 100 ELSE total,
        severity |-> CHOOSE s \in levels :
                        \A t \in levels : severityValue[s] >= severityValue[t]]

\* The queries of ComputeRiskScore, in their order.  Two rules take two, the
\* second only when the first says yes.
Queries == 1 .. 9

\* What query q may answer.  The account of the main IdP that the second one
\* reads is any of those the identity has.
Answers(q, fact) ==
    CASE q = 1 -> {fact.admin >= 2}
      [] q = 2 -> IF fact.main = {} THEN {FALSE} ELSE {s = "disabled" : s \in fact.main}
      [] q = 3 -> {fact.elsewhere}
      [] q = 4 -> {fact.admin >= 1}
      [] q = 5 -> {~fact.mfa}
      [] q = 6 -> {"disabled" \in fact.main /\ fact.elsewhere}
      [] q = 7 -> {"deadend_orphaned_group" \in fact.deadends}
      [] q = 8 -> {"deadend_stale_role" \in fact.deadends}
      [] q = 9 -> {"deadend_disconnected_permission" \in fact.deadends}

IsFirstOfTwo(q) == q \in {2, 4}

RuleOf == [q \in {1, 3, 5, 6, 7, 8, 9} |->
               CASE q = 1 -> "cross_system_admin"     [] q = 3 -> "disabled_drift"
                 [] q = 5 -> "privileged_without_mfa" [] q = 6 -> "deadend_orphaned_user"
                 [] q = 7 -> "deadend_orphaned_group" [] q = 8 -> "deadend_stale_role"
                 [] q = 9 -> "deadend_disconnected_permission"]

\* What the last three queries find is appended to a variable of the inner
\* scope, which shadows the result: it reaches neither score nor flags.
Shadowed == {7, 8, 9}

Flagging == DOMAIN RuleOf \ Shadowed

\* A query that fails counts as one that says no.
FindsNothing == FALSE

-----------------------------------------------------------------------------
VARIABLES facts,        \* what the tables say of each identity
          risk_scores,  \* the row of an identity, and its latest history row
          history,
          risk_flags,   \* the flags that are not cleared
          dedupe,       \* alert_webhook_dedupe: time of the recorded alert
          request,      \* what each request is doing
          held,         \* requests that keep the connection of an outer query
          now, faults, syncs,
          settled,      \* observers: no store of the identity was disturbed,
          fresh,        \*   nor the facts it was computed from,
          alerted,      \*   when a key was last alerted,
          unrecorded    \*   and which alerts have no record yet

store    == <<risk_scores, history, risk_flags>>
watching == <<settled, fresh, alerted, unrecorded>>
vars     == <<facts, store, dedupe, request, held, now, faults, syncs, watching>>


Time == 0 .. MaxTime
Key  == Identity \X highValueRuleKeys
Flag == [identity : Identity, rule : Rule, created_at : Time, by : Assess]

Scores == {Assessment(flags) : flags \in SUBSET Rule}

PC == {"idle", "read", "answer", "check", "score", "history", "clear", "insert",
       "row", "post", "record", "list", "done"}

\* identity, query, flags and todo belong to an assessment, rows and row to
\* an emission, left to a list.  The last four only observe.  alone: no other
\* store of the identity ran beside this one; steady: no fact changed and no
\* query failed since it began to compute; blind: the look-up failed; saw:
\* the recorded alert it found.
Control == [pc : PC, identity : Identity \cup {None}, query : 1 .. 10,
            flags : SUBSET Rule, todo : SUBSET Rule, rows : SUBSET Flag,
            row : Flag \cup {None}, left : 0 .. Connectors,
            alone : BOOLEAN, steady : BOOLEAN, blind : BOOLEAN,
            saw : Time \cup {None}]

Blank(p) == [pc |-> p, identity |-> None, query |-> 1, flags |-> {},
             todo |-> {}, rows |-> {}, row |-> None, left |-> 0,
             alone |-> TRUE, steady |-> TRUE, blind |-> FALSE, saw |-> None]

Init == /\ facts \in [Identity -> Facts]
        /\ risk_scores = [i \in Identity |-> None]
        /\ history = [i \in Identity |-> None]
        /\ risk_flags = {}
        /\ dedupe = [k \in Key |-> None]
        /\ request = [r \in Request |-> Blank("idle")]
        /\ held = {}
        /\ now = 0 /\ faults = 0 /\ syncs = 0
        /\ settled = {} /\ fresh = {} /\ unrecorded = {}
        /\ alerted = [k \in Key |-> None]

At(r, p) == request[r].pc = p

Active(r) == ~At(r, "idle") /\ ~At(r, "done")

\* Requests and connector writes that still may come.
MoreArrive == Cardinality({q \in Request : ~At(q, "idle")}) + syncs < MaxArrivals

Arrives(r) == At(r, "idle") /\ MoreArrive

\* A statement needs a connection for as long as it runs.
CanQuery == Cardinality(held) < MaxConns

Fault == faults < MaxFaults /\ faults' = faults + 1
Works == UNCHANGED faults

Becomes(r, ctl) == request' = [request EXCEPT ![r] = ctl]
Goto(r, p)      == Becomes(r, [request[r] EXCEPT !.pc = p])
Answer(r)       == Becomes(r, Blank("done"))

-----------------------------------------------------------------------------
(* The risk of an identity.                                                *)

\* ComputeRiskScore begins with no flags.
Compute(r, i) == Becomes(r, [request[r] EXCEPT !.pc = "check", !.identity = i,
                                             !.steady = TRUE])

\* getIdentityRisk with recompute=true.  The query whether the identity exists
\* at all, which comes first, is left out.
Recompute(r, i) == /\ Arrives(r)
                   /\ Compute(r, i)
                   /\ UNCHANGED <<facts, store, dedupe, held, now, faults, syncs, watching>>

\* getIdentityRisk without it.
Read(r, i) == /\ Arrives(r)
              /\ Becomes(r, [request[r] EXCEPT !.pc = "read", !.identity = i])
              /\ UNCHANGED <<facts, store, dedupe, held, now, faults, syncs, watching>>

\* It computes when there is no score, and else answers with the active flags.
ReadScore(r) ==
    /\ At(r, "read")
    /\ CanQuery
    /\ \/ /\ Works
          /\ risk_scores[request[r].identity] = None
          /\ Compute(r, request[r].identity)
       \/ /\ Works
          /\ risk_scores[request[r].identity] # None
          /\ Goto(r, "answer")
       \/ /\ Fault
          /\ Answer(r)
    /\ UNCHANGED <<facts, store, dedupe, held, now, syncs, watching>>

ReadFlags(r) == /\ At(r, "answer")
                /\ CanQuery
                /\ Answer(r)
                /\ UNCHANGED <<facts, store, dedupe, held, now, faults, syncs, watching>>

\* A bug: the second query of a rule is asked whatever the first says.
AnsweredAlways(r, yes, steady) ==
    LET c == request[r]
    IN Becomes(r, [c EXCEPT
           !.flags = IF yes /\ c.query \in Flagging
                     THEN @ \cup {RuleOf[c.query]} ELSE @,
           !.query = @ + 1,
           !.steady = @ /\ steady,
           !.pc    = IF c.query + 1 \in Queries THEN "check" ELSE "score"])

\* The answer to the current query, and the query after it.
Answered(r, yes, steady) ==
    LET c == request[r]
        q == IF IsFirstOfTwo(c.query) /\ ~yes THEN c.query + 2 ELSE c.query + 1
    IN Becomes(r, [c EXCEPT
           !.flags = IF yes /\ c.query \in Flagging
                     THEN @ \cup {RuleOf[c.query]} ELSE @,
           !.query = q,
           !.steady = @ /\ steady,
           !.pc    = IF q \in Queries THEN "check" ELSE "score"])

Check(r) ==
    /\ At(r, "check")
    /\ CanQuery
    /\ \/ /\ Works
          /\ \E yes \in Answers(request[r].query, facts[request[r].identity]) :
                Answered(r, yes, TRUE)
       \/ /\ Fault
          /\ Answered(r, FindsNothing, FALSE)
    /\ UNCHANGED <<facts, store, dedupe, held, now, syncs, watching>>

\* Assessments of i that have begun to replace what is stored.
Storing(i) == {r \in Assess : /\ request[r].identity = i
                              /\ request[r].pc \in {"history", "clear", "insert"}}

\* StoreRiskScore, statement by statement.
StoreScore(r) ==
    LET i == request[r].identity IN
    /\ At(r, "score")
    /\ CanQuery
    /\ risk_scores' = [risk_scores EXCEPT ![i] = Assessment(request[r].flags)]
    /\ request' = [q \in Request |->
           IF q = r THEN [request[r] EXCEPT !.pc = "history", !.alone = Storing(i) = {}]
           ELSE [request[q] EXCEPT !.alone = @ /\ q \notin Storing(i)]]
    /\ settled' = settled \ {i}
    /\ fresh' = fresh \ {i}
    /\ UNCHANGED <<facts, history, risk_flags, dedupe, held, now, faults, syncs,
                   alerted, unrecorded>>

StoreHistory(r) ==
    /\ At(r, "history")
    /\ CanQuery
    /\ history' = [history EXCEPT ![request[r].identity] = Assessment(request[r].flags)]
    /\ Goto(r, "clear")
    /\ UNCHANGED <<facts, risk_scores, risk_flags, dedupe, held, now, faults, syncs,
                   watching>>

\* After the last statement, what is stored is undisturbed when r was alone.
Settles(r, last) ==
    LET i == request[r].identity IN
    /\ settled' = IF last /\ request[r].alone THEN settled \cup {i} ELSE settled
    /\ fresh' = IF last /\ request[r].alone /\ request[r].steady
                THEN fresh \cup {i} ELSE fresh

\* A bug: flags are only cleared when there are new ones.
ClearFlagsForNew(r) ==
    LET c == request[r] IN
    /\ At(r, "clear")
    /\ CanQuery
    /\ IF c.flags = {} THEN Answer(r) /\ UNCHANGED risk_flags
       ELSE /\ Becomes(r, [c EXCEPT !.pc = "insert", !.todo = c.flags])
            /\ risk_flags' = {f \in risk_flags : f.identity # c.identity}
    /\ Settles(r, c.flags = {})
    /\ UNCHANGED <<facts, risk_scores, history, dedupe, held, now, faults, syncs,
                   alerted, unrecorded>>

ClearFlags(r) ==
    LET c == request[r] IN
    /\ At(r, "clear")
    /\ CanQuery
    /\ risk_flags' = {f \in risk_flags : f.identity # c.identity}
    /\ IF c.flags = {} THEN Answer(r)
       ELSE Becomes(r, [c EXCEPT !.pc = "insert", !.todo = c.flags])
    /\ Settles(r, c.flags = {})
    /\ UNCHANGED <<facts, risk_scores, history, dedupe, held, now, faults, syncs,
                   alerted, unrecorded>>

\* The flags are inserted in the order in which they were found.
InsertFlag(r) ==
    LET c == request[r] IN
    /\ At(r, "insert")
    /\ CanQuery
    /\ \E q \in DOMAIN RuleOf :
          /\ RuleOf[q] \in c.todo
          /\ \A p \in DOMAIN RuleOf : RuleOf[p] \in c.todo => q <= p
          /\ risk_flags' = risk_flags \cup
                 {[identity |-> c.identity, rule |-> RuleOf[q],
                   created_at |-> now, by |-> r]}
          /\ IF c.todo = {RuleOf[q]} THEN Answer(r)
             ELSE Becomes(r, [c EXCEPT !.todo = @ \ {RuleOf[q]}])
          /\ Settles(r, c.todo = {RuleOf[q]})
    /\ UNCHANGED <<facts, risk_scores, history, dedupe, held, now, faults, syncs,
                   alerted, unrecorded>>

\* A statement that fails ends the request and leaves the earlier ones.
StoreFails(r) ==
    /\ request[r].pc \in {"score", "history", "clear", "insert"}
    /\ CanQuery
    /\ Fault
    /\ Answer(r)
    /\ UNCHANGED <<facts, store, dedupe, held, now, syncs, watching>>

-----------------------------------------------------------------------------
(* Alerts, and the list of connectors: an outer query whose rows are read  *)
(* one by one, with queries in between.                                    *)

KeyOf(flag) == <<flag.identity, flag.rule>>

\* NotifyHighValueTriggers selects the flags of the last hour.
EmitAlerts(r) ==
    /\ Arrives(r)
    /\ CanQuery
    /\ Becomes(r, [request[r] EXCEPT
           !.pc   = "row",
           !.rows = {f \in risk_flags : /\ f.rule \in highValueRuleKeys
                                        /\ f.created_at >= now - Hour}])
    /\ held' = held \cup {r}
    /\ UNCHANGED <<facts, store, dedupe, now, faults, syncs, watching>>

NextRow(r) == Becomes(r, [request[r] EXCEPT !.pc = "row", !.row = None,
                                            !.blind = FALSE, !.saw = None])

\* A bug: the look-up compares with the age of flags, not with the window.
LookUpByHour(r) ==
    /\ At(r, "row")
    /\ CanQuery
    /\ \E f \in request[r].rows :
          LET last == dedupe[KeyOf(f)] IN
          Becomes(r, IF last # None /\ now - last < Hour
                     THEN [request[r] EXCEPT !.rows = @ \ {f}]
                     ELSE [request[r] EXCEPT !.pc = "post", !.rows = @ \ {f},
                              !.row = f, !.saw = last])
    /\ UNCHANGED <<facts, store, dedupe, held, now, faults, syncs, watching>>

\* For one row, the look-up of an earlier alert; an error counts as none.
LookUp(r) ==
    /\ At(r, "row")
    /\ CanQuery
    /\ \E f \in request[r].rows, blind \in BOOLEAN :
          LET last   == IF blind THEN None ELSE dedupe[KeyOf(f)]
              recent == last # None /\ now - last < Window
          IN /\ IF blind THEN Fault ELSE Works
             /\ Becomes(r, IF recent THEN [request[r] EXCEPT !.rows = @ \ {f}]
                           ELSE [request[r] EXCEPT !.pc = "post", !.rows = @ \ {f},
                                     !.row = f, !.blind = blind, !.saw = last])
    /\ UNCHANGED <<facts, store, dedupe, held, now, syncs, watching>>

\* The alert arrives and is accepted; or it arrives and the answer is lost,
\* late or a refusal; or it does not arrive.
Post(r) ==
    LET k == KeyOf(request[r].row) IN
    /\ At(r, "post")
    /\ \/ /\ Works
          /\ Goto(r, "record")
          /\ alerted' = [alerted EXCEPT ![k] = now]
          /\ unrecorded' = unrecorded \cup {k}
       \/ /\ Fault
          /\ NextRow(r)
          /\ alerted' = [alerted EXCEPT ![k] = now]
          /\ unrecorded' = unrecorded \cup {k}
       \/ /\ Fault
          /\ NextRow(r)
          /\ UNCHANGED <<alerted, unrecorded>>
    /\ UNCHANGED <<facts, store, dedupe, held, now, syncs, settled, fresh>>

\* An error of the upsert is dropped.
Record(r) ==
    LET k == KeyOf(request[r].row) IN
    /\ At(r, "record")
    /\ CanQuery
    /\ NextRow(r)
    /\ \/ /\ Works
          /\ dedupe' = [dedupe EXCEPT ![k] = now]
          /\ unrecorded' = unrecorded \ {k}
       \/ /\ Fault
          /\ UNCHANGED <<dedupe, unrecorded>>
    /\ UNCHANGED <<facts, store, held, now, syncs, settled, fresh, alerted>>

\* listConnectorsFull: a query for the recent runs of each connector.
ListConnectors(r) ==
    /\ Arrives(r)
    /\ CanQuery
    /\ Becomes(r, [request[r] EXCEPT !.pc = "list", !.left = Connectors])
    /\ held' = held \cup {r}
    /\ UNCHANGED <<facts, store, dedupe, now, faults, syncs, watching>>

\* A bug: one row more than there are.
RecentSyncsPastEnd(r) ==
    /\ At(r, "list")
    /\ request[r].left >= 0
    /\ CanQuery
    /\ Becomes(r, [request[r] EXCEPT !.left = @ - 1])
    /\ UNCHANGED <<facts, store, dedupe, held, now, faults, syncs, watching>>

RecentSyncs(r) ==
    /\ At(r, "list")
    /\ request[r].left > 0
    /\ CanQuery
    /\ Becomes(r, [request[r] EXCEPT !.left = @ - 1])
    /\ UNCHANGED <<facts, store, dedupe, held, now, faults, syncs, watching>>

\* A bug: the rows of an emission are not closed.
RowsEndOpen(r) ==
    /\ \/ At(r, "row") /\ request[r].rows = {}
       \/ At(r, "list") /\ request[r].left = 0
    /\ Answer(r)
    /\ held' = held \ ({r} \cap List)
    /\ UNCHANGED <<facts, store, dedupe, now, faults, syncs, watching>>

\* The rows are read to the end, which frees their connection.
RowsEnd(r) ==
    /\ \/ At(r, "row") /\ request[r].rows = {}
       \/ At(r, "list") /\ request[r].left = 0
    /\ Answer(r)
    /\ held' = held \ {r}
    /\ UNCHANGED <<facts, store, dedupe, now, faults, syncs, watching>>

-----------------------------------------------------------------------------
\* The client goes away: the context ends every later statement and request.
Cancel(r) ==
    /\ Active(r)
    /\ Fault
    /\ Answer(r)
    /\ held' = held \ {r}
    /\ UNCHANGED <<facts, store, dedupe, now, syncs, watching>>

\* A connector writes what it found at the provider.
Sync(i) ==
    /\ MoreArrive
    /\ syncs' = syncs + 1
    /\ \E fact \in Facts \ {facts[i]} : facts' = [facts EXCEPT ![i] = fact]
    /\ fresh' = fresh \ {i}
    /\ request' = [r \in Request |->
                      [request[r] EXCEPT !.steady = @ /\ request[r].identity # i]]
    /\ UNCHANGED <<store, dedupe, held, now, faults, settled, alerted, unrecorded>>

Tick == /\ now < MaxTime
        /\ now' = now + 1
        /\ UNCHANGED <<facts, store, dedupe, request, held, faults, syncs, watching>>

\* What the server does on its own for a request it has accepted.
Assessing(r) == \/ ReadScore(r) \/ ReadFlags(r) \/ Check(r) \/ StoreScore(r)
                \/ StoreHistory(r) \/ ClearFlags(r) \/ InsertFlag(r) \/ StoreFails(r)

Emitting(r) == LookUp(r) \/ Post(r) \/ Record(r)

Serve(r) == \/ r \in Assess /\ Assessing(r)
            \/ r \in Emit /\ Emitting(r)
            \/ r \in List /\ RecentSyncs(r)
            \/ RowsEnd(r)

Next == \/ \E r \in Assess, i \in Identity : Recompute(r, i) \/ Read(r, i)
        \/ \E r \in Emit : EmitAlerts(r)
        \/ \E r \in List : ListConnectors(r)
        \/ \E r \in Request : Serve(r) \/ Cancel(r)
        \/ \E i \in Identity : Sync(i)
        \/ Tick

Spec == Init /\ [][Next]_vars

\* A request that can go on does: the driver queues those that wait for a
\* connection, and a POST ends after its timeout.
FairSpec == Spec /\ \A r \in Request : WF_vars(Serve(r))

-----------------------------------------------------------------------------
\* The types of all variables.
TypeOK ==
    /\ facts \in [Identity -> Facts]
    /\ risk_scores \in [Identity -> Scores \cup {None}]
    /\ history \in [Identity -> Scores \cup {None}]
    /\ risk_flags \subseteq Flag
    /\ dedupe \in [Key -> Time \cup {None}]
    /\ request \in [Request -> Control]
    /\ held \subseteq Request
    /\ now \in Time
    /\ faults \in 0 .. MaxFaults
    /\ syncs \in 0 .. MaxArrivals
    /\ settled \subseteq Identity
    /\ fresh \subseteq settled
    /\ alerted \in [Key -> Time \cup {None}]
    /\ unrecorded \subseteq Key

FlagsOf(i)  == {f \in risk_flags : f.identity = i}
ActiveOf(i) == {f.rule : f \in FlagsOf(i)}

\* A recompute that stored everything without another one beside it leaves
\* score, history and active flags in agreement, each rule flagged once,
\* whatever failed or overlapping ones left before, until the next store of
\* that identity begins (risk_engine.go:370-425).
ScoreMatchesFlags ==
    \A i \in settled :
        /\ risk_scores[i] = Assessment(ActiveOf(i))
        /\ history[i] = risk_scores[i]
        /\ \A f, g \in FlagsOf(i) : f.rule = g.rule => f = g

\* If also no query failed and no fact changed since it began, each of the
\* first four rules is flagged exactly when its queries say so of what the
\* tables hold, with no flag left from before, and none of the last three is
\* flagged, whatever dead ends there are (risk_engine.go:64-131).  That is what
\* the code does, not what it says: a "Rule 5: Deadend - Orphaned Group" (:87)
\* has no effect, and "Disabled in main IdP" (:157) only counts the status
\* "disabled", where connectors store "inactive".
FlagsTellTheFacts ==
    \A i \in fresh :
        /\ \A q \in Flagging :
              LET flagged == RuleOf[q] \in ActiveOf(i) IN
              IF IsFirstOfTwo(q - 1)
              THEN IF flagged
                   THEN TRUE \in Answers(q - 1, facts[i]) /\ TRUE \in Answers(q, facts[i])
                   ELSE FALSE \in Answers(q - 1, facts[i]) \/ FALSE \in Answers(q, facts[i])
              ELSE flagged \in Answers(q, facts[i])
        /\ \A q \in Shadowed : RuleOf[q] \notin ActiveOf(i)

\* "stores last send per (identity_id, rule_key); window ALERT_DEDUPE_HOURS"
\* (alert_webhook.go:26): a second alert for a key within the window is only
\* sent when the record of the first is missing, when the look-up failed, or
\* when another emission recorded one since the look-up.
OneAlertPerWindow ==
    [][\A r \in Emit :
          LET k == KeyOf(request[r].row) IN
          /\ At(r, "post")
          /\ At(r, "record")'
          /\ alerted[k] # None
          /\ now - alerted[k] < Window
          => \/ k \in unrecorded
             \/ request[r].blind
             \/ request[r].saw # dedupe[k]]_vars

\* Every connection is kept by a request that waits for another one.
Jammed ==
    /\ Cardinality(held) = MaxConns
    /\ \A r \in held : \/ At(r, "row") /\ request[r].rows # {}
                       \/ At(r, "record")
                       \/ At(r, "list") /\ request[r].left > 0

\* Every request ends, unless the outer rows of alert emissions and connector
\* lists take all connections of the pool (alert_webhook.go:76-128,
\* connector_handlers.go:117-147).
RequestsEnd == \A r \in Request : Active(r) ~> ~Active(r) \/ Jammed
=============================================================================
