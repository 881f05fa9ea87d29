# Identity Observability: a TLA+ verification project

This directory holds the specifications of the Identity Observability
backend (Go, `src/backend`), its connectors (`src/connectors`) and the
PostgreSQL schema they share (`src/migrations`), the TLC runs that check them
on small instances and TLAPS proofs about them.  `PROJECT.json` maps every
definition to the lines it models.

## 1. The system

Connectors pull users, groups, roles and permissions from Okta, SailPoint and
GCP into one PostgreSQL database and resolve the users to *identities*.  The
backend (one process, a goroutine per request) serves the data, computes risk
scores, copies the data to a graph database, ingests webhooks, sends alerts
and runs remediation actions.  The connectors are separate processes; the
only things components share are the database, a Redis stream and the graph.
There are no transactions that span statements: every handler is a sequence of
single-statement transactions, and most errors in the middle are ignored.
That is where the interesting behaviours are.

| component | state | operations | interacts with | hard part | what makes it correct |
|---|---|---|---|---|---|
| Action hub (`remediation_handlers.go`, `slack_client.go`) | `remediation_actions`, `approval_requests`, `remediation_history` | create, approve, reject, Slack button, executor goroutine | Slack, dashboard | requests race statement by statement; executor outlives its request; crash | one decision per action; no execution without approval; history only for what ran; approved work gets done |
| Event pipeline (`webhook_handlers.go`, `event_queue.go`) | Redis stream or in-memory channel, `identity_events` | webhook, enqueue, dequeue, process, ack | timeline, velocity | bounded queue, consumer restart, ack after insert, a client that sends a command again | an accepted event is stored once, or its loss or its second row is explained |
| Sync runs (`okta/sailpoint/gcp main.go`, `sync.go`, `connector_handlers.go`) | `sync_runs`, snapshots | start, steps, finish, snapshot, health | connector health page | cancellation, crash, failing steps, a start that is not answered | a finished run reports what happened; a run ends |
| Identity resolution (`identity_resolution.go` ×3, `mock/main.go`) | `identities`, `identity_sources` | resolve, create, record match, upsert | every connector | check-then-insert by concurrent processes | one identity per person; a source account has one identity; confidence says how it matched |
| Risk engine (`risk_engine.go`, `risk_handlers.go`) | `risk_scores`, `risk_flags`, `risk_score_history` | compute, store, read | connectors, alerts, dashboards | facts read by several queries, score and flags stored by four statements, concurrent recomputes | stored score is the score of the stored flags, and what a rule finds is among the flags |
| Alert webhook (`alert_webhook.go`) | `alert_webhook_dedupe` | emit | risk engine | check, send, record are three steps | at most one alert per identity and trigger within the window |
| Graph sync (`graph_sync.go`, `graph_handlers.go`) | the graph, `graph_sync_state` | clear, nodes, relationships, record | blast radius, toxic combinations, IQL | not atomic, not exclusive, cancellable, tables read in part | the graph grants nothing the tables do not, misses only what is named, and the last sync to clear it brings back what it reads |
| Connection pool use (`alert_webhook.go`, `connector_handlers.go`) | pgx pool | query while rows are open | all handlers | hold-and-wait | no request waits for a connection for ever, unless requests with open rows have them all |
| IQL (`iql_parser.go`) | none | parse, execute | graph, database | and/or, fallbacks | a query returns what its filter says |
| Effective access (`002_effective_access.sql`, `handler.go`) | views | direct, group, role lineage | profile page | union of paths | effective = reachable, lineage per path |
| Rate limiters and page loops (`okta`, `sailpoint`, `gcp` `rate_limiter.go`, `main.go`) | window counter, cursor or offset | wait, request, retry with backoff, next page | provider APIs | window edge, retries, several lists behind one limiter, signals, items that come and go | no more than the provider's limit in a window; a list has what was there all the time |
| Dead ends (`005_deadend_rules.sql`), toxic combinations, custom rules, blast radius | views, `custom_rules` | evaluate | risk engine, graph | background test of a rule | results belong to the rule as stored |
| Dashboards, exports, lenses, auth, Jira, frontend | none of their own | read | all | none | not modelled: reads and formatting |

## 2. Plan

Modules in the order they are written.  `MC*` modules instantiate for TLC,
`*Proofs` modules prove.

Done:

1. `Remediation`, `RemediationProofs`: the action hub.
2. `EventPipeline`, with the abstract `EventDelivery` (each event is stored, or
   lost, and stored again only if its sender was left without an answer) that it
   implements; `EventPipelineProofs`, and
   `EventDeliveryProofs` for the refinement.
3. `IdentityResolution`, `IdentityResolutionProofs`: concurrent connectors
   resolving and creating.
4. `SyncRun`, `SyncRunProofs`: run life cycle of the three connectors and the
   health page.
5. `RiskAlerts`, `RiskAlertsProofs`: scores, flags and alerts, and the
   connection pool under them.
6. `AccessQueries` (pure: views, rules, IQL), and `GraphSync`, which composes
   it with the copying of the tables; `GraphSyncProofs`.
7. `ApiListing`, `ApiListingProofs`: rate limiter, retries and page loop.

To come: memberships and roles a connector stores, under identities that move;
custom rules, blast radius and the dead-end views, as queries of
`AccessQueries`.  Every invariant and every action property of the passing runs
is proved (section 10).

## 3. The action hub: `Remediation`

One action of the module is one SQL statement of one request or goroutine.

| code | module |
|---|---|
| `remediation_actions` row: `status`, `action_type`, `approved_by`; the request's `requires_approval` | `status`, `action_type`, `approved_by`, `needsApproval` |
| `approval_requests.status`, `remediation_history`, messages in Slack | `approval`, `history`, `slackMessages` |
| a request and where it is in its handler | `handler[h]` |
| `go executeRemediationAction(context.Background(), ...)` | `executor[h]`; it outlives its request |
| `CreateRemediationAction` | `CreateInsert`, `CreatePost`, `CreateApproval`, `CreateSpawn` |
| `ApproveRemediationAction`, `RejectRemediationAction` | `ApproveAction`, `ApproveRequest`, `ApproveLoad`; `RejectAction`, `RejectRequest` |
| `HandleSlackInteraction` | `SlackInteraction` |
| `executeRemediationAction` | `ExecMark`, `ExecRun`, `ExecRecord`, `ExecHistory` |
| a restart of the backend | `Crash` |

A statement ends `ok`, with an `error`, or `lost` (it committed, the caller
sees an error); the last two and crashes are counted by `faults`.

Runs.  `remediation` has one action, three requests and one fault: two
decisions race for the action its creator has just inserted, or an approval is
repeated, with a failure or a crash between any two statements.  More actions
add nothing, since no statement touches two of them.  It checks that a decision
stands (`DecisionStands`), that an action that needs an approval runs only on
behalf of an approve request (`ApprovalGate`), that the history is earned
(`HistoryIsEarned`), that the tables agree when all is quiet
(`SettledWhenQuiet`), and, while nothing has failed, that an approval through
the API leads to an end (`ApiApprovalExecutes`).  Two runs end in a
counterexample, each a disagreement between the code and the repository's own
words: `remediation_slack` (an approval by Slack executes nothing, and its
history row never appears) and `remediation_reject` (a rejected action that is
approved afterwards executes, because the handler does not look at the number
of rows its UPDATE changed).  That an action is approved beside a rejected
request, and that a crash leaves one approved for ever, are states the model
reaches and the code allows; no property is about them.

Fairness: a handler that has started and a goroutine that runs take their next
step (the Go scheduler; statements return).  Nobody has to send a request,
press a button, or fail.

Not in the model: which target the action touches (the executor only logs and
stores text; the approve path reads the row without `target_id`); the channel
column; the final SELECT of the handlers and the HTTP answers; Slack's payload
format.  Requests are bounded, so the system stops in the end and deadlock is
not checked.

## 4. The event pipeline: `EventPipeline` and `EventDelivery`

| code | module |
|---|---|
| `HandleOktaWebhook` in the middle of its array | `webhook[w]`, `Receive`, `Enqueue` |
| Redis stream, consumer group, pending entries | `stream`, `lastDelivered`, `pel`, `group` |
| an XADD that is sent and not answered, and its arrival | `late`, `unanswered`; `Unanswered`, `Arrive` |
| the channel that replaces Redis when its ping fails at start | `mode`, `memq` |
| `StartEventProcessor` and `processEvent` | `proc`, `DequeueRedis`, `DequeueMemory`, `DequeueReturns`, `Resolve`, `Insert`, `Ack` |
| `identity_events`, `identity_sources` | `identity_events`, `resolved` |
| a connector resolves a user; the backend restarts | `SyncUser`, `Restart` |

Redis itself is not in the repository: `XADD`, `XREADGROUP` with `>` and
`XACK` are modelled from how `event_queue.go` uses them.  So is its client, with
the options it is built with: none of them limits its retries, so that an XADD
whose answer is lost is sent again (outcome `again`), or given up with an error
(`lost`), and each copy may reach Redis at any later time, or never.

`EventDelivery` promises that an accepted event is stored or lost, one at a
time for storing, that what is lost stays lost, and that an event is stored
again only if its sender was left without an answer.  The refinement mapping
`FateOf` reads an event's fate from the queues, the processor's hands and the
table; an entry that is pending for a processor that is gone counts as lost,
since nothing ever reads it again.

Runs.  `event_pipeline`: two requests of up to two events, a channel of two, a
batch of two, one fault.  Four events overflow the channel and need two
batches, and the fault is any failing command, an XADD that is not answered, or
a restart with or without a change of queue.  It checks the refinement
(`ImplementsEventDelivery`) and that only what is stored is acknowledged
(`AckedIsStored`), order is kept but for an event whose XADD was not answered
(`StoredInOrder`), an event gets its own user's identity (`FreshResolution`),
and, while nothing has failed, the queues drain (`QueuesDrain`).
`event_unresolved` ends in a counterexample: an event of an unknown user is
said to be resolved on the next sync, and never is.

Fairness: the processor goroutine and handlers that have started go on.  An
XADD under way need not arrive.

Not in the model: the payload (the two queues wrap it differently), and what
the velocity and timeline pages read from the table.  A single event outside
an array is always refused, as in the code, whose second `ShouldBindJSON` finds
an empty body.

## 5. Identity resolution: `IdentityResolution`

| code | module |
|---|---|
| `identities` (`BIGSERIAL` id = position), `identity_sources` | `identities`, `sources` |
| a connector process and the user it works on | `run[r]` |
| `ResolveIdentity`: by employee id, then by email | `MatchEmployee`, `MatchEmail` |
| `CreateOrGetIdentity`: look again, insert | `CheckExisting`, `InsertIdentity` |
| the upsert of `identity_sources` | `UpsertSource` |
| listing, the loop, an error of one user, the death of a process | `StartSync`, `NextUser`, `EndSync`, `QueryFails`, `Abort` |
| an edit at the provider | `ChangeProfile` |

Each query is a step; queries of two connectors interleave freely.

Runs.  `identity_resolution`: Okta with two users, SailPoint with one, whose
email is Okta's in another case, or whose employee id an Okta user has; an
edit and a fault.  That is the smallest listing in which an account can be
matched by either attribute to two different identities.  It checks that no person
has two rows unless two runs have overlapped (`OneRowPerPerson`), and, while
they have not, that confidence never falls (`ConfidenceKept`) and an account
moves at most once (`AccountMovesOnce`); and that confidence reaches 0.95 or 1
in the end (`ConfidenceSettles`).  `identity_overlap` ends in a
counterexample to "one row per human after resolution": two overlapping
connectors both insert the same new person.

Fairness: the schedule starts connectors again and again, and a run does not
hang (`WF` on the whole run).

Not in the model: Okta's lookup by UPN, which never runs because the email is
passed as UPN; the branch for 0.9 that `EqualFold` makes unreachable; the list
of low-confidence matches, which is only printed; incremental syncs, off by
default.  GCP passes its user id as email; the mock connector is not part of a
deployment.

## 6. Sync runs: `SyncRun`

| code | module |
|---|---|
| `sync_runs` | `sync_runs` |
| a connector process: its step, its counters, its context | `process[p]` |
| `StartSyncRun`; its failure; its INSERT that commits while the caller gets an error | `Start`; `StartFails`; `StartUnanswered` |
| the steps of `Sync`, in order, for Okta, SailPoint and GCP | `Sync`, `RunStep` |
| the deferred function with `FinishSyncRun`, and its failure | `Finish`, `FinishFails` |
| SIGINT/SIGTERM; a crash | `Signal`, `Kill` |
| `overallConnectorStatus` on the latest row | `Health` |

What a step stores is abstracted.  What it can miss and how the code tells it
is kept per step: `fails` says whether its error ends the sync, is recorded as
an error or a warning, or cannot be returned; `items` how failures of single
items are told; `skips` what is not implemented; `always` the statements the
database refuses on every run (the governance statements of Okta and SailPoint
use the reserved word `is` as an alias, silently; GCP refreshes a plain view,
with a warning).  `missed` keeps, for each run, in which of these ways
something went missing; `unwritten` tells whose final UPDATE failed, `unclaimed`
who was never told that its row was inserted: `Sync` returns then before it has
deferred anything, and the row has no owner.

SailPoint's entitlements are never stored: `upsertEntitlement` writes
`permissions.permission_type`, which no migration adds, so that every
entitlement ends in an error.  `sailpointEntitlements` says so of its items.

The status `error` is never written: the `err` that the deferred function
tests is not the `err` of the failing step, which is declared inside its `if`.
That a failed run is not a `success` rests on `recordError` being called before
each return, and `StatusTellsTruth` is about that.

Runs.  `sync_run`: two executions, each of any of the three connectors, and two
faults, so that two runs of one connector overlap, or follow each other, while
a step fails and a signal, a crash or another failure comes in between. One
fault may be the answer to the INSERT of a run.  The counters only matter as
zero or not, and stop at one.  It checks that a final status tells what its own
run missed (`StatusTellsTruth`), that a row left `running` has one of five
causes (`StuckIsExplained`: a crash, a signal, a refused UPDATE, an INSERT
without an answer, GCP), that the page does not forget a failure before a newer
run (`HealthRecovers`), and that runs close (`RunsClose`).  `sync_signal` ends
in a counterexample to the "graceful shutdown" of the connectors: the signal
cancels the context the final UPDATE uses, and the run stays `running`, shown
as healthy.

Fairness, in `FairSpec` only: a step ends, because provider calls are retried
a bounded number of times, and a deferred function runs.  Nothing has to
start, fail or be signalled.

Executions end, so deadlock is not checked.  The health variant of
`getConnectorStatus` is not modelled apart from that of the list page.

## 7. Risk and alerts: `RiskAlerts`

| code | module |
|---|---|
| what the tables say of an identity: admin roles, accounts, MFA, dead ends | `facts`, written by `Sync` |
| `risk_scores`, the latest `risk_score_history`, the open `risk_flags` | `risk_scores`, `history`, `risk_flags` |
| `alert_webhook_dedupe` | `dedupe` |
| a request and where it is; the connection of an outer query | `request[r]`; `held` |
| `getIdentityRisk` | `Recompute`, `Read`, `ReadScore`, `ReadFlags` |
| `ComputeRiskScore`, a query after the other | `Compute`, `Check`, `Answered` |
| `StoreRiskScore`, a statement after the other | `StoreScore`, `StoreHistory`, `ClearFlags`, `InsertFlag`, `StoreFails` |
| `NotifyHighValueTriggers` | `EmitAlerts`, `LookUp`, `Post`, `Record`, `RowsEnd` |
| `listConnectorsFull` | `ListConnectors`, `RecentSyncs`, `RowsEnd` |
| a client that goes away | `Cancel` |

All seven rules are asked, in nine queries; the last three (`Shadowed`) append
what they find to a variable of an inner scope, and the model drops it as the
code does.  An account has a status as the connectors store it, `active` or
`inactive`, or `disabled`, which only test data has and which the rules on
drift and orphaned users ask for.  The main IdP may have several accounts of an
identity, of which the rule on drift reads any one.  A query that fails counts
as one that finds nothing.

Run.  `risk_alerts` has one identity, since no statement touches two; any three
of two assessments, two emissions, one list and writes of a connector, and one
fault: two stores overlap, two emissions race for one flag, or three requests
share two connections.  Two connections are enough for a jam, and with the list
a jam needs two different handlers.  The dedupe window is longer than the age
of the flags that are alerted, as in the code (a day and an hour).  It checks
that a store that was not disturbed leaves score, history and flags in
agreement (`ScoreMatchesFlags`), and the flags with what the code's queries say
of the facts if these were steady (`FlagsTellTheFacts`: the first four rules,
and never one of the last three); that a second alert within the window has one of
three causes (`OneAlertPerWindow`); and that requests end unless the pool is
jammed (`RequestsEnd`).  The observers `settled` and `fresh` say when a store
was undisturbed; nothing reads them.  Overlapping stores do leave a score
beside the flags of another, two emissions do alert twice, and the pool does
jam: the properties say when only.

`FlagsTellTheFacts` says what the code does, which is not what its words say.
No dead end on a group, a role or a permission is ever flagged, though the
rules have weights and severities (`risk_engine.go:56-58`, 87-100); and an
account that a connector has stored as `inactive` is no "Disabled in main IdP"
(`risk_engine.go:157-164`).  Either needs nothing but one recompute.

Fairness: `WF` of what the server does for each accepted request.  A statement
and a POST end, the latter by its timeout of ten seconds, and the pool queues
those that wait; nobody has to send a request or go away.

Not in the model: the payload of an alert; the query whether an identity
exists, and the list of top risks, a read.

## 8. The graph and what is answered from it: `GraphSync` and `AccessQueries`

| code | module |
|---|---|
| the canonical tables | `rows`, `links` |
| the graph in Neo4j | `nodes`, `edges` |
| `graph_sync_state.last_error` | `last_error` |
| `SyncAll` of a request: its stage and the rows in hand | `sync[s]` |
| `clearGraph`; `fetch*` and `ExecuteWrite` of each stage | `Clear`; `Fetch`, `Write` |
| `fetchPermissionResources`, `RecordGraphSyncState` | `FetchPermissionResources`, `Record` |
| the two access queries of `identityByID` | `ReadPermissions`, `ReadLineage` |
| what connectors add; a client that goes away | `Insert`; `Cancel` |
| views of `002_effective_access.sql` | `EffectivePaths`, `Lineage` |
| `getDefaultRules` | `AWSAdminWithNoMFA`, `CrossSystemAdmin`, `OrphanedGroupWithAdminRole`, `PrivilegedRoleWithoutMFA` |
| `executeGraphQuery`, `executeRelationalQuery` | `GraphRows`, `GraphAnswers`; `RelationalRows`, `RelationalAnswers` |
| `LIMIT 100`, without an order | `Limited` |

Two facts about the code shape the model.  No migration adds the column
`permissions.permission_id` that the last stage reads, so every sync ends with
an error, after the nine others have been written; `resource` nodes therefore
have no edges, and the two rules of `config/toxic_combo_rules.yaml` that follow
them find nothing.  And pgx (5.5, external) closes the rows when one cannot be
scanned: the `continue` after a failed `Scan` ends the loop, so that one user
without employee id or display name hides all users that come after.  `Scans`
is what such a loop may get.

Run.  `graph_sync`: two syncs, or a sync and a reader, one failure, and one
insert.  Two syncs are the least that can undo each other.  The tables begin
with either all roles and users that can be scanned or with one that cannot.
It checks that the graph never holds anything that is not in the tables, and
that the sync that deleted the graph last brings back all it gets whole
(`LastClearerRebuilds`).  `AnswersTellTheTables` has three parts, in every
state.  `GraphGrantsNothing`: no rule and no query over the graph finds someone
it would not find over the tables, and a query that is well read finds no one
it does not mean.  `GraphFindsAll`: once the graph is rebuilt, a well-read query
whose rows keep within the limit misses no one it means; the graph's
"Cross-System Admin" misses, of those the risk engine's rule of that name
finds, only holders of a role that is `administrator` or `super_admin`, which
the engine takes for admin roles and the graph does not; and a group that is
called orphaned has no member.  `DossierExplained`: a profile's paths are
explained by its lineage.  `WellRead` names the IQL queries that mean what they
say: a role or a group with another field is misread, since `CONTAINS OR =` is
joined without brackets and a group after a role matches nothing, and the
relational query ignores `mfa`.  The limit is two rows instead of a hundred, so
that a query with three loses one, and which is left open.  An address contains
a text in one way in the graph (`CONTAINS`) and in another in the tables
(`ILIKE`); the fields of a query keep both.  The two
syncs are symmetric; nothing tells them apart.

No fairness: the properties are about states.  Requests are bounded, so
deadlock is not checked.

Not in the model: two nodes for one row, which concurrent `MERGE`s may create
without a constraint (the graph is kept as sets, where they are one); updates
and counts; the splitting of IQL text and its field `employee_id`; blast radius.

## 9. Listing a provider: `ApiListing`

| code | module |
|---|---|
| the page loops of `syncUsers` (Okta), `syncIdentities` (SailPoint), `syncServiceAccounts` (GCP) | `style`: `cursor`, `offset`, `first` |
| `WaitIfNeeded` | `WaitIfNeeded`, `WindowEnds`, `WaitAborted`, `Go` |
| `RetryWithBackoff` | `Receive`, `Error`, `GiveUp`, `Retry` |
| the end of the loop; the next page | `LastPage`, `EndsUndecodable`, `Following` |
| the next list of the sync, behind the same limiter | `NextList` |
| the signal that cancels the context | `Cancel` |
| the provider (external) | `present`, `Change` |

Time is in ticks, a sleep ends at its time or later, and any step may be late.
What `WaitIfNeeded` computes from a time read before it sleeps, it computes so
here.  Its error, when the context ends the wait for the window, is dropped by
every caller.  Okta's and SailPoint's requests carry the context and are not
sent then; GCP's carry none (`Sends`), so that one goes out at once, past
throttle and count.  A list fails without a further attempt on an answer that
is not retried, and when the context ends before, during or after a request
(`GiveUp`).  A page of Okta's whose last item has no id to go on from ends its
list without an error.

Run.  `api_listing`: three lists of four items or two of them, pages of one or
two, an item that is no cursor, a throttle of one tick and a provider that
allows three requests in three; one failure, one change, one signal, six ticks.
The limiter's own window allows two, so that two of its windows would be too
many, and a list has to wait for it.  It checks that retries and late requests
cost at most one request too many in any window of the provider, until a signal
stops GCP's connector (`UnderProviderLimit`), and that a list has all that was
there from beginning to end, or one of the named causes of a gap applies
(`ListsWhatStays`: an offset and a removal, a page without a cursor, a first
page taken for all).  The first holds of pauses of two throttles or more: two
seconds are the default, and nothing keeps a configuration from less.
A signal while GCP's limiter waits does let the lists that are left, such as the
members of each group, be asked for in one tick (`gcp/main.go:383-404`), which
the exception stands for.

Not in the model: requests are serial within a connector, so one list at a time
is all there is; what is done with an item is `IdentityResolution`; backoffs
are rounded down to ticks; a list ends or fails, so deadlock is not checked.  A
page is a set given by the places of its items in the list; that a sorted
sequence has the same pages would need induction over the list.

## 10. What is proved

Every invariant and every action property of the passing runs, and the
refinement of `EventDelivery`, hold for every value of the constants that
satisfies the named assumptions of the modules: `RemediationAssumption`;
`EventPipelineAssumption`; `ResolutionAssumption`; `ConnectorAssumption`,
`FaultsAssumption`; `FactsAssumption`, `RequestAssumption`,
`BoundsAssumption`; `KindsAssumption`, `SystemsAssumption`, `TablesAssumption`,
`QueriesAssumption`; `ItemAssumption`, `LimiterAssumption`, `RateAssumption`;
and `NoneAssumption`, that `None` is no value of its column.  TLC evaluates
them in the runs.  They say what the code does: kinds of entities are disjoint
(they are tables), source systems are finitely many, an IQL query has the
fields of `ParseIQL`, the throttle is the provider's rate.  Nothing is assumed
of what is configured beyond that it is positive.

- `RemediationProofs`.  `TypeCorrect` proves `TypeOK` together with `Control`:
  an executor belongs to a create or approve request that has returned and
  works on its action.  `GateInvariant` is the invariant behind
  `ApprovalIsGated`: `ApprovalGate` alone is not inductive, because it says
  nothing of requests on their way to starting an executor; `GateOf` adds that
  a create request in its dispatch has a row, that an executor of a create
  request serves a row without approval, and that an approve or reject request
  past its first UPDATE has taken the row out of `pending`.
  `DecisionsStand` proves the action property from `CreditInv`: only a decided
  row has an approver.  `HistoryEarned` follows
  from `EarnedInv`: an executor past its operation has called it (`HasRun`),
  and only a type without an operation fails (`FailedUnknown`), so that a row
  in the history and a failed action exclude each other.  `Settled` follows
  from `SettleInv`, the least obvious of the three: while nothing has failed,
  every row that is not settled is in someone's hands, so that none is left
  when nobody is at work.
- `EventPipelineProofs`.  `TypesHold` bounds the events a request has sent and
  the batch in hand.  `OrderKept` needs `OrderInv`, which follows an event from
  the request through queue and batch to the table: the stream and the channel
  are in order (`StreamOrder`, `ChannelOrder`), the batch comes before what its
  queue still holds (`BatchOrder`), a row before the batch (`RowOrder`), and a
  request that is being served has used one queue only (`OneQueue`); without
  the last, events of one request could overtake each other between the two.
  An XADD on its way is of an event the request has come to and that counts as
  unanswered (`LateOK`), so that where it is appended late (`OrderArrive`) the
  order only excepts what the property excepts.
  `AcksAreEarned` adds that what is about to be acknowledged has a row
  (`AckInv`); `IdentitiesAreFresh` that the identity found for the event in
  hand is its user's, or none after a fault (`FreshInv`); `NothingIsLost` that
  without a fault what was sent is in the stream, and what was delivered has a
  row or is in hand (`KeptInv`): no event is lost then by a backend that uses
  Redis (`NoLossWithoutFault`, which no run checks, since the loss that a test
  would miss needs a fault).
- `EventDeliveryProofs`.  `PipelineDelivers` proves that the pipeline
  implements `EventDelivery`.  `OrderInv` shows that an event with a row that is
  still in a queue or in hand has been left unanswered, which is what a second
  row needs (`InsertStores`); then each action maps to a step of `EventDelivery` or to a
  stutter: a webhook request accepts its events (`ReceiveAccepts`), a full
  channel, a failed enqueue, a dropped batch and a restart lose some
  (`EnqueueLoses`, `DequeueLoses`, `RestartLoses`), an INSERT stores one, stores it
  again or, when it fails, loses it (`InsertStores`), an XADD that arrives
  changes no fate (`ArriveLeaves`), and the others leave all fates alone
  (`OthersLeave`).
- `IdentityResolutionProofs`.  `TypeCorrect`; `MatchesAreExplained`, that the
  identity an unedited account is linked to carries the attribute its confidence
  claims (`MatchExplained`, which the others rest on and no run checks), from
  `Current` (the profile a run works with is its account's, unless the account
  has been edited) and `Picked` (the identity a run is about to store carries
  the attribute of the match); `OnePersonOneRow`, from `Alone` (without an
  overlap at most one run is active) and `Absent` (what a run that is alone has
  not found still does not exist when it inserts).  The action properties
  `ConfidenceStays` and `MovesOnce` follow from `Refound`: a run that is alone
  gets past the employee id of an unedited account only if its row was not
  found by it, and never past its email.
- `SyncRunProofs`.  `TypeCorrect`, `StatusIsTrue` and `StuckRunsExplained`
  all follow from one inductive invariant, `IInv`: an execution that runs owns
  an open row (`Owned`) that no other execution has (`Unshared`), its counters
  tell what that run has missed so far (`Counted`), closed rows tell the truth
  (`RowTrue`), and open rows without a process are explained (`Explained`), the unclaimed ones
  included.
  `Counted` and `Unshared` are the strengthening: the final UPDATE copies the
  counters, so they must be right for this run before it, and no other
  execution may write its row.  `StepsHaveShape` and `StepRecords` establish
  from the tables of steps that a step sets a counter exactly when it misses
  something that counter is for.  `HealthIsEarned`, the action property, is
  about the latest run, which the page reads (`LatestRun`): rows are appended
  open and closed once (`RowsChange`), and an open row has counted nothing
  (`OpenIsClean`), so that a row shown degraded is closed and changes no more,
  and only a newer row can take its place.
- `RiskAlertsProofs`.  `TypesHold`; `ScoresMatch`, from `StoreInv`: a store
  that is still alone has in hand what it has written so far (`Hand`,
  `Stored`), and an identity that is settled has no store under way (`Quiet`);
  `FlagsTell`, from `FactInv`: the flags an assessment has so far are what the
  queries of the first four rules say of steady facts, one by one (`Asked`,
  `Told`), where an answer that depends on the account that was read is left
  open; `OneAlert`, from
  `AlertInv`: an alert that is not unrecorded is covered by a record of its
  time or later (`Covered`), and what a look-up saw was too old (`Old`).
- `GraphSyncProofs`.  `TypesHold` and `LastClearer`, from `SyncInv`: tables
  only grow, and the graph does until it is deleted, which makes another sync
  the last clearer; what a stage has in hand is in the tables, and all of its
  table of the time of the clear is in hand unless the stage was cut
  (`InHand`); an edge finds its ends because node stages come first
  (`Rebuilt`).  `AnswersAgree` has three parts.  The graph grants nothing the
  tables do not, because it is a part of them (`SyncInv`) and every rule and
  every IQL answer grows with what it reads (`ReachGrows`, `RulesGrow`,
  `AnswersGrow`).  The answers miss no one once a graph mirrors
  the tables and the rows keep within the limit (`LimitFacts`): an uncut sync has brought back all it read (`SyncInv`), all users
  were readable, or the stage had been cut (`ScannedUsers`), and a
  well-read query joins its clauses as it means to (`AloneFields`,
  `ReadAsMeant`, `TablesAsMeant`).  A dossier is explained because the paths it holds are in the
  tables when its lineage is read (`Grounded`).
- `ApiListingProofs`.  `RateLimited`, from `RateInv`: as long as the limiter is
  in front of every request and pauses are of two throttles or more (`Paced`,
  `LongPauses`), each request is at most one throttle short of its slot
  (`Spread`), where a retry's pause pays for itself and for the request after
  it; the next list begins with the limiter as the last has left it
  (`NextListStep`), and only GCP's requests pass it (`AbortStep`).  `ListsAll`, from `ListInv`: what lies
  before the place the next page starts at is listed, if it stayed (`Seeks`):
  for a cursor, items up to it; for an offset, as long as nothing was removed,
  the items among the first so many.  A new list begins with nothing listed and
  nothing sought (`Fresh`).

Two ways of writing in the modules are for the proofs.  Definitions by cases
whose guards may overlap are IF chains, because CASE picks any guard that
holds.  A page is the set of the items at its places (`Place`) and the latest
run is a maximum, where a sorted sequence or a recursive search would need
induction over data, which this prover does not have.

Only model-checked: the liveness properties `ApiApprovalExecutes`,
`QueuesDrain`, `ConfidenceSettles`, `RunsClose` and `RequestsEnd`, since
fairness and ENABLED are out of the prover's reach.  The properties that a run
shows to be violated are false, so there is nothing to prove of them; those
that hold up to the named exception have a theorem beside them
(`OnePersonOneRow` for `OneRowPerHuman`, `StuckRunsExplained` for
`OrderlyEndIsLogged`).

## 11. What is not modelled

Custom rules, blast radius and the dead-end views (section 2); what connectors
store besides identities and runs; reads and formatting (dashboards, timeline,
changes, exports, lenses, top risks); stateless checks and calls to other
systems (authentication, Jira, connection tests); the list of stitching
conflicts, a read; the mock connector; the frontend, the scripts and the
deployment.  `PROJECT.json` lists each with its reason, and under `hazards`
those that no property covers.

## 12. Running it

    tlc -workers 2 -config MCSyncRun.cfg MCSyncRun
    tlapm SyncRunProofs.tla

and so for the other configurations and proof modules; `runs` in
`PROJECT.json` names each configuration with its module and the outcome to
expect, and `mutants` a plausible bug for each property that makes it fail.
