------------------------ MODULE IdentityResolution ------------------------
(***************************************************************************)
(* How connectors resolve the accounts of their identity provider to rows  *)
(* of identities.  Each run of a connector is a process of its own with    *)
(* its own connection to the canonical database; it lists the users of its *)
(* provider and, for each, looks for an identity by employee id and then   *)
(* by email, creates one when there is none, and upserts the account's     *)
(* identity_sources row.  Every query is a step: two runs interleave       *)
(* between queries.  The Okta, SailPoint and GCP connectors share this     *)
(* code; Okta's third lookup, by UPN, never runs because it passes the     *)
(* email as UPN.                                                           *)
(***************************************************************************)
EXTENDS Naturals, Sequences, FiniteSets

CONSTANTS
  Runs,        \* connector processes, each syncing again and again
  Accounts,    \* users of the providers: identity_sources' unique key
  Listing,     \* Listing[r]: the accounts of run r's provider
  Emails,      \* emails as they are written
  Lower,       \* Lower[e]: LOWER(e)
  EmployeeIds,
  None,        \* the empty string, NULL, or no row
  Profiles,    \* Profiles[a]: the [email, employee] pairs account a may have
  MaxChanges,  \* bound on edited accounts; an account is edited once
  MaxFaults    \* bound on failing queries and killed runs

Profile == [email : Emails \cup {None}, employee : EmployeeIds \cup {None}]

ASSUME ResolutionAssumption ==
  /\ Listing \in [Runs -> SUBSET Accounts]
  /\ Lower \in [Emails -> Emails]
  /\ None \notin Emails \cup EmployeeIds
  /\ Profiles \in [Accounts -> SUBSET Profile]
  /\ MaxChanges \in Nat /\ MaxFaults \in Nat

VARIABLES
  identities,  \* the identities table: row i has BIGSERIAL id i
  sources,     \* identity_sources: the row of each account, or NoSource
  run,         \* run[r]: the process
  profile,     \* what the providers hold
  changed,     \* history: accounts whose profile has changed
  overlapped,  \* history: two runs have been active at the same time
  faults

vars == <<identities, sources, run, profile, changed, overlapped, faults>>

Confidences == {0, 95, 100}   \* identity_sources.confidence, in percent
NoUser      == [account |-> None, profile |-> [email |-> None, employee |-> None]]
NoSource    == [id |-> 0, confidence |-> 0]
IdleRun     == [pc |-> "idle", todo |-> {}, user |-> NoUser, id |-> 0, confidence |-> 0]

Users   == [account : Accounts, profile : Profile]
PCs     == {"idle", "next", "employee", "email", "check", "insert", "upsert"}
Queries == {"employee", "email", "check", "insert", "upsert"}

Process == [pc : PCs, todo : SUBSET Users, user : Users \cup {NoUser},
            id : Nat, confidence : Confidences]

TypeOK ==
  /\ identities \in Seq([email : Emails, employee : EmployeeIds \cup {None}])
  /\ sources \in [Accounts -> [id : 0..Len(identities), confidence : Confidences]]
  /\ run \in [Runs -> Process]
  /\ \A r \in Runs : run[r].pc \in Queries =>
       run[r].user \in Users /\ run[r].user.profile.email # None
  /\ \A r \in Runs : run[r].pc = "upsert" => run[r].id \in 1..Len(identities)
  /\ profile \in [Accounts -> Profile]
  /\ changed \subseteq Accounts
  /\ overlapped \in BOOLEAN
  /\ faults \in 0..MaxFaults

Init ==
  /\ identities = << >>
  /\ sources = [a \in Accounts |-> NoSource]
  /\ run = [r \in Runs |-> IdleRun]
  /\ profile \in [Accounts -> Profile] /\ \A a \in Accounts : profile[a] \in Profiles[a]
  /\ changed = {}
  /\ overlapped = FALSE
  /\ faults = 0

-----------------------------------------------------------------------------
\* Mutant: the email lookup is sensitive to case.
WithEmailExact(e) == {i \in DOMAIN identities : identities[i].email = e}
\* Mutant: the employee lookup also hits rows without an employee id.
WithEmployeeOrNull(e) == {i \in DOMAIN identities : identities[i].employee \in {e, None}}

(* The two lookups.  A SELECT that hits several rows returns any of them.  *)

WithEmployee(e) == {i \in DOMAIN identities : identities[i].employee = e}
WithEmail(e)    == {i \in DOMAIN identities : Lower[identities[i].email] = Lower[e]}

Goto(r, pc) == run' = [run EXCEPT ![r].pc = pc]

Found(r, i, confidence) ==
  run' = [run EXCEPT ![r].pc = "upsert", ![r].id = i, ![r].confidence = confidence]

Database == <<identities, sources>>
World    == <<profile, changed, overlapped, faults>>

\* A run starts: the provider answers with its users as they are now.
StartSync(r) ==
  /\ run[r].pc = "idle"
  /\ run' = [run EXCEPT ![r].pc = "next",
       ![r].todo = {[account |-> a, profile |-> profile[a]] : a \in Listing[r]}]
  /\ overlapped' = (overlapped \/ \E q \in Runs \ {r} : run[q].pc # "idle")
  /\ UNCHANGED <<Database, profile, changed, faults>>

\* The next user of the list; one without an email is skipped.
NextUser(r) ==
  /\ run[r].pc = "next"
  /\ \E u \in run[r].todo :
       run' = [run EXCEPT
         ![r].todo = @ \ {u}, ![r].user = u, ![r].id = 0, ![r].confidence = 0,
         ![r].pc = IF u.profile.email = None THEN "next"
                   ELSE IF u.profile.employee # None THEN "employee" ELSE "email"]
  /\ UNCHANGED <<Database, World>>

EndSync(r) ==
  /\ run[r].pc = "next" /\ run[r].todo = {}
  /\ run' = [run EXCEPT ![r] = IdleRun]
  /\ UNCHANGED <<Database, World>>

\* ResolveIdentity, method 1: by employee id, confidence 1.0.
MatchEmployee(r) ==
  LET hits == WithEmployee(run[r].user.profile.employee) IN
  /\ run[r].pc = "employee"
  /\ \/ \E i \in hits : Found(r, i, 100)
     \/ hits = {} /\ Goto(r, "email")
  /\ UNCHANGED <<Database, World>>

\* ResolveIdentity, method 2: by email, confidence 0.95.
MatchEmail(r) ==
  LET hits == WithEmail(run[r].user.profile.email) IN
  /\ run[r].pc = "email"
  /\ \/ \E i \in hits : Found(r, i, 95)
     \/ hits = {} /\ Goto(r, "check")
  /\ UNCHANGED <<Database, World>>

\* CreateOrGetIdentity looks once more; what it returns has confidence 0.
CheckExisting(r) ==
  LET hits == WithEmail(run[r].user.profile.email) IN
  /\ run[r].pc = "check"
  /\ \/ \E i \in hits : Found(r, i, 0)
     \/ hits = {} /\ Goto(r, "insert")
  /\ UNCHANGED <<Database, World>>

\* No unique index guards identities: the row is inserted whatever happened since.
InsertIdentity(r) ==
  /\ run[r].pc = "insert"
  /\ identities' = Append(identities, run[r].user.profile)
  /\ Found(r, Len(identities) + 1, 0)
  /\ UNCHANGED <<sources, World>>

\* Mutant: ON CONFLICT DO UPDATE forgets the confidence.
UpsertSourceKeepingConfidence(r) ==
  /\ run[r].pc = "upsert"
  /\ sources' = [sources EXCEPT ![run[r].user.account] =
       [id |-> run[r].id, confidence |-> IF @ = NoSource THEN run[r].confidence ELSE @.confidence]]
  /\ Goto(r, "next")
  /\ UNCHANGED <<identities, World>>

\* The upsert of the account's identity_sources row replaces identity and confidence.
UpsertSource(r) ==
  /\ run[r].pc = "upsert"
  /\ sources' = [sources EXCEPT ![run[r].user.account] =
       [id |-> run[r].id, confidence |-> run[r].confidence]]
  /\ Goto(r, "next")
  /\ UNCHANGED <<identities, World>>

\* Mutant: the error of the INSERT is ignored and the upsert goes on with id 0.
QueryFailsInsertIgnored(r) ==
  /\ run[r].pc \in Queries /\ faults < MaxFaults
  /\ Goto(r, IF run[r].pc = "insert" THEN "upsert" ELSE "next")
  /\ faults' = faults + 1
  /\ UNCHANGED <<Database, profile, changed, overlapped>>
\* Mutant: an error of the employee lookup is taken for "no rows".
QueryFailsAsNoRows(r) ==
  /\ run[r].pc \in Queries /\ faults < MaxFaults
  /\ Goto(r, IF run[r].pc = "employee" THEN "email" ELSE "next")
  /\ faults' = faults + 1
  /\ UNCHANGED <<Database, profile, changed, overlapped>>

\* A query fails: the user is counted as an error and skipped.
QueryFails(r) ==
  /\ run[r].pc \in Queries /\ faults < MaxFaults
  /\ Goto(r, "next")
  /\ faults' = faults + 1
  /\ UNCHANGED <<Database, profile, changed, overlapped>>

\* The process is killed, or a page of the listing cannot be fetched.
Abort(r) ==
  /\ run[r].pc # "idle" /\ faults < MaxFaults
  /\ run' = [run EXCEPT ![r] = IdleRun]
  /\ faults' = faults + 1
  /\ UNCHANGED <<Database, profile, changed, overlapped>>

\* An administrator edits a user at the provider.
ChangeProfile(a) ==
  /\ a \notin changed /\ Cardinality(changed) < MaxChanges
  /\ \E p \in Profiles[a] : p # profile[a] /\ profile' = [profile EXCEPT ![a] = p]
  /\ changed' = changed \cup {a}
  /\ UNCHANGED <<Database, run, overlapped, faults>>

SyncStep(r) ==
  \/ StartSync(r) \/ NextUser(r) \/ EndSync(r)
  \/ MatchEmployee(r) \/ MatchEmail(r) \/ CheckExisting(r)
  \/ InsertIdentity(r) \/ UpsertSource(r)

Next ==
  \/ \E r \in Runs : SyncStep(r) \/ QueryFails(r) \/ Abort(r)
  \/ \E a \in Accounts : ChangeProfile(a)

\* The schedule starts every connector again and again, and a run does not hang.
Spec == Init /\ [][Next]_vars /\ \A r \in Runs : WF_vars(SyncStep(r))

-----------------------------------------------------------------------------
(* Properties.                                                             *)

Resolved(a) == sources[a] # NoSource

\* No two identities share an email or an employee id as long as no two runs
\* have overlapped: the lookups before the INSERT are the only thing that
\* keeps a person from being created twice.
OneRowPerPerson ==
  ~overlapped => \A i, j \in DOMAIN identities : i # j =>
    /\ Lower[identities[i].email] # Lower[identities[j].email]
    /\ identities[i].employee = None \/ identities[i].employee # identities[j].employee

\* "Canonical person (one row per human after resolution)" says the schema,
\* for every way the connectors run.
OneRowPerHuman ==
  \A i, j \in DOMAIN identities :
    Lower[identities[i].email] = Lower[identities[j].email] => i = j

\* A resync never makes what is known of an unedited account worse: its stored
\* confidence never falls back (to the email match, or to "just created").
ConfidenceKept ==
  [][\A a \in Accounts \ changed' : ~overlapped' /\ Resolved(a) =>
       sources'[a].confidence >= sources[a].confidence]_vars

\* An unedited account moves to another identity at most once, when an identity
\* with its employee id has appeared since: it never flaps between two people.
AccountMovesOnce ==
  [][\A a \in Accounts \ changed' :
       ~overlapped' /\ Resolved(a) /\ sources'[a].id # sources[a].id =>
         sources[a].confidence < 100 /\ sources'[a].confidence = 100]_vars

\* The 0 confidence of an account that created its identity does not last:
\* the syncs that follow match every account that has an email and raise it.
ConfidenceSettles ==
  \A r \in Runs : \A a \in Listing[r] :
    <>[](profile[a].email # None => sources[a].confidence >= 95)
=============================================================================
