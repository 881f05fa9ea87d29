---------------------- MODULE IdentityResolutionProofs ----------------------
(***************************************************************************)
(* What identity resolution guarantees for any number of connectors,       *)
(* accounts, profile edits, failing queries and killed runs.               *)
(***************************************************************************)
EXTENDS IdentityResolution, TLAPS

\* What TypeOK says of one process over n identities.
Slot(p, n) ==
  /\ p \in Process
  /\ p.pc \in Queries => p.user \in Users /\ p.user.profile.email # None
  /\ p.pc = "upsert" => p.id \in 1..n

Slots ==
  /\ run \in [Runs -> Process]
  /\ \A r \in Runs : Slot(run[r], Len(identities))

\* A step that replaces one process leaves every process well typed.
LEMMA SlotReplaced ==
  ASSUME TypeOK, NEW r \in Runs, NEW p \in Process, Slot(p, Len(identities')),
         run' = [run EXCEPT ![r] = p],
         Len(identities') \in Nat, Len(identities') >= Len(identities)
  PROVE  Slots'
<1>1. run' \in [Runs -> Process]
  BY DEF TypeOK, Slot
<1>2. ASSUME NEW q \in Runs PROVE Slot(run'[q], Len(identities'))
  <2>1. CASE q = r
    BY <2>1 DEF TypeOK
  <2>2. CASE q # r
    <3>1. run'[q] = run[q]
      BY <2>2 DEF TypeOK
    <3>2. QED
      BY <3>1 DEF TypeOK, Slot
  <2>3. QED
    BY <2>1, <2>2
<1>3. QED
  BY <1>1, <1>2 DEF Slots

LEMMA SlotKept ==
  ASSUME TypeOK, NEW r \in Runs
  PROVE  Slot(run[r], Len(identities)) /\ Len(identities) \in Nat
BY DEF TypeOK, Slot

\* A step that only moves one process forward keeps the types.
LEMMA ProcessStep ==
  ASSUME TypeOK, NEW r \in Runs, NEW p \in Process, Slot(p, Len(identities)),
         run' = [run EXCEPT ![r] = p], UNCHANGED <<Database, profile, changed>>,
         overlapped' \in BOOLEAN, faults' \in 0..MaxFaults
  PROVE  TypeOK'
<1>1. identities' = identities /\ sources' = sources
  BY DEF Database
<1>2. Len(identities') \in Nat /\ Len(identities') >= Len(identities)
  BY <1>1 DEF TypeOK
<1>3. Slot(p, Len(identities'))
  BY <1>1
<1>4. Slots'
  BY <1>2, <1>3, SlotReplaced
<1>5. QED
  BY <1>1, <1>4 DEF TypeOK, Slots, Slot

\* Every reachable state is well typed: an identity_sources row names an
\* existing identity, and a run about to upsert has found or created one.
THEOREM TypeCorrect == Spec => []TypeOK
<1> USE ResolutionAssumption
<1>1. Init => TypeOK
  <2> SUFFICES ASSUME Init PROVE TypeOK
    OBVIOUS
  <2>1. /\ identities \in Seq([email : Emails, employee : EmployeeIds \cup {None}])
        /\ Len(identities) = 0
    BY DEF Init
  <2>2. sources \in [Accounts -> [id : 0..Len(identities), confidence : Confidences]]
    BY <2>1 DEF Init, NoSource, Confidences
  <2>3. IdleRun \in Process /\ IdleRun.pc = "idle"
    BY DEF IdleRun, Process, PCs, Confidences
  <2>4. Slots
    BY <2>3 DEF Init, Slots, Slot, Queries
  <2>5. faults \in 0..MaxFaults
    BY DEF Init
  <2>6. QED
    BY <2>1, <2>2, <2>4, <2>5 DEF Init, TypeOK, Slots, Slot
<1>2. TypeOK /\ [Next]_vars => TypeOK'
  <2> SUFFICES ASSUME TypeOK, [Next]_vars PROVE TypeOK'
    OBVIOUS
  <2> USE DEF World, Database
  <2>1. ASSUME NEW r \in Runs, StartSync(r) PROVE TypeOK'
    <3> DEFINE todo == {[account |-> a, profile |-> profile[a]] : a \in Listing[r]}
               p == [run[r] EXCEPT !.pc = "next", !.todo = todo]
    <3>1. todo \in SUBSET Users
      BY DEF Users, TypeOK
    <3>2. run' = [run EXCEPT ![r] = p]
      BY <2>1 DEF StartSync
    <3> HIDE DEF todo
    <3>3. p \in Process /\ p.pc = "next"
      <4>1. run[r] \in Process
        BY DEF TypeOK
      <4>2. QED
        BY <3>1, <4>1 DEF Process, PCs
    <3> HIDE DEF p
    <3>4. Slot(p, Len(identities))
      BY <3>3 DEF Slot, Queries
    <3>5. overlapped' \in BOOLEAN
      BY <2>1 DEF StartSync, TypeOK
    <3>6. QED
      BY <2>1, <3>2, <3>3, <3>4, <3>5, ProcessStep DEF StartSync, TypeOK
  <2>2. ASSUME NEW r \in Runs, NextUser(r) PROVE TypeOK'
    <3>1. PICK u \in run[r].todo : run' = [run EXCEPT
         ![r].todo = @ \ {u}, ![r].user = u, ![r].id = 0, ![r].confidence = 0,
         ![r].pc = IF u.profile.email = None THEN "next"
                   ELSE IF u.profile.employee # None THEN "employee" ELSE "email"]
      BY <2>2 DEF NextUser
    <3> DEFINE p == [run[r] EXCEPT
         !.todo = @ \ {u}, !.user = u, !.id = 0, !.confidence = 0,
         !.pc = IF u.profile.email = None THEN "next"
                ELSE IF u.profile.employee # None THEN "employee" ELSE "email"]
    <3>2. u \in Users
      BY DEF TypeOK, Process
    <3>3. run' = [run EXCEPT ![r] = p]
      BY <3>1
    <3>4. p \in Process /\ p.user = u /\ p.pc \in {"next", "employee", "email"}
      <4>1. run[r] \in Process
        BY DEF TypeOK
      <4>2. QED
        BY <3>2, <4>1 DEF Process, PCs, Confidences
    <3>5. p.pc \in Queries => u.profile.email # None
      BY DEF TypeOK, Process, Queries
    <3> HIDE DEF p
    <3>6. Slot(p, Len(identities))
      BY <3>2, <3>4, <3>5 DEF Slot
    <3>7. QED
      BY <2>2, <3>3, <3>4, <3>6, ProcessStep DEF NextUser, TypeOK
  <2>3. ASSUME NEW r \in Runs, EndSync(r) \/ Abort(r) PROVE TypeOK'
    <3>1. Slot(IdleRun, Len(identities)) /\ IdleRun \in Process
      BY DEF Slot, IdleRun, Process, PCs, Queries, Confidences
    <3>2. run' = [run EXCEPT ![r] = IdleRun]
      BY <2>3 DEF EndSync, Abort
    <3>3. QED
      <4>1. overlapped' \in BOOLEAN /\ faults' \in 0..MaxFaults
        BY <2>3 DEF EndSync, Abort, TypeOK
      <4>2. QED
        BY <2>3, <3>1, <3>2, <4>1, ProcessStep DEF EndSync, Abort
  <2>4. ASSUME NEW r \in Runs, NEW i \in DOMAIN identities, NEW c \in Confidences,
               run[r].pc \in Queries, Found(r, i, c), UNCHANGED <<Database, World>>
        PROVE  TypeOK'
    <3> DEFINE p == [run[r] EXCEPT !.pc = "upsert", !.id = i, !.confidence = c]
    <3>1. run' = [run EXCEPT ![r] = p]
      BY <2>4 DEF Found
    <3>2. i \in 1..Len(identities) /\ i \in Nat
      BY DEF TypeOK
    <3>3. p \in Process /\ p.pc = "upsert" /\ p.user = run[r].user /\ p.id = i
      <4>1. run[r] \in Process
        BY DEF TypeOK
      <4>2. QED
        BY <3>2, <4>1 DEF Process, PCs
    <3> HIDE DEF p
    <3>4. Slot(p, Len(identities))
      BY <2>4, <3>2, <3>3 DEF TypeOK, Slot
    <3>5. QED
      BY <2>4, <3>1, <3>3, <3>4, ProcessStep DEF TypeOK
  <2>5. ASSUME NEW r \in Runs, NEW pc \in {"next", "email", "check", "insert"},
               run[r].pc \in Queries, Goto(r, pc), UNCHANGED <<Database, profile, changed>>,
               overlapped' \in BOOLEAN, faults' \in 0..MaxFaults
        PROVE  TypeOK'
    <3> DEFINE p == [run[r] EXCEPT !.pc = pc]
    <3>1. run' = [run EXCEPT ![r] = p]
      BY <2>5 DEF Goto
    <3>2. p \in Process /\ p.pc = pc /\ p.user = run[r].user
      <4>1. run[r] \in Process
        BY DEF TypeOK
      <4>2. pc \in PCs
        BY DEF PCs
      <4>3. QED
        BY <4>1, <4>2 DEF Process
    <3> HIDE DEF p
    <3>3. Slot(p, Len(identities))
      BY <2>5, <3>2 DEF TypeOK, Slot
    <3>4. QED
      BY <2>5, <3>1, <3>2, <3>3, ProcessStep
  <2>6. ASSUME NEW r \in Runs, MatchEmployee(r) PROVE TypeOK'
    BY <2>6, <2>4, <2>5 DEF MatchEmployee, WithEmployee, Confidences, Queries, TypeOK
  <2>7. ASSUME NEW r \in Runs, MatchEmail(r) \/ CheckExisting(r) PROVE TypeOK'
    BY <2>7, <2>4, <2>5 DEF MatchEmail, CheckExisting, WithEmail, Confidences, Queries, TypeOK
  <2>8. ASSUME NEW r \in Runs, InsertIdentity(r) PROVE TypeOK'
    <3> DEFINE n == Len(identities) + 1
               p == [run[r] EXCEPT !.pc = "upsert", !.id = n, !.confidence = 0]
    <3>1. run[r].user.profile \in [email : Emails, employee : EmployeeIds \cup {None}]
      <4>1. run[r].user \in Users /\ run[r].user.profile.email # None
        BY <2>8 DEF InsertIdentity, TypeOK, Queries
      <4>2. QED
        BY <4>1 DEF Users, Profile
    <3>2. /\ identities' \in Seq([email : Emails, employee : EmployeeIds \cup {None}])
          /\ Len(identities') = Len(identities) + 1
          /\ Len(identities) \in Nat
      BY <2>8, <3>1 DEF InsertIdentity, TypeOK
    <3>3. sources' \in [Accounts -> [id : 0..Len(identities'), confidence : Confidences]]
      <4>1. \A a \in Accounts : sources[a] \in [id : 0..Len(identities'), confidence : Confidences]
        BY <3>2 DEF TypeOK
      <4>2. QED
        BY <2>8, <4>1 DEF InsertIdentity, TypeOK
    <3>4. run' = [run EXCEPT ![r] = p]
      BY <2>8 DEF InsertIdentity, Found
    <3>5. /\ p \in Process /\ p.user = run[r].user
          /\ p.id = n
      <4>1. run[r] \in Process /\ n \in Nat
        BY <3>2 DEF TypeOK
      <4> HIDE DEF n
      <4>2. QED
        BY <4>1 DEF Process, PCs, Confidences
    <3> HIDE DEF p
    <3>6. Slot(p, Len(identities'))
      BY <2>8, <3>2, <3>5 DEF InsertIdentity, TypeOK, Slot, Queries
    <3>7. Slots'
      <4>1. Len(identities') \in Nat /\ Len(identities') >= Len(identities)
        BY <3>2
      <4> HIDE DEF n
      <4>2. QED
        BY <3>4, <3>5, <3>6, <4>1, SlotReplaced
    <3>8. QED
      BY <2>8, <3>2, <3>3, <3>7 DEF InsertIdentity, TypeOK, Slots, Slot
  <2>9. ASSUME NEW r \in Runs, UpsertSource(r) PROVE TypeOK'
    <3> DEFINE p == [run[r] EXCEPT !.pc = "next"]
               row == [id |-> run[r].id, confidence |-> run[r].confidence]
    <3>1. run' = [run EXCEPT ![r] = p]
      BY <2>9 DEF UpsertSource, Goto
    <3>2. p \in Process /\ p.pc = "next"
      <4>1. run[r] \in Process
        BY DEF TypeOK
      <4>2. QED
        BY <4>1 DEF Process, PCs
    <3> HIDE DEF p
    <3>3. Slots'
      <4>1. /\ Slot(p, Len(identities')) /\ Len(identities') \in Nat
            /\ Len(identities') >= Len(identities)
        BY <2>9, <3>2, SlotKept DEF Slot, Queries, UpsertSource
      <4>2. QED
        BY <3>1, <3>2, <4>1, SlotReplaced
    <3>4. row \in [id : 0..Len(identities), confidence : Confidences]
      BY <2>9 DEF UpsertSource, TypeOK, Process
    <3>5. sources' \in [Accounts -> [id : 0..Len(identities), confidence : Confidences]]
      <4>1. sources' = [sources EXCEPT ![run[r].user.account] = row]
        BY <2>9 DEF UpsertSource
      <4> HIDE DEF row
      <4>2. QED
        BY <3>4, <4>1 DEF TypeOK
    <3>6. QED
      BY <2>9, <3>3, <3>5 DEF UpsertSource, TypeOK, Slots, Slot
  <2>10. ASSUME NEW r \in Runs, QueryFails(r) PROVE TypeOK'
    BY <2>10, <2>5 DEF QueryFails, TypeOK
  <2>11. ASSUME NEW a \in Accounts, ChangeProfile(a) PROVE TypeOK'
    BY <2>11 DEF ChangeProfile, TypeOK
  <2>12. CASE UNCHANGED vars
    BY <2>12 DEF vars, TypeOK
  <2>13. QED
    BY <2>1, <2>2, <2>3, <2>6, <2>7, <2>8, <2>9, <2>10, <2>11, <2>12 DEF Next, SyncStep
<1>3. QED
  BY <1>1, <1>2, PTL DEF Spec
-----------------------------------------------------------------------------
\* What a run knows of an unedited account is what the provider holds.
Current ==
  \A r \in Runs : \A a \in Accounts \ changed :
    /\ \A u \in run[r].todo : u.account = a => u.profile = profile[a]
    /\ run[r].pc \in Queries /\ run[r].user.account = a =>
         run[r].user.profile = profile[a]

\* The identity of row i carries what confidence c claims about profile p.
Explains(i, p, c) ==
  /\ i \in DOMAIN identities
  /\ c = 100 => identities[i].employee = p.employee /\ p.employee # None
  /\ c # 100 => Lower[identities[i].email] = Lower[p.email]

\* The identity run r has picked fits its user; the one stored for account a
\* fits the account.
Fits(r)   == Explains(run[r].id, run[r].user.profile, run[r].confidence)
Linked(a) == Explains(sources[a].id, profile[a], sources[a].confidence)

\* A run looks up employee ids that exist, and what it is about to store is
\* explained by the user it has fetched.
Picked ==
  \A r \in Runs :
    /\ run[r].pc = "employee" => run[r].user.profile.employee # None
    /\ run[r].pc = "upsert" => Fits(r)

\* Rows of identities are never changed or deleted.
LEMMA RowsStay ==
  ASSUME TypeOK, [Next]_vars, NEW i \in DOMAIN identities
  PROVE  i \in DOMAIN identities' /\ identities'[i] = identities[i]
<1>1. ASSUME NEW r \in Runs, InsertIdentity(r)
      PROVE  i \in DOMAIN identities' /\ identities'[i] = identities[i]
  <2>1. run[r].user.profile \in [email : Emails, employee : EmployeeIds \cup {None}]
    <3>1. run[r].user \in Users /\ run[r].user.profile.email # None
      BY <1>1 DEF InsertIdentity, TypeOK, Queries
    <3>2. QED
      BY <3>1 DEF Users, Profile
  <2>2. QED
    BY <1>1, <2>1 DEF InsertIdentity, TypeOK
<1>2. CASE UNCHANGED identities
  BY <1>2
<1>3. QED
  BY <1>1, <1>2 DEF Next, SyncStep, StartSync, NextUser, EndSync, MatchEmployee, MatchEmail,
     CheckExisting, UpsertSource, QueryFails, Abort, ChangeProfile, Database, vars

LEMMA CurrentStays ==
  ASSUME TypeOK, Current, [Next]_vars
  PROVE  Current'
<1> USE DEF Current, Database, World
<1>1. ASSUME NEW r \in Runs, StartSync(r) PROVE Current'
  <2>1. \A u \in run'[r].todo : u.profile = profile[u.account]
    BY <1>1 DEF StartSync, TypeOK
  <2>2. run'[r].pc = "next" /\ \A q \in Runs \ {r} : run'[q] = run[q]
    BY <1>1 DEF StartSync, TypeOK, Process
  <2>3. profile' = profile /\ changed' = changed
    BY <1>1 DEF StartSync
  <2>4. QED
    BY <2>1, <2>2, <2>3 DEF Queries
<1>2. ASSUME NEW r \in Runs, NextUser(r) PROVE Current'
  <2>1. PICK u \in run[r].todo :
          run'[r].user = u /\ run'[r].todo = run[r].todo \ {u}
    BY <1>2 DEF NextUser, TypeOK, Process
  <2>2. \A q \in Runs \ {r} : run'[q] = run[q]
    BY <1>2 DEF NextUser, TypeOK
  <2>3. profile' = profile /\ changed' = changed
    BY <1>2 DEF NextUser
  <2>4. QED
    BY <2>1, <2>2, <2>3
<1>3. ASSUME NEW r \in Runs, run' = [run EXCEPT ![r] = IdleRun],
             UNCHANGED <<profile, changed>>
      PROVE  Current'
  BY <1>3 DEF IdleRun, Queries, TypeOK
<1>4. ASSUME NEW r \in Runs, run[r].pc \in Queries,
             run'[r].todo = run[r].todo, run'[r].user = run[r].user,
             \A q \in Runs \ {r} : run'[q] = run[q],
             UNCHANGED <<profile, changed>>
      PROVE  Current'
  BY <1>4
<1>5. ASSUME NEW r \in Runs,
             \/ MatchEmployee(r) \/ MatchEmail(r) \/ CheckExisting(r)
             \/ InsertIdentity(r) \/ UpsertSource(r) \/ QueryFails(r)
      PROVE  Current'
  <2>1. /\ run'[r].todo = run[r].todo /\ run'[r].user = run[r].user
        /\ \A q \in Runs \ {r} : run'[q] = run[q]
    <3>1. ASSUME NEW pc, Goto(r, pc)
          PROVE  /\ run'[r].todo = run[r].todo /\ run'[r].user = run[r].user
                 /\ \A q \in Runs \ {r} : run'[q] = run[q]
      BY <3>1 DEF Goto, TypeOK, Process
    <3>2. ASSUME NEW i, NEW c, Found(r, i, c)
          PROVE  /\ run'[r].todo = run[r].todo /\ run'[r].user = run[r].user
                 /\ \A q \in Runs \ {r} : run'[q] = run[q]
      BY <3>2 DEF Found, TypeOK, Process
    <3>3. QED
      BY <1>5, <3>1, <3>2 DEF MatchEmployee, MatchEmail, CheckExisting, InsertIdentity,
         UpsertSource, QueryFails
  <2>2. run[r].pc \in Queries /\ UNCHANGED <<profile, changed>>
    BY <1>5 DEF MatchEmployee, MatchEmail, CheckExisting, InsertIdentity, UpsertSource,
       QueryFails, Queries
  <2>3. QED
    BY <1>4, <2>1, <2>2
<1>6. ASSUME NEW b \in Accounts, ChangeProfile(b) PROVE Current'
  <2>1. \A a \in Accounts \ changed' : a \notin changed /\ profile'[a] = profile[a]
    BY <1>6 DEF ChangeProfile, TypeOK
  <2>2. run' = run
    BY <1>6 DEF ChangeProfile
  <2>3. QED
    BY <2>1, <2>2
<1>7. CASE UNCHANGED vars
  BY <1>7 DEF vars
<1>8. QED
  BY <1>1, <1>2, <1>3, <1>5, <1>6, <1>7 DEF Next, SyncStep, EndSync, Abort

LEMMA PickedStays ==
  ASSUME TypeOK, Picked, [Next]_vars
  PROVE  Picked'
<1> USE DEF Database, World
<1>1. ASSUME NEW r \in Runs, \A q \in Runs \ {r} : run'[q] = run[q],
             run'[r].pc = "employee" => run'[r].user.profile.employee # None,
             run'[r].pc = "upsert" => Fits(r)'
      PROVE  Picked'
  <2>1. ASSUME NEW q \in Runs \ {r}, run'[q].pc = "upsert"
        PROVE  Fits(q)'
    <3>1. Fits(q) /\ run'[q] = run[q]
      BY <1>1, <2>1 DEF Picked
    <3>2. QED
      BY <3>1, RowsStay DEF Fits, Explains
  <2>2. QED
    BY <1>1, <2>1 DEF Picked
<1>2. ASSUME NEW r \in Runs, NextUser(r) PROVE Picked'
  <2>1. PICK u \in run[r].todo :
          /\ run'[r].user = u /\ run'[r].pc # "upsert"
          /\ run'[r].pc = "employee" => u.profile.employee # None
          /\ \A q \in Runs \ {r} : run'[q] = run[q]
    BY <1>2 DEF NextUser, TypeOK, Process
  <2>2. QED
    BY <1>1, <2>1
<1>3. ASSUME NEW r \in Runs,
             StartSync(r) \/ EndSync(r) \/ Abort(r) \/ UpsertSource(r) \/ QueryFails(r)
      PROVE  Picked'
  <2>1. run'[r].pc \in {"idle", "next"} /\ \A q \in Runs \ {r} : run'[q] = run[q]
    BY <1>3 DEF StartSync, EndSync, Abort, UpsertSource, QueryFails, Goto, IdleRun,
       TypeOK, Process
  <2>2. QED
    BY <1>1, <2>1
<1>4. ASSUME NEW r \in Runs, NEW pc \in {"email", "check", "insert"}, Goto(r, pc) PROVE Picked'
  BY <1>1, <1>4 DEF Goto, TypeOK, Process
<1>5. ASSUME NEW r \in Runs, NEW i \in DOMAIN identities', NEW c \in Confidences,
             Found(r, i, c), Explains(i, run[r].user.profile, c)'
      PROVE  Picked'
  <2>1. /\ run'[r].pc = "upsert" /\ run'[r].id = i /\ run'[r].confidence = c
        /\ run'[r].user = run[r].user
        /\ \A q \in Runs \ {r} : run'[q] = run[q]
    BY <1>5 DEF Found, TypeOK, Process
  <2>2. Fits(r)'
    BY <1>5, <2>1 DEF Fits, Explains
  <2>3. QED
    BY <1>1, <2>1, <2>2
<1>6. ASSUME NEW r \in Runs, MatchEmployee(r) PROVE Picked'
  <2>1. identities' = identities /\ run[r].user.profile.employee # None
    BY <1>6 DEF MatchEmployee, Picked
  <2>2. ASSUME NEW i \in WithEmployee(run[r].user.profile.employee), Found(r, i, 100)
        PROVE  Picked'
    <3>1. i \in DOMAIN identities' /\ 100 \in Confidences
      BY <2>1 DEF WithEmployee, Confidences
    <3>2. Explains(i, run[r].user.profile, 100)'
      <4>1. run'[r].user = run[r].user
        BY <2>2 DEF Found, TypeOK, Process
      <4>2. QED
        BY <2>1, <4>1 DEF WithEmployee, Explains
    <3>3. QED
      BY <1>5, <2>2, <3>1, <3>2
  <2>3. QED
    BY <1>4, <1>6, <2>2 DEF MatchEmployee
<1>7. ASSUME NEW r \in Runs, MatchEmail(r) \/ CheckExisting(r) PROVE Picked'
  <2>1. identities' = identities
    BY <1>7 DEF MatchEmail, CheckExisting
  <2>2. ASSUME NEW i \in WithEmail(run[r].user.profile.email), NEW c \in {0, 95}, Found(r, i, c)
        PROVE  Picked'
    <3>1. i \in DOMAIN identities' /\ c \in Confidences
      BY <2>1 DEF WithEmail, Confidences
    <3>2. Explains(i, run[r].user.profile, c)'
      <4>1. run'[r].user = run[r].user
        BY <2>2 DEF Found, TypeOK, Process
      <4>2. QED
        BY <2>1, <4>1 DEF WithEmail, Explains
    <3>3. QED
      BY <1>5, <2>2, <3>1, <3>2
  <2>3. QED
    BY <1>4, <1>7, <2>2 DEF MatchEmail, CheckExisting
<1>8. ASSUME NEW r \in Runs, InsertIdentity(r) PROVE Picked'
  <2>1. run[r].user.profile \in [email : Emails, employee : EmployeeIds \cup {None}]
    <3>1. run[r].user \in Users /\ run[r].user.profile.email # None
      BY <1>8 DEF InsertIdentity, TypeOK, Queries
    <3>2. QED
      BY <3>1 DEF Users, Profile
  <2>2. /\ Len(identities) + 1 \in DOMAIN identities'
        /\ identities'[Len(identities) + 1] = run[r].user.profile
    BY <1>8, <2>1 DEF InsertIdentity, TypeOK
  <2>3. /\ run'[r].pc = "upsert" /\ run'[r].id = Len(identities) + 1
        /\ run'[r].confidence = 0 /\ run'[r].user = run[r].user
        /\ \A q \in Runs \ {r} : run'[q] = run[q]
    BY <1>8 DEF InsertIdentity, Found, TypeOK, Process
  <2>4. Fits(r)'
    BY <2>2, <2>3 DEF Fits, Explains
  <2>5. QED
    BY <1>1, <2>3, <2>4
<1>9. CASE UNCHANGED <<identities, run>>
  BY <1>9 DEF Picked, Fits, Explains
<1>10. QED
  BY <1>2, <1>3, <1>6, <1>7, <1>8, <1>9 DEF Next, SyncStep, ChangeProfile, vars

\* However runs interleave, fail and are killed, the identity an account is
\* linked to carries the attribute the stored confidence stands for: the
\* account's employee id at 1.0, its email in any case otherwise.  Accounts
\* edited since their last sync are left out (identities keep old values).
MatchExplained ==
  \A a \in Accounts \ changed : Resolved(a) =>
    Explains(sources[a].id, profile[a], sources[a].confidence)

LEMMA MatchStep ==
  ASSUME TypeOK, Current, Picked, MatchExplained, [Next]_vars
  PROVE  MatchExplained'
<1> SUFFICES ASSUME NEW a \in Accounts \ changed', sources'[a] # NoSource
             PROVE  Linked(a)'
  BY DEF MatchExplained, Resolved, Linked
<1>1. a \notin changed /\ profile'[a] = profile[a]
  BY DEF Next, SyncStep, StartSync, NextUser, EndSync, MatchEmployee, MatchEmail, CheckExisting,
     InsertIdentity, UpsertSource, QueryFails, Abort, ChangeProfile, World, vars, TypeOK
<1>2. CASE sources'[a] = sources[a]
  <2>1. Linked(a)
    BY <1>1, <1>2 DEF MatchExplained, Resolved, Linked
  <2>2. QED
    BY <1>1, <1>2, <2>1, RowsStay DEF Linked, Explains
<1>3. CASE sources'[a] # sources[a]
  <2>1. PICK r \in Runs : UpsertSource(r)
    BY <1>3 DEF Next, SyncStep, StartSync, NextUser, EndSync, MatchEmployee, MatchEmail,
       CheckExisting, InsertIdentity, QueryFails, Abort, ChangeProfile, Database, World, vars
  <2>2. /\ run[r].user.account = a
        /\ sources'[a].id = run[r].id /\ sources'[a].confidence = run[r].confidence
    BY <1>3, <2>1 DEF UpsertSource, TypeOK
  <2>3. run[r].user.profile = profile[a]
    BY <1>1, <2>1, <2>2 DEF Current, UpsertSource, Queries
  <2>4. Explains(run[r].id, profile[a], run[r].confidence)
    BY <2>1, <2>3 DEF Picked, Fits, UpsertSource
  <2>5. QED
    BY <1>1, <2>2, <2>4, RowsStay DEF Linked, Explains
<1>4. QED
  BY <1>2, <1>3

\* The identity an unedited account is linked to carries the attribute its
\* stored confidence claims, however resolveIdentity, CreateOrGetIdentity and
\* the upserts of any number of connectors interleave and fail.
THEOREM MatchesAreExplained == Spec => []MatchExplained
<1>1. Init => Current /\ Picked /\ MatchExplained
  BY DEF Init, Current, Picked, MatchExplained, Resolved, IdleRun, Queries
<1>2. TypeOK /\ Current /\ Picked /\ MatchExplained /\ [Next]_vars
        => Current' /\ Picked' /\ MatchExplained'
  BY CurrentStays, PickedStays, MatchStep
<1>3. QED
  BY <1>1, <1>2, TypeCorrect, PTL DEF Spec
-----------------------------------------------------------------------------
\* As long as no two runs have overlapped, at most one is active.
Alone ==
  ~overlapped => \A r, q \in Runs :
    r # q /\ run[r].pc # "idle" => run[q].pc = "idle"

\* What a run that is alone has not found still does not exist.
Absent ==
  ~overlapped => \A r \in Runs :
    /\ run[r].pc \in {"email", "check", "insert"} /\ run[r].user.profile.employee # None
         => WithEmployee(run[r].user.profile.employee) = {}
    /\ run[r].pc = "insert" => WithEmail(run[r].user.profile.email) = {}

LEMMA OtherRuns ==
  ASSUME TypeOK, [Next]_vars
  PROVE  \/ run' = run
         \/ \E r \in Runs :
              /\ \A q \in Runs \ {r} : run'[q] = run[q]
              /\ \/ StartSync(r) \/ NextUser(r) \/ EndSync(r) \/ MatchEmployee(r)
                 \/ MatchEmail(r) \/ CheckExisting(r) \/ InsertIdentity(r)
                 \/ UpsertSource(r) \/ QueryFails(r) \/ Abort(r)
<1>1. ASSUME NEW r \in Runs, NEW pc, Goto(r, pc) PROVE \A q \in Runs \ {r} : run'[q] = run[q]
  BY <1>1 DEF Goto, TypeOK
<1>2. ASSUME NEW r \in Runs, NEW i, NEW c, Found(r, i, c)
      PROVE  \A q \in Runs \ {r} : run'[q] = run[q]
  BY <1>2 DEF Found, TypeOK
<1>3. ASSUME NEW r \in Runs,
             MatchEmployee(r) \/ MatchEmail(r) \/ CheckExisting(r) \/ InsertIdentity(r)
      PROVE  \A q \in Runs \ {r} : run'[q] = run[q]
  BY <1>1, <1>2, <1>3 DEF MatchEmployee, MatchEmail, CheckExisting, InsertIdentity
<1>4. ASSUME NEW r \in Runs, UpsertSource(r) \/ QueryFails(r)
      PROVE  \A q \in Runs \ {r} : run'[q] = run[q]
  BY <1>1, <1>4 DEF UpsertSource, QueryFails
<1>5. ASSUME NEW r \in Runs, StartSync(r) \/ NextUser(r) \/ EndSync(r) \/ Abort(r)
      PROVE  \A q \in Runs \ {r} : run'[q] = run[q]
  BY <1>5 DEF StartSync, NextUser, EndSync, Abort, TypeOK
<1>6. ASSUME NEW a \in Accounts, ChangeProfile(a) PROVE run' = run
  BY <1>6 DEF ChangeProfile
<1>7. CASE UNCHANGED vars
  BY <1>7 DEF vars
<1>8. QED
  BY <1>3, <1>4, <1>5, <1>6, <1>7 DEF Next, SyncStep

LEMMA AloneStays ==
  ASSUME TypeOK, Alone, [Next]_vars
  PROVE  Alone'
<1>1. overlapped => overlapped'
  BY DEF Next, SyncStep, StartSync, NextUser, EndSync, MatchEmployee, MatchEmail, CheckExisting,
     InsertIdentity, UpsertSource, QueryFails, Abort, ChangeProfile, World, vars
<1>2. CASE run' = run
  BY <1>1, <1>2 DEF Alone
<1>3. ASSUME NEW r \in Runs, StartSync(r), \A q \in Runs \ {r} : run'[q] = run[q]
      PROVE  Alone'
  <2>1. ~overlapped' => ~overlapped /\ \A q \in Runs \ {r} : run[q].pc = "idle"
    BY <1>3 DEF StartSync
  <2>2. QED
    BY <1>3, <2>1 DEF Alone
<1>4. ASSUME NEW r \in Runs, run[r].pc # "idle", \A q \in Runs \ {r} : run'[q] = run[q]
      PROVE  Alone'
  BY <1>1, <1>4 DEF Alone
<1>5. QED
  BY <1>2, <1>3, <1>4, OtherRuns DEF NextUser, EndSync, MatchEmployee, MatchEmail,
     CheckExisting, InsertIdentity, UpsertSource, QueryFails, Queries, Abort

LEMMA AbsentStays ==
  ASSUME TypeOK, Alone, Absent, [Next]_vars
  PROVE  Absent'
<1> SUFFICES ASSUME ~overlapped' PROVE Absent'
  BY DEF Absent
<1>1. ~overlapped
  BY DEF Next, SyncStep, StartSync, NextUser, EndSync, MatchEmployee, MatchEmail, CheckExisting,
     InsertIdentity, UpsertSource, QueryFails, Abort, ChangeProfile, World, vars
<1>2. CASE run' = run /\ identities' = identities
  BY <1>1, <1>2 DEF Absent, WithEmployee, WithEmail
<1>3. ASSUME NEW r \in Runs, \A q \in Runs \ {r} : run'[q] = run[q],
             \/ StartSync(r) \/ EndSync(r) \/ UpsertSource(r) \/ QueryFails(r) \/ Abort(r)
      PROVE  Absent'
  <2>1. run'[r].pc \in {"idle", "next"} /\ identities' = identities
    BY <1>3 DEF StartSync, EndSync, UpsertSource, QueryFails, Abort, Goto, IdleRun,
       Database, TypeOK, Process
  <2>2. QED
    BY <1>1, <1>3, <2>1 DEF Absent, WithEmployee, WithEmail
<1>4. ASSUME NEW r \in Runs, \A q \in Runs \ {r} : run'[q] = run[q], NextUser(r)
      PROVE  Absent'
  <2>1. PICK u \in run[r].todo :
          /\ run'[r].user = u
          /\ run'[r].pc = IF u.profile.email = None THEN "next"
               ELSE IF u.profile.employee # None THEN "employee" ELSE "email"
    BY <1>4 DEF NextUser, TypeOK, Process
  <2>2. identities' = identities
    BY <1>4 DEF NextUser, Database
  <2>3. QED
    BY <1>1, <1>4, <2>1, <2>2 DEF Absent, WithEmployee, WithEmail
<1>5. ASSUME NEW r \in Runs, \A q \in Runs \ {r} : run'[q] = run[q],
             MatchEmployee(r) \/ MatchEmail(r) \/ CheckExisting(r)
      PROVE  Absent'
  <2>a. ASSUME NEW pc, Goto(r, pc) PROVE run'[r].user = run[r].user /\ run'[r].pc = pc
    BY <2>a DEF Goto, TypeOK, Process
  <2>b. ASSUME NEW i, NEW c, Found(r, i, c)
        PROVE  run'[r].user = run[r].user /\ run'[r].pc = "upsert"
    BY <2>b DEF Found, TypeOK, Process
  <2>1. identities' = identities /\ run'[r].user = run[r].user
    BY <1>5, <2>a, <2>b DEF MatchEmployee, MatchEmail, CheckExisting, Database
  <2>2. \/ run'[r].pc = "upsert"
        \/ run[r].pc = "employee" /\ run'[r].pc = "email"
             /\ WithEmployee(run[r].user.profile.employee) = {}
        \/ run[r].pc = "email" /\ run'[r].pc = "check"
        \/ run[r].pc = "check" /\ run'[r].pc = "insert"
             /\ WithEmail(run[r].user.profile.email) = {}
    BY <1>5, <2>a, <2>b DEF MatchEmployee, MatchEmail, CheckExisting
  <2>3. QED
    BY <1>1, <1>5, <2>1, <2>2 DEF Absent, WithEmployee, WithEmail
<1>6. ASSUME NEW r \in Runs, \A q \in Runs \ {r} : run'[q] = run[q], InsertIdentity(r)
      PROVE  Absent'
  <2>1. run'[r].pc = "upsert"
    BY <1>6 DEF InsertIdentity, Found, TypeOK, Process
  <2>2. \A q \in Runs \ {r} : run'[q].pc = "idle"
    BY <1>1, <1>6 DEF InsertIdentity, Alone
  <2>3. QED
    BY <2>1, <2>2 DEF Absent
<1>7. CASE run' = run /\ identities' # identities
  BY <1>7 DEF Next, SyncStep, StartSync, NextUser, EndSync, MatchEmployee, MatchEmail,
     CheckExisting, InsertIdentity, UpsertSource, QueryFails, Abort, ChangeProfile, Found,
     Database, vars, TypeOK, Process
<1>8. QED
  BY <1>2, <1>3, <1>4, <1>5, <1>6, <1>7, OtherRuns

LEMMA PersonStep ==
  ASSUME TypeOK, Absent, OneRowPerPerson, [Next]_vars
  PROVE  OneRowPerPerson'
<1> SUFFICES ASSUME ~overlapped' PROVE OneRowPerPerson'
  BY DEF OneRowPerPerson
<1>1. ~overlapped
  BY DEF Next, SyncStep, StartSync, NextUser, EndSync, MatchEmployee, MatchEmail, CheckExisting,
     InsertIdentity, UpsertSource, QueryFails, Abort, ChangeProfile, World, vars
<1>2. CASE identities' = identities
  BY <1>1, <1>2 DEF OneRowPerPerson
<1>3. ASSUME NEW r \in Runs, InsertIdentity(r) PROVE OneRowPerPerson'
  <2> DEFINE p == run[r].user.profile
             n == Len(identities) + 1
  <2>1. p \in [email : Emails, employee : EmployeeIds \cup {None}]
    <3>1. run[r].user \in Users /\ run[r].user.profile.email # None
      BY <1>3 DEF InsertIdentity, TypeOK, Queries
    <3>2. QED
      BY <3>1 DEF Users, Profile
  <2>2. /\ DOMAIN identities' = DOMAIN identities \cup {n}
        /\ n \notin DOMAIN identities
        /\ identities'[n] = p
        /\ \A i \in DOMAIN identities : identities'[i] = identities[i]
    BY <1>3, <2>1 DEF InsertIdentity, TypeOK
  <2>3. \A i \in DOMAIN identities :
          /\ Lower[identities[i].email] # Lower[p.email]
          /\ p.employee = None \/ identities[i].employee # p.employee
    BY <1>1, <1>3 DEF InsertIdentity, Absent, WithEmployee, WithEmail
  <2> HIDE DEF p, n
  <2>4. QED
    BY <1>1, <2>2, <2>3 DEF OneRowPerPerson
<1>4. QED
  BY <1>2, <1>3 DEF Next, SyncStep, StartSync, NextUser, EndSync, MatchEmployee, MatchEmail,
     CheckExisting, UpsertSource, QueryFails, Abort, ChangeProfile, Database, vars

\* As long as no two runs have overlapped, no two identities share an email or
\* an employee id: ResolveIdentity and CreateOrGetIdentity look before they
\* insert, and nobody else inserts in between.
THEOREM OnePersonOneRow == Spec => []OneRowPerPerson
<1>1. Init => Alone /\ Absent /\ OneRowPerPerson
  BY DEF Init, Alone, Absent, OneRowPerPerson, IdleRun
<1>2. TypeOK /\ Alone /\ Absent /\ OneRowPerPerson /\ [Next]_vars
        => Alone' /\ Absent' /\ OneRowPerPerson'
  BY AloneStays, AbsentStays, PersonStep
<1>3. QED
  BY <1>1, <1>2, TypeCorrect, PTL DEF Spec

-----------------------------------------------------------------------------
\* A run that is alone finds an unedited account again at least as well as its
\* stored row says: it gets past the employee id only if that was not what the
\* row was found by, and never past the email.
Refound ==
  ~overlapped => \A r \in Runs : \A a \in Accounts \ changed :
    Resolved(a) /\ run[r].pc \in Queries /\ run[r].user.account = a =>
      /\ run[r].pc \notin {"check", "insert"}
      /\ run[r].pc = "email" => sources[a].confidence # 100
      /\ run[r].pc = "upsert" => /\ run[r].confidence # 0
                                 /\ run[r].confidence # 100 => sources[a].confidence # 100

LEMMA Monotone ==
  ASSUME [Next]_vars
  PROVE  (overlapped => overlapped') /\ changed \subseteq changed'
<1>1. CASE UNCHANGED <<changed, overlapped>>
  BY <1>1
<1>2. ASSUME NEW r \in Runs, StartSync(r)
      PROVE  (overlapped => overlapped') /\ changed' = changed
  BY <1>2 DEF StartSync
<1>3. ASSUME NEW a \in Accounts, ChangeProfile(a)
      PROVE  overlapped' = overlapped /\ changed' = changed \cup {a}
  BY <1>3 DEF ChangeProfile
<1>4. QED
  BY <1>1, <1>2, <1>3 DEF Next, SyncStep, NextUser, EndSync, MatchEmployee, MatchEmail,
     CheckExisting, InsertIdentity, UpsertSource, QueryFails, Abort, World, vars

\* Only UpsertSource writes identity_sources, and it writes what the run holds.
LEMMA Upserts ==
  ASSUME TypeOK, [Next]_vars, NEW a \in Accounts, sources'[a] # sources[a]
  PROVE  \E r \in Runs : /\ UpsertSource(r) /\ run[r].user.account = a
                         /\ sources'[a].id = run[r].id
                         /\ sources'[a].confidence = run[r].confidence
<1>1. PICK r \in Runs : UpsertSource(r)
  BY DEF Next, SyncStep, StartSync, NextUser, EndSync, MatchEmployee, MatchEmail,
     CheckExisting, InsertIdentity, QueryFails, Abort, ChangeProfile, Database, World, vars
<1>2. /\ run[r].user.account = a
      /\ sources'[a].id = run[r].id /\ sources'[a].confidence = run[r].confidence
  BY <1>1 DEF UpsertSource, TypeOK
<1>3. QED
  BY <1>1, <1>2

LEMMA RefoundStays ==
  ASSUME TypeOK, Current, MatchExplained, Alone, Absent, Refound, [Next]_vars
  PROVE  Refound'
<1> SUFFICES ASSUME ~overlapped', NEW q \in Runs, NEW a \in Accounts \ changed',
                    sources'[a] # NoSource, run'[q].pc \in Queries, run'[q].user.account = a
             PROVE  /\ run'[q].pc \notin {"check", "insert"}
                    /\ run'[q].pc = "email" => sources'[a].confidence # 100
                    /\ run'[q].pc = "upsert" =>
                         /\ run'[q].confidence # 0
                         /\ run'[q].confidence # 100 => sources'[a].confidence # 100
  BY DEF Refound, Resolved
<1>1. ~overlapped /\ a \in Accounts \ changed
  BY Monotone
<1>2. CASE sources'[a] # sources[a]
  <2>1. PICK r \in Runs : UpsertSource(r)
    BY <1>2, Upserts
  <2>2. run'[r].pc = "next" /\ \A s \in Runs \ {r} : run'[s] = run[s]
    BY <2>1 DEF UpsertSource, Goto, TypeOK, Process
  <2>3. q = r
    BY <1>1, <2>1, <2>2 DEF Alone, UpsertSource, Queries
  <2>4. QED
    BY <2>2, <2>3 DEF Queries
<1>3. CASE sources'[a] = sources[a]
  <2>1. /\ sources[a].confidence = 100 => /\ profile[a].employee # None
                                           /\ WithEmployee(profile[a].employee) # {}
        /\ sources[a].confidence # 100 => WithEmail(profile[a].email) # {}
    BY <1>1, <1>3 DEF MatchExplained, Resolved, Explains, WithEmployee, WithEmail
  <2>2. CASE run'[q] = run[q]
    BY <1>1, <1>3, <2>2 DEF Refound, Resolved
  <2>3. CASE run'[q] # run[q]
    <3>1. \/ StartSync(q) \/ NextUser(q) \/ EndSync(q) \/ MatchEmployee(q)
          \/ MatchEmail(q) \/ CheckExisting(q) \/ InsertIdentity(q)
          \/ UpsertSource(q) \/ QueryFails(q) \/ Abort(q)
      BY <2>3, OtherRuns
    <3>2. CASE StartSync(q) \/ EndSync(q) \/ UpsertSource(q) \/ QueryFails(q) \/ Abort(q)
      <4>1. run'[q].pc \in {"idle", "next"}
        BY <3>2 DEF StartSync, EndSync, UpsertSource, QueryFails, Abort, Goto, IdleRun,
           TypeOK, Process
      <4>2. QED
        BY <4>1 DEF Queries
    <3>3. CASE NextUser(q)
      <4>1. PICK u \in run[q].todo :
              /\ run'[q].user = u
              /\ run'[q].pc = IF u.profile.email = None THEN "next"
                   ELSE IF u.profile.employee # None THEN "employee" ELSE "email"
        BY <3>3 DEF NextUser, TypeOK, Process
      <4>2. u.profile = profile[a]
        BY <1>1, <4>1 DEF Current
      <4>3. QED
        BY <1>3, <2>1, <4>1, <4>2 DEF Queries
    <3>a. ASSUME NEW pc, Goto(q, pc)
          PROVE  run'[q].user = run[q].user /\ run'[q].pc = pc
      BY <3>a DEF Goto, TypeOK, Process
    <3>b. ASSUME NEW i, NEW c, Found(q, i, c)
          PROVE  run'[q].user = run[q].user /\ run'[q].pc = "upsert" /\ run'[q].confidence = c
      BY <3>b DEF Found, TypeOK, Process
    <3>4. CASE MatchEmployee(q)
      <4>1. run[q].user.account = a /\ run[q].pc = "employee"
        BY <3>4, <3>a, <3>b DEF MatchEmployee
      <4>2. run[q].user.profile = profile[a]
        BY <1>1, <4>1 DEF Current, Queries
      <4>3. \/ run'[q].pc = "upsert" /\ run'[q].confidence = 100
            \/ run'[q].pc = "email" /\ WithEmployee(profile[a].employee) = {}
        BY <3>4, <3>a, <3>b, <4>2 DEF MatchEmployee
      <4>4. QED
        BY <1>3, <2>1, <4>3
    <3>5. CASE MatchEmail(q)
      <4>1. run[q].user.account = a /\ run[q].pc = "email"
        BY <3>5, <3>a, <3>b DEF MatchEmail
      <4>2. run[q].user.profile = profile[a] /\ sources[a].confidence # 100
        BY <1>1, <1>3, <4>1 DEF Current, Refound, Resolved, Queries
      <4>3. run'[q].pc = "upsert" /\ run'[q].confidence = 95
        BY <2>1, <3>5, <3>a, <3>b, <4>2 DEF MatchEmail
      <4>4. QED
        BY <1>3, <4>2, <4>3
    <3>6. CASE CheckExisting(q) \/ InsertIdentity(q)
      <4>1. run[q].user.account = a /\ run[q].pc \in {"check", "insert"}
        BY <3>6, <3>a, <3>b DEF CheckExisting, InsertIdentity
      <4>2. QED
        BY <1>1, <1>3, <4>1 DEF Refound, Resolved, Queries
    <3>7. QED
      BY <3>1, <3>2, <3>3, <3>4, <3>5, <3>6
  <2>4. QED
    BY <2>2, <2>3
<1>4. QED
  BY <1>2, <1>3

LEMMA ResolutionInvariant ==
  Spec => [](TypeOK /\ Current /\ Picked /\ MatchExplained /\ Alone /\ Absent
             /\ OneRowPerPerson /\ Refound)
<1>1. Init => /\ Current /\ Picked /\ MatchExplained /\ Alone /\ Absent
              /\ OneRowPerPerson /\ Refound
  BY DEF Init, Current, Picked, MatchExplained, Resolved, IdleRun, Queries, Alone, Absent,
     OneRowPerPerson, Refound
<1>2. TypeOK /\ Current /\ Picked /\ MatchExplained /\ Alone /\ Absent
        /\ OneRowPerPerson /\ Refound /\ [Next]_vars
        => Current' /\ Picked' /\ MatchExplained' /\ Alone' /\ Absent'
           /\ OneRowPerPerson' /\ Refound'
  BY CurrentStays, PickedStays, MatchStep, AloneStays, AbsentStays, PersonStep, RefoundStays
<1>3. QED
  BY <1>1, <1>2, TypeCorrect, PTL DEF Spec

\* What an upsert does to the row of an unedited account.
LEMMA Upserted ==
  ASSUME TypeOK, Current, Picked, MatchExplained, OneRowPerPerson, Refound, [Next]_vars,
         NEW a \in Accounts \ changed', ~overlapped', Resolved(a), sources'[a] # sources[a]
  PROVE  /\ sources'[a].confidence \in {95, 100}
         /\ sources'[a].confidence # 100 => sources[a].confidence # 100
         /\ sources'[a].id # sources[a].id =>
              sources[a].confidence # 100 /\ sources'[a].confidence = 100
<1>1. ~overlapped /\ a \in Accounts \ changed
  BY Monotone
<1>2. PICK r \in Runs : /\ UpsertSource(r) /\ run[r].user.account = a
                        /\ sources'[a].id = run[r].id
                        /\ sources'[a].confidence = run[r].confidence
  BY Upserts
<1>3. run[r].pc = "upsert" /\ run[r].user.profile = profile[a] /\ run[r].confidence \in Confidences
  BY <1>1, <1>2 DEF UpsertSource, Current, Queries, TypeOK, Process
<1>4. /\ run[r].confidence # 0
      /\ run[r].confidence # 100 => sources[a].confidence # 100
  BY <1>1, <1>2, <1>3 DEF Refound, Queries
<1>5. /\ Explains(run[r].id, profile[a], run[r].confidence)
      /\ Explains(sources[a].id, profile[a], sources[a].confidence)
  BY <1>1, <1>3 DEF Picked, Fits, MatchExplained
<1>6. ASSUME run[r].id # sources[a].id
      PROVE  sources[a].confidence # 100 /\ run[r].confidence = 100
  BY <1>1, <1>4, <1>5, <1>6 DEF Explains, OneRowPerPerson
<1>7. QED
  BY <1>2, <1>3, <1>4, <1>6 DEF Confidences

\* A resync of an account that was not edited never lowers its confidence, as
\* long as no two runs have overlapped (resolveIdentity, upsertIdentitySource).
THEOREM ConfidenceStays == Spec => ConfidenceKept
<1>1. TypeOK /\ Current /\ Picked /\ MatchExplained /\ OneRowPerPerson /\ Refound /\ [Next]_vars
        => [\A a \in Accounts \ changed' : ~overlapped' /\ Resolved(a) =>
              sources'[a].confidence >= sources[a].confidence]_vars
  <2> SUFFICES ASSUME TypeOK, Current, Picked, MatchExplained, OneRowPerPerson, Refound,
                      [Next]_vars, NEW a \in Accounts \ changed', ~overlapped', Resolved(a)
               PROVE  sources'[a].confidence >= sources[a].confidence
    OBVIOUS
  <2>1. sources[a].confidence \in {0, 95, 100}
    BY DEF TypeOK, Confidences
  <2>2. QED
    BY <2>1, Upserted
<1>2. QED
  BY <1>1, ResolutionInvariant, PTL DEF Spec, ConfidenceKept

\* Nor does it move the account from one identity to another, but once: when
\* an identity with its employee id has appeared since.
THEOREM MovesOnce == Spec => AccountMovesOnce
<1>1. TypeOK /\ Current /\ Picked /\ MatchExplained /\ OneRowPerPerson /\ Refound /\ [Next]_vars
        => [\A a \in Accounts \ changed' :
              ~overlapped' /\ Resolved(a) /\ sources'[a].id # sources[a].id =>
                sources[a].confidence < 100 /\ sources'[a].confidence = 100]_vars
  <2> SUFFICES ASSUME TypeOK, Current, Picked, MatchExplained, OneRowPerPerson, Refound,
                      [Next]_vars, NEW a \in Accounts \ changed', ~overlapped', Resolved(a),
                      sources'[a].id # sources[a].id
               PROVE  sources[a].confidence < 100 /\ sources'[a].confidence = 100
    OBVIOUS
  <2>1. sources[a].confidence \in {0, 95, 100}
    BY DEF TypeOK, Confidences
  <2>2. QED
    BY <2>1, Upserted
<1>2. QED
  BY <1>1, ResolutionInvariant, PTL DEF Spec, AccountMovesOnce

=============================================================================
