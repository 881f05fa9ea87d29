------------------------------ MODULE GraphSync ------------------------------
(***************************************************************************)
(* The copy of the tables in Neo4j (src/backend/graph_sync.go, the handler *)
(* SyncGraph) and what is answered from the copy and from the tables while *)
(* it is rebuilt (src/backend/handler.go and the queries of AccessQueries).*)
(*                                                                         *)
(* A sync deletes the graph and then goes through nine stages, each a read *)
(* of a table and a write of the graph; a tenth reads a column that no     *)
(* migration adds, so every sync ends with an error.  Syncs take no lock:  *)
(* any number of requests run them side by side, while connectors insert.  *)
(* A client that goes away leaves the graph as it is and nothing recorded. *)
(*                                                                         *)
(* Nothing deletes rows of the tables.  Two MERGEs at once may create two  *)
(* nodes for one row; the graph is kept as sets, where they are one.       *)
(* clearer and the fields base and cut of a sync are only observers.       *)
(***************************************************************************)
EXTENDS AccessQueries

CONSTANTS Sync,         \* requests to sync the graph
          Reader,       \* requests for the dossier of an identity
          Tables,       \* what the tables may hold at first
          MaxRequests,  \* bounds on requests served, failures and inserts
          MaxFaults, MaxInserts,
          IqlQuery      \* what is asked in IQL

ASSUME TablesAssumption ==
    \A t \in Tables : /\ t.rows \subseteq Entity
                      /\ t.links \subseteq Link \cap (t.rows \X t.rows)
ASSUME QueriesAssumption ==
    LET Text(K) == {t \in [contains : SUBSET K, equals : SUBSET K] : t.equals \subseteq t.contains}
    IN IqlQuery \subseteq [system : {None} \cup SUBSET {SystemOf[r] : r \in Role},
                          role : {None} \cup Text(Role), group : {None} \cup Text(Group),
                          mfa : {None} \cup BOOLEAN, active : {None} \cup BOOLEAN,
                          email : {None} \cup [contains : SUBSET User, ilike : SUBSET User]]
ASSUME BoundsAssumption == {MaxRequests, MaxFaults, MaxInserts} \subseteq Nat

VARIABLES rows, links,  \* the tables
          nodes, edges, \* the graph
          sync,         \* what each sync is doing
          last_error,   \* graph_sync_state: the stage of the recorded error
          dossier,      \* what each reader has read
          faults, inserts,
          clearer       \* observer: the sync that deleted the graph last

tables == <<rows, links>>
graph  == <<nodes, edges>>
vars   == <<tables, graph, sync, last_error, dossier, faults, inserts, clearer>>

NodeStages == 1 .. 5
EdgeStages == 6 .. 9

\* What the stages of syncNodes and syncRelationships read.
Table(n) == CASE n = 1 -> User       [] n = 2 -> Group    [] n = 3 -> Role
              [] n = 4 -> Permission [] n = 5 -> Resource
              [] n = 6 -> Membership [] n = 7 -> User \X Role
              [] n = 8 -> Group \X Role [] n = 9 -> Permits

PC == {"idle", "fetch", "write", "record", "done"}

\* base: the tables when the sync deleted the graph; cut: the stages that got
\* only a part of their table.
Control == [pc : PC, stage : 0 .. 10, batch : SUBSET (Entity \cup Link),
            base : [rows : SUBSET Entity, links : SUBSET Link], cut : SUBSET (1 .. 9)]

\* paths and identity are kept until the dossier is answered.
Dossier == [pc : {"idle", "lineage", "answered", "failed"}, identity : User \cup {None},
            paths : SUBSET ((Role \X Permission) \cup (Group \X Role \X Permission))]

NoDossier(p) == [pc |-> p, identity |-> None, paths |-> {}]

Init == /\ \E t \in Tables : rows = t.rows /\ links = t.links
        /\ nodes = {} /\ edges = {}
        /\ sync = [s \in Sync |-> [pc |-> "idle", stage |-> 0, batch |-> {},
                                   base |-> [rows |-> {}, links |-> {}],
                                   cut |-> {}]]
        /\ last_error = None
        /\ dossier = [d \in Reader |-> NoDossier("idle")]
        /\ faults = 0 /\ inserts = 0
        /\ clearer = None

Fault == faults < MaxFaults /\ faults' = faults + 1

SyncAt(s, p) == sync[s].pc = p

Arrives == Cardinality({s \in Sync : ~SyncAt(s, "idle")})
           + Cardinality({d \in Reader : dossier[d].pc # "idle"}) < MaxRequests

Becomes(s, p, n, batch) ==
    sync' = [sync EXCEPT ![s].pc = p, ![s].stage = n, ![s].batch = batch]

\* SyncAll returns the error of the stage it is in.
Gives(s) == Becomes(s, "record", sync[s].stage, {})

-----------------------------------------------------------------------------
(* A sync.                                                                 *)

\* It begins with clearGraph, one transaction, which may fail, also after it
\* has committed.
Clear(s) ==
    /\ SyncAt(s, "idle") /\ Arrives
    /\ \/ /\ sync' = [sync EXCEPT ![s].pc = "fetch", ![s].stage = 1,
                          ![s].base = [rows |-> rows, links |-> links],
                          ![s].cut = {}]
          /\ nodes' = {} /\ edges' = {} /\ clearer' = s
          /\ UNCHANGED faults
       \/ /\ Fault
          /\ Gives(s)
          /\ nodes' = {} /\ edges' = {} /\ clearer' = s
       \/ /\ Fault
          /\ Gives(s)
          /\ UNCHANGED <<graph, clearer>>
    /\ UNCHANGED <<tables, last_error, dossier, inserts>>

Contents(n) == IF n \in NodeStages THEN rows \cap Table(n) ELSE links \cap Table(n)

\* What a fetch function may get.  The link tables have no NULL.
Scanned(n) == IF n \in NodeStages THEN Scans(Contents(n)) ELSE {Contents(n)}

\* It goes on with what it has got.
Takes(s, got) ==
    LET n == sync[s].stage
    IN sync' = [sync EXCEPT ![s].pc = "write", ![s].batch = got,
                            ![s].cut = IF got = Contents(n) THEN @ ELSE @ \cup {n}]

\* The loop also ends when the connection breaks, and no one reads rows.Err.
Fetch(s) ==
    LET n == sync[s].stage IN
    /\ SyncAt(s, "fetch")
    /\ n \in NodeStages \cup EdgeStages
    /\ \/ /\ \E got \in Scanned(n) : Takes(s, got)
          /\ UNCHANGED faults
       \/ /\ Fault
          /\ \E got \in UNION {SUBSET all : all \in Scanned(n)} : Takes(s, got)
       \/ /\ Fault
          /\ Gives(s)
    /\ UNCHANGED <<tables, graph, last_error, dossier, inserts, clearer>>

\* A bug: an edge is also merged when one of its ends is missing.
MergeDangling(n, batch) ==
    IF n \in NodeStages THEN nodes' = nodes \cup batch /\ UNCHANGED edges
    ELSE edges' = edges \cup {e \in batch : e[1] \in nodes \/ e[2] \in nodes}
         /\ UNCHANGED nodes

\* Relationships are merged between the nodes that are there.
Merge(n, batch) ==
    IF n \in NodeStages THEN nodes' = nodes \cup batch /\ UNCHANGED edges
    ELSE edges' = edges \cup {e \in batch : e[1] \in nodes /\ e[2] \in nodes}
         /\ UNCHANGED nodes

\* One transaction; it may fail, also after it has committed.
Write(s) ==
    LET n == sync[s].stage IN
    /\ SyncAt(s, "write")
    /\ \/ /\ Merge(n, sync[s].batch)
          /\ Becomes(s, "fetch", n + 1, {})
          /\ UNCHANGED faults
       \/ /\ Fault
          /\ Merge(n, sync[s].batch)
          /\ Gives(s)
       \/ /\ Fault
          /\ Gives(s)
          /\ UNCHANGED graph
    /\ UNCHANGED <<tables, last_error, dossier, inserts, clearer>>

\* fetchPermissionResources asks permissions for a column permission_id.
FetchPermissionResources(s) ==
    /\ SyncAt(s, "fetch")
    /\ sync[s].stage = 10
    /\ Gives(s)
    /\ UNCHANGED <<tables, graph, last_error, dossier, faults, inserts, clearer>>

\* RecordGraphSyncState with an error; the answer is 500 whether it works or not.
Record(s) ==
    /\ SyncAt(s, "record")
    /\ Becomes(s, "done", sync[s].stage, {})
    /\ \/ last_error' = sync[s].stage /\ UNCHANGED faults
       \/ Fault /\ UNCHANGED last_error
    /\ UNCHANGED <<tables, graph, dossier, inserts, clearer>>

\* The request's context ends: the next call fails, and so does the record.
Cancel(s) ==
    /\ sync[s].pc \in {"fetch", "write", "record"}
    /\ Fault
    /\ sync' = [sync EXCEPT ![s].pc = "done", ![s].batch = {}]
    /\ UNCHANGED <<tables, graph, last_error, dossier, inserts, clearer>>

-----------------------------------------------------------------------------
(* identityByID, of which the two queries on access are kept.              *)

ReadPermissions(d, u) ==
    /\ dossier[d].pc = "idle" /\ Arrives
    /\ u \in rows
    /\ dossier' = [dossier EXCEPT ![d] = [pc |-> "lineage", identity |-> u,
                       paths |-> EffectivePaths(u, links)]]
    /\ UNCHANGED <<tables, graph, sync, last_error, faults, inserts, clearer>>

\* The name of the first hop is scanned into a string: NULL is an error.
ReadLineage(d) ==
    LET u == dossier[d].identity
    IN /\ dossier[d].pc = "lineage"
       /\ \/ /\ u \in Nameless /\ Lineage(u, links) # {}
             /\ dossier' = [dossier EXCEPT ![d] = NoDossier("failed")]
          \/ /\ u \notin Nameless \/ Lineage(u, links) = {}
             /\ dossier' = [dossier EXCEPT ![d] = NoDossier("answered")]
       /\ UNCHANGED <<tables, graph, sync, last_error, faults, inserts, clearer>>

-----------------------------------------------------------------------------
\* A bug: no foreign key keeps a link without its rows out.
InsertLoose ==
    /\ inserts < MaxInserts
    /\ inserts' = inserts + 1
    /\ \/ /\ \E e \in Entity \ rows : rows' = rows \cup {e}
          /\ UNCHANGED links
       \/ /\ \E l \in Link \ links : links' = links \cup {l}
          /\ UNCHANGED rows
    /\ UNCHANGED <<graph, sync, last_error, dossier, faults, clearer>>

\* A connector inserts a row, or a link between rows.
Insert ==
    /\ inserts < MaxInserts
    /\ inserts' = inserts + 1
    /\ \/ /\ \E e \in Entity \ rows : rows' = rows \cup {e}
          /\ UNCHANGED links
       \/ /\ \E l \in (Link \cap (rows \X rows)) \ links : links' = links \cup {l}
          /\ UNCHANGED rows
    /\ UNCHANGED <<graph, sync, last_error, dossier, faults, clearer>>

Next == \/ \E s \in Sync : \/ Clear(s) \/ Fetch(s) \/ Write(s)
                           \/ FetchPermissionResources(s) \/ Record(s) \/ Cancel(s)
        \/ \E d \in Reader : \/ \E u \in User : ReadPermissions(d, u)
                             \/ ReadLineage(d)
        \/ Insert

Spec == Init /\ [][Next]_vars

-----------------------------------------------------------------------------
\* The types of all variables.
TypeOK ==
    /\ rows \subseteq Entity
    /\ links \subseteq Link \cap (rows \X rows)
    /\ nodes \subseteq Entity
    /\ edges \subseteq Link
    /\ sync \in [Sync -> Control]
    /\ last_error \in (0 .. 10) \cup {None}
    /\ dossier \in [Reader -> Dossier]
    /\ faults \in 0 .. MaxFaults
    /\ inserts \in 0 .. MaxInserts
    /\ clearer \in Sync \cup {None}

\* Of what the tables held when s deleted the graph, the rows of stage n, and
\* its links between rows of tables that were not cut.
BaseRows(s, n)  == sync[s].base.rows \cap Table(n)
BaseLinks(s, n) == {l \in sync[s].base.links \cap Table(n) :
                       \A m \in NodeStages \cap sync[s].cut :
                           l[1] \notin Table(m) /\ l[2] \notin Table(m)}

\* s has written stage n, with all that was in its table.
Written(s, n) == n < sync[s].stage /\ n \notin sync[s].cut

\* The graph never holds a node without its row, an edge without its link or
\* an end of an edge.  And whatever other syncs fail, are cancelled or write
\* meanwhile: what the sync that deleted the graph last has gone through is
\* all there, as it was when the graph was deleted, but for the tables it got
\* only a part of and the links of their rows (graph_sync.go:26-46).
LastClearerRebuilds ==
    /\ nodes \subseteq rows
    /\ edges \subseteq links \cap (nodes \X nodes)
    /\ \A s \in Sync : s = clearer =>
          /\ \A n \in NodeStages : Written(s, n) => BaseRows(s, n) \subseteq nodes
          /\ \A n \in EdgeStages : Written(s, n) => BaseLinks(s, n) \subseteq edges

\* The sync that deleted the graph last has written all of it, without a cut
\* of users, groups, roles and their links, and nothing was inserted since.
Mirrored == /\ clearer \in Sync
            /\ sync[clearer].cut \subseteq {4, 5, 9}
            /\ sync[clearer].stage = 10
            /\ sync[clearer].base = [rows |-> rows, links |-> links]

\* The users for whom all fields of a query hold, by the tables.
Meant(q) ==
    {u \in User \cap rows :
        /\ UserMatches(q, u)
        /\ q.system # None \/ q.role # None =>
              \E r \in RolesReached(u, links) :
                  /\ q.system = None \/ SystemOf[r] \in q.system
                  /\ q.role = None \/ r \in q.role.contains
        /\ q.group # None => \E g \in q.group.contains : <<u, g>> \in links}

\* A query that asks for a role or a group and anything else is misread, and
\* mfa:true is ignored where no system, role or group is asked for.
WellRead(q) == /\ \/ q.role = None /\ q.group = None
                  \/ Cardinality({f \in DOMAIN q : q[f] # None}) = 1
               /\ UsesGraph(q) \/ q.mfa # TRUE

\* Whatever was lost or is missing, the graph gives no one a role that the
\* tables do not; no rule and no IQL query finds a user in the graph whom it
\* would not find in the tables; and no IQL query, of the graph or of the
\* tables, finds one it does not mean, if it is well read
\* (iql_parser.go:76, toxic_combo_rules.go:48).
GraphGrantsNothing ==
    /\ \A u \in User : RolesReached(u, edges) \subseteq RolesReached(u, links)
    /\ LET found == UserRules(nodes, edges)  allowed == UserRules(rows, links)
       IN \A n \in 1 .. 3 : found[n] \subseteq allowed[n]
    /\ \A q \in IqlQuery :
          LET allowed == Users(GraphRows(q, rows, links))  meant == Meant(q)
          IN \A answer \in IQLAnswers(q, rows, nodes, edges) :
                /\ UsesGraph(q) => answer \subseteq allowed
                /\ WellRead(q) => answer \subseteq meant

\* Once rebuilt, it misses no one: a well-read IQL query finds all users it
\* means when its rows keep within the limit; of those whom the risk engine's
\* rule finds, the graph's "Cross-System Admin" misses only holders of a role
\* that is 'administrator' or 'super_admin', which is no admin role to it; and
\* a group it calls orphaned has no member (toxic_combo_rules.go:111-160).
GraphFindsAll ==
    Mirrored =>
        /\ \A q \in IqlQuery :
              WellRead(q) /\ Cardinality(IQLRows(q, rows, nodes, edges)) <= Limit =>
                  \A answer \in IQLAnswers(q, rows, nodes, edges) : Meant(q) \subseteq answer
        /\ \A u \in CrossSystemAdmins(links) \ CrossSystemAdmin(nodes, edges) :
              \E r \in EngineAdmin \ Admin : <<u, r>> \in links
        /\ \A g \in OrphanedGroupWithAdminRole(edges), u \in User : <<u, g>> \notin links

\* Each path of a dossier is explained, hop by hop, by the lineage that is read
\* after it and answered with it (handler.go:150-208).
DossierExplained ==
    \A d \in Reader : \A path \in dossier[d].paths :
        \A h \in Hops(dossier[d].identity, path) :
            [permission |-> PermissionOf(path), hop |-> h] \in Lineage(dossier[d].identity, links)

\* The answers agree with the tables, from wherever they are read.
AnswersTellTheTables == GraphGrantsNothing /\ GraphFindsAll /\ DossierExplained
=============================================================================
