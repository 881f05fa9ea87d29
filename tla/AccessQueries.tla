---------------------------- MODULE AccessQueries ----------------------------
(***************************************************************************)
(* What the system answers about access, from two stores.  From the        *)
(* tables: the views of migrations/002_effective_access.sql and a rule of  *)
(* src/backend/risk_engine.go.  From the graph in Neo4j: the default rules *)
(* of src/backend/toxic_combo_rules.go and the queries that                *)
(* src/backend/iql_parser.go builds.                                       *)
(*                                                                         *)
(* A row is its own name; its columns are constants.  links stands for the *)
(* four link tables, edges for the relationships of the graph; both are    *)
(* sets of pairs.  An IQL text that is matched with CONTAINS is the set of *)
(* rows whose name contains it.                                            *)
(***************************************************************************)
EXTENDS Integers, FiniteSets, Sequences

CONSTANTS User, Group, Role, Permission, Resource,
          Active,       \* users with status 'active'
          Admin,        \* roles with privilege_level 'admin'
          Writer,       \* with 'write'
          EngineAdmin,  \* with 'admin', 'administrator' or 'super_admin'
          SystemOf,     \* source_system of a role
          AWS,          \* systems with 'aws' in their name
          Readable,     \* rows without NULL in a column that the graph sync
                        \* and IQL scan into a string: employee_id and
                        \* display_name of a user, resource_type of a permission
          Nameless,     \* users without a display_name
          Limit,        \* of the rows that an IQL query returns, 100
          None          \* NULL; a field that a query leaves out

Entity == User \cup Group \cup Role \cup Permission \cup Resource

Membership == User \X Group
HasRole    == (User \cup Group) \X Role
Permits    == Role \X Permission

Link == Membership \cup HasRole \cup Permits

ASSUME KindsAssumption ==
    /\ LET Kind == <<User, Group, Role, Permission, Resource>>
       IN \A k, l \in 1 .. 5 : k # l => Kind[k] \cap Kind[l] = {}
    /\ Active \subseteq User
    /\ Admin \subseteq EngineAdmin /\ EngineAdmin \subseteq Role
    /\ Writer \subseteq Role
    /\ Readable \subseteq Entity
    /\ Nameless \subseteq User \ Readable
    /\ Group \cup Role \cup Resource \subseteq Readable
ASSUME SystemsAssumption == IsFiniteSet({SystemOf[r] : r \in Role})
ASSUME LimitAssumption == Limit \in Nat
ASSUME NoneAssumption == None \notin BOOLEAN

-----------------------------------------------------------------------------
(* The tables.                                                             *)

\* identity_effective_permissions, a row per path: <<role, permission>> for
\* a role of one's own, <<group, role, permission>> for one of a group.
EffectivePaths(u, links) ==
    {p \in Permits : <<u, p[1]>> \in links /\ p \in links}
    \cup {p \in Group \X Role \X Permission :
             <<u, p[1]>> \in links /\ <<p[1], p[2]>> \in links /\ <<p[2], p[3]>> \in links}

PermissionOf(path) == path[Len(path)]

\* identity_access_lineage, a row per hop.  The rows of several paths to one
\* permission are not told apart.
Hops(u, path) == {<<1, u>>} \cup {<<n + 1, path[n]>> : n \in DOMAIN path}

Lineage(u, links) ==
    UNION {{[permission |-> PermissionOf(path), hop |-> h] : h \in Hops(u, path)} :
               path \in EffectivePaths(u, links)}

\* The first rule of RiskEngine: admin roles of one's own in two systems.
CrossSystemAdmins(links) ==
    {u \in User : \E r, s \in EngineAdmin : /\ <<u, r>> \in links /\ <<u, s>> \in links
                                            /\ SystemOf[r] # SystemOf[s]}

\* What a loop over the rows it has found gets: a row that cannot be scanned
\* closes them, so that the loop, which goes on, sees no more.  In which order
\* rows come is not said.
Scans(found) == IF found \subseteq Readable THEN {found} ELSE SUBSET (found \cap Readable)

-----------------------------------------------------------------------------
(* The graph.                                                              *)

\* (u)-[:MEMBER_OF|HAS_ROLE*1..3]->(r:Role), a row per path.  A group is a
\* member of nothing, and neither relationship leads on from a role: what comes
\* before the role is the user or a group of the user's.
RolePaths(u, edges) ==
    {p \in ({u} \cup Group) \X Role : p \in edges /\ (p[1] = u \/ <<u, p[1]>> \in edges)}

RolesReached(u, edges) == {p[2] : p \in RolePaths(u, edges)}

\* The default rules.  u.mfa_enabled is never set, so its test is always true.
AWSAdminWithNoMFA(nodes, edges) ==
    {u \in User \cap nodes : \E r \in Admin \cap RolesReached(u, edges) : SystemOf[r] \in AWS}

CrossSystemAdmin(nodes, edges) ==
    {u \in User \cap nodes :
        Cardinality({SystemOf[r] : r \in Admin \cap RolesReached(u, edges)}) >= 2}

\* A bug: the arrow of MEMBER_OF points the other way.
OrphanedGroupReversed(edges) ==
    {g \in Group : /\ \E r \in Admin : <<g, r>> \in edges
                   /\ ~\E u \in User : <<g, u>> \in edges}

OrphanedGroupWithAdminRole(edges) ==
    {g \in Group : /\ \E r \in Admin : <<g, r>> \in edges
                   /\ ~\E u \in User : <<u, g>> \in edges}

PrivilegedRoleWithoutMFA(nodes, edges) ==
    {u \in User \cap nodes : RolesReached(u, edges) \cap (Admin \cup Writer) # {}}

\* EvaluateAll, without the rule above that is about groups.
UserRules(nodes, edges) == <<AWSAdminWithNoMFA(nodes, edges), CrossSystemAdmin(nodes, edges),
                             PrivilegedRoleWithoutMFA(nodes, edges)>>

-----------------------------------------------------------------------------
(* IQL.  A query is a record of its fields, None where it has none: system *)
(* is a set of systems, role and group are records of the rows whose name  *)
(* contains the text and of those whose name is the text, mfa is BOOLEAN,  *)
(* active the status asked for, email is a record of the users whose       *)
(* address has the text, as the graph's CONTAINS has it and as the tables' *)
(* ILIKE, which takes small and capital letters for one and % and _ for    *)
(* wildcards.                                                              *)

UsesGraph(q) == q.system # None \/ q.role # None \/ q.group # None

\* The conditions on the user, joined with AND.
UserMatches(q, u) ==
    /\ q.mfa # TRUE
    /\ q.active = None \/ q.active = (u \in Active)
    /\ q.email = None \/ u \in (IF UsesGraph(q) THEN q.email.contains ELSE q.email.ilike)

\* "CONTAINS OR =" is joined without brackets: AND binds more closely.
TextMatches(text, x, before, after) ==
    (before /\ x \in text.contains) \/ (x \in text.equals /\ after)

RoleMatches(q, r, u) ==
    LET inSystem == q.system = None \/ SystemOf[r] \in q.system
    IN IF q.role = None THEN inSystem /\ UserMatches(q, u)
       ELSE TextMatches(q.role, r, inSystem, UserMatches(q, u))

\* LIMIT 100 without an order.
Limited(found) == IF Cardinality(found) <= Limit THEN {found}
                  ELSE {kept \in SUBSET found : Cardinality(kept) = Limit}

\* The rows of executeGraphQuery without the limit, from the user on.  After a
\* role, the pattern goes on from the role, which is a member of nothing.
GraphRows(q, nodes, edges) ==
    IF q.group = None
    THEN UNION {{u} \X {p \in RolePaths(u, edges) : RoleMatches(q, p[2], u)} : u \in User \cap nodes}
    ELSE IF q.system # None \/ q.role # None THEN {}
    ELSE {row \in (User \cap nodes) \X Group :
             row \in edges /\ TextMatches(q.group, row[2], TRUE, UserMatches(q, row[1]))}

Users(found) == {row[1] : row \in found}

GraphAnswers(q, nodes, edges) == {Users(kept) : kept \in Limited(GraphRows(q, nodes, edges))}

\* executeRelationalQuery, which knows no mfa.
RelationalRows(q, rows) == {u \in User \cap rows : UserMatches([q EXCEPT !.mfa = None], u)}

RelationalAnswers(q, rows) == UNION {Scans(kept) : kept \in Limited(RelationalRows(q, rows))}

\* What Execute may answer.  Its field employee_id is left out.
IQLAnswers(q, rows, nodes, edges) ==
    IF UsesGraph(q) THEN GraphAnswers(q, nodes, edges) ELSE RelationalAnswers(q, rows)

IQLRows(q, rows, nodes, edges) ==
    IF UsesGraph(q) THEN GraphRows(q, nodes, edges) ELSE RelationalRows(q, rows)
=============================================================================
