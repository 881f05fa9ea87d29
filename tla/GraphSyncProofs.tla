--------------------------- MODULE GraphSyncProofs ---------------------------
(***************************************************************************)
(* The types of a graph sync, what the sync that deleted the graph last    *)
(* brings back, and what is answered from graph and tables, for any tables *)
(* and queries and any number of syncs, readers, failures and inserts.     *)
(*                                                                         *)
(* The argument: rows and links only grow, and so does the graph until it  *)
(* is deleted; then another sync is the last to have done so.  What a      *)
(* stage holds in hand is in the tables, and what was in them when the     *)
(* sync began is in its hand, unless the stage was cut.  An edge whose     *)
(* ends are of no cut stage finds them: they have been written before.     *)
(* The answers only grow with what they are read from, so that a part of   *)
(* the tables grants nothing new, and all of the tables that a question is *)
(* about misses nothing.                                                   *)
(***************************************************************************)
EXTENDS GraphSync, TLAPS, FiniteSetTheorems

\* The tables of the stages.
LEMMA TableFacts ==
    /\ \A e \in Entity : \E n \in NodeStages : e \in Table(n)
    /\ NodeStages \cap EdgeStages = {}
    /\ NodeStages \cup EdgeStages = 1 .. 9
    /\ NodeStages \subseteq 0 .. 10 /\ EdgeStages \subseteq 0 .. 10
<1>1. /\ Table(1) = User /\ Table(2) = Group /\ Table(3) = Role
      /\ Table(4) = Permission /\ Table(5) = Resource
  BY DEF Table
<1>2. ASSUME NEW e \in Entity PROVE \E n \in NodeStages : e \in Table(n)
  BY <1>1 DEF Entity, NodeStages
<1> QED
  BY <1>2 DEF NodeStages, EdgeStages

\* A link is a pair of rows.
LEMMA LinkFacts == \A l \in Link : l = <<l[1], l[2]>> /\ l[1] \in Entity /\ l[2] \in Entity
BY DEF Link, Membership, HasRole, Permits, Entity

\* What is changed of a sync, and what is not.
LEMMA BecomesFacts ==
    ASSUME sync \in [Sync -> Control], NEW s \in Sync, NEW p \in PC, NEW n \in 0 .. 10,
           NEW batch \in SUBSET (Entity \cup Link), Becomes(s, p, n, batch)
    PROVE  /\ sync' \in [Sync -> Control]
           /\ sync'[s].pc = p /\ sync'[s].stage = n /\ sync'[s].batch = batch
           /\ sync'[s].base = sync[s].base /\ sync'[s].cut = sync[s].cut
           /\ \A t \in Sync \ {s} : sync'[t] = sync[t]
BY DEF Becomes, Control

\* A sync that gives up goes on to record its error.
LEMMA GivesFacts ==
    ASSUME sync \in [Sync -> Control], NEW s \in Sync, Gives(s)
    PROVE  /\ sync' \in [Sync -> Control]
           /\ sync'[s].pc = "record" /\ sync'[s].stage = sync[s].stage
           /\ sync'[s].base = sync[s].base /\ sync'[s].cut = sync[s].cut
           /\ \A t \in Sync \ {s} : sync'[t] = sync[t]
<1>1. "record" \in PC /\ sync[s].stage \in 0 .. 10 /\ {} \in SUBSET (Entity \cup Link)
  BY DEF PC, Control
<1> QED
  BY <1>1, BecomesFacts DEF Gives

-----------------------------------------------------------------------------
(* The inductive invariant.                                                *)

\* Of what the sync that deleted the graph last has written, all is there.
Rebuilt(s) ==
    s = clearer =>
        /\ \A n \in NodeStages : Written(s, n) => BaseRows(s, n) \subseteq nodes
        /\ \A n \in EdgeStages : Written(s, n) => BaseLinks(s, n) \subseteq edges

\* What a sync has in hand.
InHand(s) ==
    sync[s].pc = "write" =>
        /\ sync[s].stage \in NodeStages =>
              /\ sync[s].batch \subseteq rows
              /\ sync[s].stage \notin sync[s].cut =>
                     BaseRows(s, sync[s].stage) \subseteq sync[s].batch
        /\ sync[s].stage \in EdgeStages =>
              /\ sync[s].batch \subseteq links
              /\ sync[s].stage \notin sync[s].cut =>
                     BaseLinks(s, sync[s].stage) \subseteq sync[s].batch

Stages(s) == /\ sync[s].pc = "idle" => sync[s].stage = 0
             /\ sync[s].pc = "fetch" => sync[s].stage \in 1 .. 10
             /\ sync[s].pc = "write" => sync[s].stage \in 1 .. 9

BaseKept(s) == /\ sync[s].base.rows \subseteq rows
               /\ sync[s].base.links \subseteq links
               /\ sync[s].base.links \subseteq sync[s].base.rows \X sync[s].base.rows

Promise(s) == Stages(s) /\ BaseKept(s) /\ InHand(s) /\ Rebuilt(s)

GraphOK == /\ nodes \subseteq rows
           /\ edges \subseteq links
           /\ edges \subseteq nodes \X nodes

SyncInv == TypeOK /\ GraphOK /\ \A s \in Sync : Promise(s)

\* A sync that does nothing keeps its promise, while tables and graph grow or
\* another sync deletes the graph.
LEMMA Frame ==
    ASSUME NEW s \in Sync, Promise(s), sync'[s] = sync[s],
           rows \subseteq rows', links \subseteq links',
           \/ clearer' = clearer /\ nodes \subseteq nodes' /\ edges \subseteq edges'
           \/ clearer' # s
    PROVE  Promise(s)'
<1>1. Stages(s)'
  BY DEF Promise, Stages
<1>2. BaseKept(s)'
  BY DEF Promise, BaseKept
<1>3. InHand(s)'
  BY DEF Promise, InHand, BaseRows, BaseLinks
<1>4. Rebuilt(s)'
  BY DEF Promise, Rebuilt, BaseRows, BaseLinks, Written
<1> QED
  BY <1>1, <1>2, <1>3, <1>4 DEF Promise

\* A step of one sync keeps the promises of all if it keeps its own.
LEMMA OneSync ==
    ASSUME \A t \in Sync : Promise(t), NEW s \in Sync, Promise(s)',
           \A t \in Sync \ {s} : sync'[t] = sync[t],
           rows \subseteq rows', links \subseteq links',
           \/ clearer' = clearer /\ nodes \subseteq nodes' /\ edges \subseteq edges'
           \/ clearer' = s
    PROVE  \A t \in Sync : Promise(t)'
<1> SUFFICES ASSUME NEW t \in Sync PROVE Promise(t)'
  OBVIOUS
<1>1. CASE t = s
  BY <1>1
<1>2. CASE t # s
  BY <1>2, Frame
<1> QED
  BY <1>1, <1>2

\* Once it has nothing in hand and has written what it had, a sync's promise
\* is about the graph alone.
LEMMA OwnPromise ==
    ASSUME NEW s \in Sync, Promise(s), sync'[s].pc \in {"record", "done"},
           sync'[s].stage = sync[s].stage, sync'[s].base = sync[s].base,
           sync'[s].cut = sync[s].cut,
           rows \subseteq rows', links \subseteq links', clearer' = clearer,
           nodes \subseteq nodes', edges \subseteq edges'
    PROVE  Promise(s)'
<1>1. Stages(s)'
  BY DEF Stages
<1>2. BaseKept(s)'
  BY DEF Promise, BaseKept
<1>3. InHand(s)'
  BY DEF InHand
<1>4. Rebuilt(s)'
  BY DEF Promise, Rebuilt, BaseRows, BaseLinks, Written
<1> QED
  BY <1>1, <1>2, <1>3, <1>4 DEF Promise

\* What Merge adds to the graph is in the tables, and an edge has its ends.
LEMMA MergeFacts ==
    ASSUME GraphOK, links \subseteq Link, UNCHANGED tables, NEW n \in 1 .. 9, NEW batch,
           n \in NodeStages => batch \subseteq rows,
           n \in EdgeStages => batch \subseteq links,
           Merge(n, batch)
    PROVE  /\ nodes \subseteq nodes' /\ edges \subseteq edges' /\ GraphOK'
           /\ n \in NodeStages => batch \subseteq nodes'
           /\ n \in EdgeStages => batch \cap (nodes \X nodes) \subseteq edges'
<1>1. rows' = rows /\ links' = links
  BY DEF tables
<1>2. n \in NodeStages \/ n \in EdgeStages
  BY TableFacts
<1>3. CASE n \in NodeStages
  <2>1. nodes' = nodes \cup batch /\ edges' = edges /\ n \notin EdgeStages
    BY <1>3, TableFacts DEF Merge
  <2> QED
    BY <1>1, <1>3, <2>1 DEF GraphOK
<1>4. CASE n \in EdgeStages
  <2>1. /\ n \notin NodeStages /\ nodes' = nodes
        /\ edges' = edges \cup {e \in batch : e[1] \in nodes /\ e[2] \in nodes}
    BY <1>4, TableFacts DEF Merge
  <2>2. ASSUME NEW e \in batch, e[1] \in nodes, e[2] \in nodes
        PROVE  e \in links /\ e \in nodes \X nodes
    <3>1. e \in Link /\ e \in links
      BY <1>4, <2>2
    <3>2. e = <<e[1], e[2]>>
      BY <3>1, LinkFacts
    <3> QED
      BY <2>2, <3>1, <3>2
  <2>3. ASSUME NEW e \in batch \cap (nodes \X nodes) PROVE e \in edges'
    BY <2>1, <2>3
  <2>4. GraphOK'
    BY <1>1, <2>1, <2>2 DEF GraphOK
  <2> QED
    BY <2>1, <2>3, <2>4
<1> QED
  BY <1>2, <1>3, <1>4
-----------------------------------------------------------------------------
(* Each action keeps it.                                                   *)

\* The types of all but the graph.
Types == /\ rows \subseteq Entity
         /\ links \subseteq Link \cap (rows \X rows)
         /\ sync \in [Sync -> Control]
         /\ last_error \in (0 .. 10) \cup {None}
         /\ dossier \in [Reader -> Dossier]
         /\ faults \in 0 .. MaxFaults
         /\ inserts \in 0 .. MaxInserts
         /\ clearer \in Sync \cup {None}

\* The graph is a part of the tables.
LEMMA GraphTypes == Types /\ GraphOK => TypeOK
BY DEF Types, GraphOK, TypeOK

\* The types, from the promises of all syncs.
LEMMA TypesOf == SyncInv => Types /\ GraphOK
BY DEF SyncInv, Types, TypeOK

\* The invariant from its parts.
LEMMA Assemble == ASSUME Types', GraphOK', \A s \in Sync : Promise(s)' PROVE SyncInv'
BY DEF Types, GraphOK, TypeOK, SyncInv

\* A fault keeps within its bound.
LEMMA FaultFact == ASSUME faults \in 0 .. MaxFaults, Fault PROVE faults' \in 0 .. MaxFaults
BY BoundsAssumption DEF Fault

\* No sync has cleared, and the graph is empty.
LEMMA SyncInit == Init => SyncInv
<1> SUFFICES ASSUME Init PROVE SyncInv
  OBVIOUS
<1>1. /\ rows \subseteq Entity /\ links \subseteq Link \cap (rows \X rows)
  BY TablesAssumption DEF Init
<1>2. [rows |-> {}, links |-> {}] \in [rows : SUBSET Entity, links : SUBSET Link]
  OBVIOUS
<1>3. sync \in [Sync -> Control]
  BY <1>2 DEF Init, Control, PC
<1>4. dossier \in [Reader -> Dossier]
  BY DEF Init, Dossier, NoDossier
<1>5. Types
  BY <1>1, <1>3, <1>4, BoundsAssumption DEF Init, Types
<1>6. GraphOK
  BY DEF Init, GraphOK
<1>7. ASSUME NEW s \in Sync PROVE Promise(s)
  <2>1. /\ sync[s].pc = "idle" /\ sync[s].stage = 0
        /\ sync[s].base.rows = {} /\ sync[s].base.links = {}
    BY DEF Init
  <2> QED
    BY <2>1 DEF Promise, Stages, BaseKept, InHand, Rebuilt, Written, NodeStages, EdgeStages
<1> QED
  BY <1>5, <1>6, <1>7, GraphTypes DEF SyncInv

\* A clear makes its sync the last clearer.
LEMMA ClearStep == ASSUME SyncInv, NEW s \in Sync, Clear(s) PROVE SyncInv'
<1>1. Types /\ GraphOK /\ Promise(s) /\ \A t \in Sync : Promise(t)
  BY TypesOf DEF SyncInv
<1>2. /\ sync[s].pc = "idle" /\ sync[s].stage = 0 /\ sync \in [Sync -> Control]
      /\ UNCHANGED <<rows, links, last_error, dossier, inserts>>
  BY <1>1 DEF Clear, SyncAt, Promise, Stages, Types, tables
<1>3. CASE /\ sync' = [sync EXCEPT ![s].pc = "fetch", ![s].stage = 1,
                           ![s].base = [rows |-> rows, links |-> links], ![s].cut = {}]
           /\ nodes' = {} /\ edges' = {} /\ clearer' = s /\ faults' = faults
  <2>1. [rows |-> rows, links |-> links] \in [rows : SUBSET Entity, links : SUBSET Link]
    BY <1>1 DEF Types
  <2>2. /\ sync'[s].pc = "fetch" /\ sync'[s].stage = 1
        /\ sync'[s].base.rows = rows /\ sync'[s].base.links = links
        /\ \A t \in Sync \ {s} : sync'[t] = sync[t]
    BY <1>2, <1>3 DEF Control
  <2>3. sync' \in [Sync -> Control]
    BY <1>2, <1>3, <2>1 DEF Control, PC
  <2>4. Types' /\ GraphOK'
    BY <1>1, <1>2, <1>3, <2>3 DEF Types, GraphOK
  <2>5. Stages(s)' /\ InHand(s)'
    BY <2>2 DEF Stages, InHand
  <2>6. BaseKept(s)'
    BY <1>1, <1>2, <2>2 DEF BaseKept, Types
  <2>7. Rebuilt(s)'
    BY <2>2 DEF Rebuilt, Written, NodeStages, EdgeStages
  <2>8. Promise(s)'
    BY <2>5, <2>6, <2>7 DEF Promise
  <2>9. \A t \in Sync : Promise(t)'
    BY <1>1, <1>2, <1>3, <2>2, <2>8, OneSync
  <2> QED
    BY <2>4, <2>9, Assemble
<1>4. CASE /\ Fault /\ Gives(s) /\ nodes' = {} /\ edges' = {} /\ clearer' = s
  <2>1. /\ sync' \in [Sync -> Control]
        /\ sync'[s].pc = "record" /\ sync'[s].stage = 0
        /\ sync'[s].base = sync[s].base
        /\ \A t \in Sync \ {s} : sync'[t] = sync[t]
    BY <1>2, <1>4, GivesFacts
  <2>2. Types' /\ GraphOK'
    BY <1>1, <1>2, <1>4, <2>1, FaultFact DEF Types, GraphOK
  <2>3. Stages(s)' /\ InHand(s)'
    BY <2>1 DEF Stages, InHand
  <2>4. BaseKept(s)'
    BY <1>1, <1>2, <2>1 DEF BaseKept, Promise
  <2>5. Rebuilt(s)'
    BY <2>1 DEF Rebuilt, Written, NodeStages, EdgeStages
  <2>6. Promise(s)'
    BY <2>3, <2>4, <2>5 DEF Promise
  <2>7. \A t \in Sync : Promise(t)'
    BY <1>1, <1>2, <1>4, <2>1, <2>6, OneSync
  <2> QED
    BY <2>2, <2>7, Assemble
<1>5. CASE Fault /\ Gives(s) /\ UNCHANGED <<graph, clearer>>
  <2>1. /\ sync' \in [Sync -> Control]
        /\ sync'[s].pc = "record" /\ sync'[s].stage = sync[s].stage
        /\ sync'[s].base = sync[s].base /\ sync'[s].cut = sync[s].cut
        /\ \A t \in Sync \ {s} : sync'[t] = sync[t]
    BY <1>2, <1>5, GivesFacts
  <2>2. nodes' = nodes /\ edges' = edges /\ clearer' = clearer
    BY <1>5 DEF graph
  <2>3. Types' /\ GraphOK'
    BY <1>1, <1>2, <1>5, <2>1, <2>2, FaultFact DEF Types, GraphOK
  <2>4. Promise(s)'
    BY <1>1, <1>2, <2>1, <2>2, OwnPromise
  <2>5. \A t \in Sync : Promise(t)'
    BY <1>1, <1>2, <2>1, <2>2, <2>4, OneSync
  <2> QED
    BY <2>3, <2>5, Assemble
<1> QED
  BY <1>3, <1>4, <1>5 DEF Clear

\* A fetch takes the rows of a table as they are.
LEMMA FetchStep == ASSUME SyncInv, NEW s \in Sync, Fetch(s) PROVE SyncInv'
<1> DEFINE n == sync[s].stage
<1>1. Types /\ GraphOK /\ Promise(s) /\ \A t \in Sync : Promise(t)
  BY TypesOf DEF SyncInv
<1>2. /\ sync[s].pc = "fetch" /\ n \in 1 .. 9 /\ sync \in [Sync -> Control]
      /\ UNCHANGED <<rows, links, last_error, dossier, inserts, nodes, edges, clearer>>
  BY <1>1, TableFacts DEF Fetch, SyncAt, Types, tables, graph
<1>3. /\ GraphOK'
      /\ faults' \in 0 .. MaxFaults /\ sync' \in [Sync -> Control] => Types'
  BY <1>1, <1>2 DEF GraphOK, Types
<1>4. /\ Contents(n) \subseteq Entity \cup Link
      /\ n \in NodeStages => Contents(n) \subseteq rows /\ BaseRows(s, n) \subseteq Contents(n)
      /\ n \in EdgeStages => Contents(n) \subseteq links /\ BaseLinks(s, n) \subseteq Contents(n)
  BY <1>1, <1>2, TableFacts DEF Contents, Types, BaseRows, BaseLinks, Promise, BaseKept
<1>5. \A all \in Scanned(n) : all \subseteq Contents(n)
  BY DEF Scanned, Scans
<1>6. sync[s].cut \in SUBSET (1 .. 9) /\ faults \in 0 .. MaxFaults /\ n \in 0 .. 10
  BY <1>1, <1>2 DEF Types, Control
\* With what it has got.
<1>7. ASSUME NEW got \in SUBSET Contents(n), Takes(s, got), faults' \in 0 .. MaxFaults
      PROVE  SyncInv'
  <2> DEFINE cut == IF got = Contents(n) THEN sync[s].cut ELSE sync[s].cut \cup {n}
             ctl == [sync[s] EXCEPT !.pc = "write", !.batch = got, !.cut = cut]
  <2>1. sync' = [sync EXCEPT ![s] = ctl]
    BY <1>7 DEF Takes
  <2>2. ctl \in Control
    <3>1. got \in SUBSET (Entity \cup Link)
      BY <1>4, <1>7
    <3>2. cut \in SUBSET (1 .. 9)
      BY <1>2, <1>6
    <3> HIDE DEF cut
    <3> QED
      BY <1>2, <3>1, <3>2 DEF Control, PC
  <2>3. sync' \in [Sync -> Control] /\ \A t \in Sync \ {s} : sync'[t] = sync[t]
    BY <1>2, <2>1, <2>2
  <2>4. /\ sync'[s].pc = "write" /\ sync'[s].stage = n /\ sync'[s].batch = got
        /\ sync'[s].base = sync[s].base /\ sync'[s].cut = cut
    <3> HIDE DEF cut
    <3> QED
      BY <1>2, <2>1 DEF Control
  <2>5. sync[s].cut \subseteq sync'[s].cut /\ (n \notin sync'[s].cut => got = Contents(n))
    BY <2>4
  <2> HIDE DEF cut, ctl
  <2>6. Stages(s)'
    BY <1>2, <2>4 DEF Stages
  <2>7. BaseKept(s)'
    BY <1>1, <1>2, <2>4 DEF Promise, BaseKept
  <2>8. /\ \A m : BaseRows(s, m)' = BaseRows(s, m)
        /\ \A m : BaseLinks(s, m)' \subseteq BaseLinks(s, m)
    BY <2>4, <2>5 DEF BaseRows, BaseLinks
  <2>9. InHand(s)'
    BY <1>2, <1>4, <1>7, <2>4, <2>5, <2>8 DEF InHand
  <2>10. Rebuilt(s)'
    BY <1>1, <1>2, <2>4, <2>5, <2>8 DEF Promise, Rebuilt, Written
  <2>11. Promise(s)'
    BY <2>6, <2>7, <2>9, <2>10 DEF Promise
  <2>12. \A t \in Sync : Promise(t)'
    BY <1>1, <1>2, <2>3, <2>11, OneSync
  <2> QED
    BY <1>3, <1>7, <2>3, <2>12, Assemble
<1>8. CASE /\ \/ faults' = faults
              \/ Fault
           /\ \E all \in Scanned(n) : \E got \in SUBSET all : Takes(s, got)
  BY <1>5, <1>6, <1>7, <1>8, FaultFact
<1>9. CASE Fault /\ Gives(s)
  <2>1. /\ sync' \in [Sync -> Control]
        /\ sync'[s].pc = "record" /\ sync'[s].stage = sync[s].stage
        /\ sync'[s].base = sync[s].base /\ sync'[s].cut = sync[s].cut
        /\ \A t \in Sync \ {s} : sync'[t] = sync[t]
    BY <1>2, <1>9, GivesFacts
  <2>2. Promise(s)'
    BY <1>1, <1>2, <2>1, OwnPromise
  <2>3. \A t \in Sync : Promise(t)'
    BY <1>1, <1>2, <2>1, <2>2, OneSync
  <2> QED
    BY <1>3, <1>6, <1>9, <2>1, <2>3, FaultFact, Assemble
<1> QED
  BY <1>8, <1>9 DEF Fetch

\* A write merges the rows in hand.
LEMMA WriteStep == ASSUME SyncInv, NEW s \in Sync, Write(s) PROVE SyncInv'
<1> DEFINE n == sync[s].stage
           batch == sync[s].batch
<1>1. Types /\ GraphOK /\ Promise(s) /\ \A t \in Sync : Promise(t)
  BY TypesOf DEF SyncInv
<1>2. /\ sync[s].pc = "write" /\ n \in 1 .. 9 /\ sync \in [Sync -> Control]
      /\ UNCHANGED <<rows, links, last_error, dossier, inserts, clearer>>
      /\ UNCHANGED tables
  BY <1>1 DEF Write, SyncAt, Types, tables, Promise, Stages
<1>3. /\ faults' \in 0 .. MaxFaults /\ sync' \in [Sync -> Control] => Types'
  BY <1>1, <1>2 DEF Types
<1>4. /\ n \in NodeStages => batch \subseteq rows
      /\ n \in EdgeStages => batch \subseteq links
      /\ links \subseteq Link /\ faults \in 0 .. MaxFaults
  BY <1>1, <1>2 DEF Promise, InHand, Types
<1>5. ASSUME Merge(n, batch)
      PROVE  /\ nodes \subseteq nodes' /\ edges \subseteq edges' /\ GraphOK'
             /\ n \in NodeStages => batch \subseteq nodes'
             /\ n \in EdgeStages => batch \cap (nodes \X nodes) \subseteq edges'
  BY <1>1, <1>2, <1>4, <1>5, MergeFacts
<1>6. CASE Merge(n, batch) /\ Becomes(s, "fetch", n + 1, {}) /\ faults' = faults
  <2>1. "fetch" \in PC /\ n + 1 \in 0 .. 10 /\ {} \in SUBSET (Entity \cup Link)
    BY <1>2 DEF PC
  <2>2. /\ sync' \in [Sync -> Control]
        /\ sync'[s].pc = "fetch" /\ sync'[s].stage = n + 1
        /\ sync'[s].base = sync[s].base /\ sync'[s].cut = sync[s].cut
        /\ \A t \in Sync \ {s} : sync'[t] = sync[t]
    BY <1>2, <1>6, <2>1, BecomesFacts
  <2>3. Stages(s)' /\ InHand(s)'
    BY <1>2, <2>2 DEF Stages, InHand
  <2>4. BaseKept(s)'
    BY <1>1, <1>2, <2>2 DEF Promise, BaseKept
  <2>5. Rebuilt(s)'
    <3> DEFINE Whole(m) == m \notin sync[s].cut
    <3> SUFFICES ASSUME s = clearer
                 PROVE  /\ \A m \in NodeStages :
                              m < n + 1 /\ Whole(m) => BaseRows(s, m) \subseteq nodes'
                        /\ \A m \in EdgeStages :
                              m < n + 1 /\ Whole(m) => BaseLinks(s, m) \subseteq edges'
      BY <1>2, <2>2 DEF Rebuilt, Written, BaseRows, BaseLinks
    <3>1. /\ \A m \in NodeStages : m < n /\ Whole(m) => BaseRows(s, m) \subseteq nodes
          /\ \A m \in EdgeStages : m < n /\ Whole(m) => BaseLinks(s, m) \subseteq edges
      BY <1>1 DEF Promise, Rebuilt, Written
    <3>2. ASSUME NEW m \in NodeStages, m < n + 1, Whole(m) PROVE BaseRows(s, m) \subseteq nodes'
      <4>1. CASE m < n
        BY <3>1, <3>2, <4>1, <1>5, <1>6
      <4>2. CASE m = n
        <5>1. BaseRows(s, n) \subseteq batch
          BY <1>1, <1>2, <3>2, <4>2 DEF Promise, InHand
        <5> QED
          BY <3>2, <4>2, <5>1, <1>5, <1>6
      <4> QED
        BY <3>2, <4>1, <4>2, <1>2, TableFacts
    <3>3. ASSUME NEW m \in EdgeStages, m < n + 1, Whole(m) PROVE BaseLinks(s, m) \subseteq edges'
      <4>1. CASE m < n
        BY <3>1, <3>3, <4>1, <1>5, <1>6
      <4>2. CASE m = n
        <5>1. BaseLinks(s, n) \subseteq batch
          BY <1>1, <1>2, <3>3, <4>2 DEF Promise, InHand
        <5>2. \A k \in NodeStages : Whole(k) => BaseRows(s, k) \subseteq nodes
          <6>1. \A k \in NodeStages : k < n
            BY <3>3, <4>2 DEF NodeStages, EdgeStages
          <6> QED
            BY <6>1, <3>1
        <5>3. ASSUME NEW l \in BaseLinks(s, n) PROVE l \in nodes \X nodes
          <6>1. /\ l \in sync[s].base.rows \X sync[s].base.rows
                /\ l \in Link
            BY <1>1, <5>3 DEF BaseLinks, Promise, BaseKept, Types
          <6>2. /\ l = <<l[1], l[2]>> /\ l[1] \in Entity /\ l[2] \in Entity
                /\ l[1] \in sync[s].base.rows /\ l[2] \in sync[s].base.rows
            BY <6>1, LinkFacts
          <6>3. l[1] \in nodes
            <7>1. PICK k \in NodeStages : l[1] \in Table(k)
              BY <6>2, TableFacts
            <7>2. Whole(k)
              BY <5>3, <7>1 DEF BaseLinks
            <7> QED
              BY <5>2, <6>2, <7>1, <7>2 DEF BaseRows
          <6>4. l[2] \in nodes
            <7>1. PICK k \in NodeStages : l[2] \in Table(k)
              BY <6>2, TableFacts
            <7>2. Whole(k)
              BY <5>3, <7>1 DEF BaseLinks
            <7> QED
              BY <5>2, <6>2, <7>1, <7>2 DEF BaseRows
          <6> QED
            BY <6>2, <6>3, <6>4
        <5> QED
          BY <3>3, <4>2, <5>1, <5>3, <1>5, <1>6
      <4> QED
        BY <3>3, <4>1, <4>2, <1>2, TableFacts
    <3> QED
      BY <3>2, <3>3
  <2>6. Promise(s)'
    BY <2>3, <2>4, <2>5 DEF Promise
  <2>7. \A t \in Sync : Promise(t)'
    BY <1>1, <1>2, <1>5, <1>6, <2>2, <2>6, OneSync
  <2> QED
    BY <1>3, <1>4, <1>5, <1>6, <2>2, <2>7, Assemble
<1>7. CASE Fault /\ Gives(s) /\ (Merge(n, batch) \/ UNCHANGED graph)
  <2>1. /\ sync' \in [Sync -> Control]
        /\ sync'[s].pc = "record" /\ sync'[s].stage = sync[s].stage
        /\ sync'[s].base = sync[s].base /\ sync'[s].cut = sync[s].cut
        /\ \A t \in Sync \ {s} : sync'[t] = sync[t]
    BY <1>2, <1>7, GivesFacts
  <2>2. nodes \subseteq nodes' /\ edges \subseteq edges' /\ GraphOK'
    BY <1>1, <1>2, <1>5, <1>7 DEF graph, GraphOK
  <2>3. Promise(s)'
    BY <1>1, <1>2, <2>1, <2>2, OwnPromise
  <2>4. \A t \in Sync : Promise(t)'
    BY <1>1, <1>2, <2>1, <2>2, <2>3, OneSync
  <2> QED
    BY <1>3, <1>4, <1>7, <2>1, <2>2, <2>4, FaultFact, Assemble
<1> QED
  BY <1>6, <1>7 DEF Write

\* The steps that end a sync leave the graph alone.
LEMMA EndSteps ==
    ASSUME SyncInv, NEW s \in Sync, FetchPermissionResources(s) \/ Record(s) \/ Cancel(s)
    PROVE  SyncInv'
<1>1. Types /\ GraphOK /\ Promise(s) /\ \A t \in Sync : Promise(t)
  BY TypesOf DEF SyncInv
<1>2. sync[s] \in Control /\ sync \in [Sync -> Control] /\ faults \in 0 .. MaxFaults
  BY <1>1 DEF Types
<1>3. sync[s].stage \in 0 .. 10 /\ {} \in SUBSET (Entity \cup Link)
  BY <1>2 DEF Control
<1>4. /\ UNCHANGED <<rows, links, nodes, edges, dossier, inserts, clearer>>
      /\ last_error' \in {sync[s].stage, last_error}
      /\ faults' \in 0 .. MaxFaults
  BY <1>2, FaultFact DEF FetchPermissionResources, Record, Cancel, tables, graph
<1>5. /\ sync' \in [Sync -> Control]
      /\ sync'[s].pc \in {"record", "done"} /\ sync'[s].stage = sync[s].stage
      /\ sync'[s].base = sync[s].base /\ sync'[s].cut = sync[s].cut
      /\ \A t \in Sync \ {s} : sync'[t] = sync[t]
  <2>1. CASE FetchPermissionResources(s)
    BY <1>2, <2>1, GivesFacts DEF FetchPermissionResources
  <2>2. CASE Record(s)
    BY <1>2, <1>3, <2>2, BecomesFacts DEF Record, PC
  <2>3. CASE Cancel(s)
    <3>1. sync' = [sync EXCEPT ![s] = [sync[s] EXCEPT !.pc = "done", !.batch = {}]]
      BY <2>3 DEF Cancel
    <3>2. [sync[s] EXCEPT !.pc = "done", !.batch = {}] \in Control
      BY <1>2, <1>3 DEF Control, PC
    <3>3. sync' \in [Sync -> Control]
      BY <1>2, <3>1, <3>2
    <3>4. /\ sync'[s].pc = "done" /\ sync'[s].stage = sync[s].stage
          /\ sync'[s].base = sync[s].base /\ sync'[s].cut = sync[s].cut
      BY <1>2, <3>1 DEF Control
    <3>5. \A t \in Sync \ {s} : sync'[t] = sync[t]
      BY <1>2, <3>1
    <3> QED
      BY <3>3, <3>4, <3>5
  <2> QED
    BY <2>1, <2>2, <2>3
<1>6. Types' /\ GraphOK'
  BY <1>1, <1>3, <1>4, <1>5 DEF Types, GraphOK
<1>7. Promise(s)'
  BY <1>1, <1>4, <1>5, OwnPromise
<1>8. \A t \in Sync : Promise(t)'
  BY <1>1, <1>4, <1>5, <1>7, OneSync
<1> QED
  BY <1>6, <1>8, Assemble

\* What readers and connectors do leaves syncs and graph alone.
LEMMA OtherSteps ==
    ASSUME SyncInv, UNCHANGED <<nodes, edges, sync, last_error, faults, clearer>>,
           rows \subseteq rows', links \subseteq links', rows' \subseteq Entity,
           links' \subseteq Link \cap (rows' \X rows'),
           dossier' \in [Reader -> Dossier], inserts' \in 0 .. MaxInserts
    PROVE  SyncInv'
<1>1. Types /\ GraphOK /\ \A t \in Sync : Promise(t)
  BY TypesOf DEF SyncInv
<1>2. Types' /\ GraphOK'
  BY <1>1 DEF Types, GraphOK
<1>3. \A t \in Sync : Promise(t)'
  BY <1>1, Frame
<1> QED
  BY <1>2, <1>3, Assemble

\* Readers leave the graph alone.
LEMMA ReadStep ==
    ASSUME SyncInv, NEW d \in Reader, (\E u \in User : ReadPermissions(d, u)) \/ ReadLineage(d)
    PROVE  SyncInv'
<1>1. Types
  BY TypesOf
<1>2. UNCHANGED <<rows, links, nodes, edges, sync, last_error, faults, inserts, clearer>>
  BY DEF ReadPermissions, ReadLineage, tables, graph
<1>3. ASSUME NEW p \in {"failed", "answered"}, dossier' = [dossier EXCEPT ![d] = NoDossier(p)]
      PROVE  dossier' \in [Reader -> Dossier]
  BY <1>1, <1>3 DEF Types, Dossier, NoDossier
<1>4. ASSUME NEW u \in User, ReadPermissions(d, u) PROVE dossier' \in [Reader -> Dossier]
  <2>1. EffectivePaths(u, links) \in SUBSET ((Role \X Permission) \cup (Group \X Role \X Permission))
    BY DEF EffectivePaths, Permits
  <2>2. [pc |-> "lineage", identity |-> u, paths |-> EffectivePaths(u, links)] \in Dossier
    BY <2>1 DEF Dossier
  <2> QED
    BY <1>1, <1>4, <2>2 DEF ReadPermissions, Types
<1>5. dossier' \in [Reader -> Dossier]
  BY <1>3, <1>4 DEF ReadLineage
<1> QED
  BY <1>1, <1>2, <1>5, OtherSteps DEF Types

\* Connectors only add rows.
LEMMA InsertStep == ASSUME SyncInv, Insert PROVE SyncInv'
<1>1. Types
  BY TypesOf
<1>2. /\ UNCHANGED <<nodes, edges, sync, last_error, dossier, faults, clearer>>
      /\ inserts' \in 0 .. MaxInserts
  BY <1>1, BoundsAssumption DEF Insert, graph, Types
<1>3. /\ rows \subseteq rows' /\ links \subseteq links' /\ rows' \subseteq Entity
      /\ links' \subseteq Link \cap (rows' \X rows')
  BY <1>1 DEF Insert, Types
<1> QED
  BY <1>1, <1>2, <1>3, OtherSteps DEF Types

\* Every step keeps the promises of all syncs.
LEMMA SyncStep == SyncInv /\ [Next]_vars => SyncInv'
<1> SUFFICES ASSUME SyncInv, [Next]_vars PROVE SyncInv'
  OBVIOUS
<1>1. CASE UNCHANGED vars
  <2>1. UNCHANGED <<rows, links, nodes, edges, sync, last_error, dossier, faults, inserts, clearer>>
    BY <1>1 DEF vars, tables, graph
  <2> QED
    BY <2>1, TypesOf, OtherSteps DEF Types
<1> QED
  BY <1>1, ClearStep, FetchStep, WriteStep, EndSteps, ReadStep, InsertStep DEF Next

\* The promises hold throughout.
LEMMA SyncInvariant == Spec => []SyncInv
BY SyncInit, SyncStep, PTL DEF Spec

\* Tables, graph and what requests have in hand have their types.
THEOREM TypesHold == Spec => []TypeOK
<1>1. SyncInv => TypeOK
  BY DEF SyncInv
<1> QED
  BY <1>1, SyncInvariant, PTL

\* The graph is a part of the tables, and the sync that deleted it last brings
\* back all it goes through, whatever the others do or fail to do.
THEOREM LastClearer == Spec => []LastClearerRebuilds
<1>1. SyncInv => LastClearerRebuilds
  BY DEF SyncInv, GraphOK, Promise, Rebuilt, LastClearerRebuilds
<1> QED
  BY <1>1, SyncInvariant, PTL

-----------------------------------------------------------------------------
(* The answers.  They only grow with the tables and the graph they are     *)
(* read from.                                                              *)

LEMMA ReachGrows ==
    ASSUME NEW u, NEW E, NEW F \in SUBSET E
    PROVE  RolesReached(u, F) \subseteq RolesReached(u, E)
<1>1. RolePaths(u, F) \subseteq RolePaths(u, E)
  BY DEF RolePaths
<1> QED
  BY <1>1 DEF RolesReached

\* There are finitely many source systems.
LEMMA SystemsFinite ==
    ASSUME NEW S \in SUBSET Role
    PROVE  IsFiniteSet({SystemOf[r] : r \in S})
<1>1. {SystemOf[r] : r \in S} \in SUBSET {SystemOf[r] : r \in Role}
  OBVIOUS
<1> QED
  BY <1>1, SystemsAssumption, FS_Subset

LEMMA SystemsGrow ==
    ASSUME NEW S \in SUBSET Role, NEW T \in SUBSET S,
           Cardinality({SystemOf[r] : r \in T}) >= 2
    PROVE  Cardinality({SystemOf[r] : r \in S}) >= 2
<1>1. IsFiniteSet({SystemOf[r] : r \in S}) /\ IsFiniteSet({SystemOf[r] : r \in T})
  BY SystemsFinite
<1>2. {SystemOf[r] : r \in T} \in SUBSET {SystemOf[r] : r \in S}
  OBVIOUS
<1>3. Cardinality({SystemOf[r] : r \in T}) <= Cardinality({SystemOf[r] : r \in S})
  BY <1>1, <1>2, FS_Subset
<1>4. /\ Cardinality({SystemOf[r] : r \in T}) \in Nat
      /\ Cardinality({SystemOf[r] : r \in S}) \in Nat
  BY <1>1, FS_CardinalityType
<1> QED
  BY <1>3, <1>4

\* Two roles of different systems are of at least two.
LEMMA TwoSystems ==
    ASSUME NEW S \in SUBSET Role, NEW r \in S, NEW t \in S, SystemOf[r] # SystemOf[t]
    PROVE  Cardinality({SystemOf[x] : x \in S}) >= 2
<1> DEFINE All == {SystemOf[x] : x \in S}
           One == {SystemOf[r]}
           Two == One \cup {SystemOf[t]}
<1>1. IsFiniteSet(One) /\ Cardinality(One) = 1
  BY FS_Singleton
<1>2. Cardinality(Two) = 2
  <2>1. SystemOf[t] \notin One
    OBVIOUS
  <2> HIDE DEF One
  <2>2. Cardinality(Two) = Cardinality(One) + 1
    BY <1>1, <2>1, FS_AddElement
  <2> QED
    BY <1>1, <2>2
<1>3. Two \in SUBSET All /\ IsFiniteSet(All)
  BY SystemsFinite
<1> HIDE DEF All, Two
<1>4. Cardinality(Two) <= Cardinality(All) /\ Cardinality(All) \in Nat
  BY <1>3, FS_Subset, FS_CardinalityType
<1> QED
  BY <1>2, <1>4 DEF All

\* So do the rules about users, and the answers to a query.
LEMMA RulesGrow ==
    ASSUME NEW R, NEW N \in SUBSET R, NEW E, NEW F \in SUBSET E, NEW n \in 1 .. 3
    PROVE  UserRules(N, F)[n] \subseteq UserRules(R, E)[n]
<1>1. \A u : RolesReached(u, F) \subseteq RolesReached(u, E) /\ RolesReached(u, E) \subseteq Role
  <2>1. \A u : RolesReached(u, E) \subseteq Role
    BY DEF RolesReached, RolePaths
  <2> QED
    BY <2>1, ReachGrows
<1>2. AWSAdminWithNoMFA(N, F) \subseteq AWSAdminWithNoMFA(R, E)
  BY <1>1 DEF AWSAdminWithNoMFA
<1>3. CrossSystemAdmin(N, F) \subseteq CrossSystemAdmin(R, E)
  <2> SUFFICES ASSUME NEW u \in User \cap N,
                      Cardinality({SystemOf[r] : r \in Admin \cap RolesReached(u, F)}) >= 2
               PROVE  Cardinality({SystemOf[r] : r \in Admin \cap RolesReached(u, E)}) >= 2
    BY DEF CrossSystemAdmin
  <2>1. /\ Admin \cap RolesReached(u, E) \in SUBSET Role
        /\ Admin \cap RolesReached(u, F) \in SUBSET (Admin \cap RolesReached(u, E))
    BY <1>1
  <2> QED
    BY <2>1, SystemsGrow
<1>4. PrivilegedRoleWithoutMFA(N, F) \subseteq PrivilegedRoleWithoutMFA(R, E)
  BY <1>1 DEF PrivilegedRoleWithoutMFA
<1>5. n = 1 \/ n = 2 \/ n = 3
  OBVIOUS
<1> QED
  BY <1>2, <1>3, <1>4, <1>5 DEF UserRules

\* The users in the rows of a query, in terms of what they reach.
FoundBy(q, N, E) ==
    IF q.group = None
    THEN {u \in User \cap N : \E r \in RolesReached(u, E) : RoleMatches(q, r, u)}
    ELSE IF q.system # None \/ q.role # None THEN {}
    ELSE {u \in User \cap N : \E g \in Group :
             <<u, g>> \in E /\ TextMatches(q.group, g, TRUE, UserMatches(q, u))}

LEMMA RowsFind == ASSUME NEW q, NEW N, NEW E PROVE Users(GraphRows(q, N, E)) = FoundBy(q, N, E)
<1>1. CASE q.group = None
  <2> DEFINE Of(u) == {u} \X {p \in RolePaths(u, E) : RoleMatches(q, p[2], u)}
             Rows == UNION {Of(u) : u \in User \cap N}
  <2>1. ASSUME NEW row \in Rows PROVE row[1] \in FoundBy(q, N, E)
    <3>1. PICK u \in User \cap N : row \in Of(u)
      OBVIOUS
    <3>2. row[1] = u /\ row[2] \in RolePaths(u, E) /\ RoleMatches(q, row[2][2], u)
      BY <3>1
    <3>3. row[2][2] \in RolesReached(u, E)
      BY <3>2 DEF RolesReached
    <3> QED
      BY <1>1, <3>1, <3>2, <3>3 DEF FoundBy
  <2>2. ASSUME NEW u \in FoundBy(q, N, E) PROVE \E row \in Rows : row[1] = u
    <3>1. PICK r \in RolesReached(u, E) : RoleMatches(q, r, u)
      BY <1>1 DEF FoundBy
    <3>2. u \in User \cap N
      BY <1>1 DEF FoundBy
    <3>3. PICK p \in RolePaths(u, E) : p[2] = r
      BY DEF RolesReached
    <3>4. <<u, p>> \in Of(u)
      BY <3>1, <3>3
    <3>5. <<u, p>> \in Rows
      BY <3>2, <3>4
    <3> QED
      BY <3>5
  <2>3. GraphRows(q, N, E) = Rows
    BY <1>1 DEF GraphRows
  <2> HIDE DEF Rows
  <2> QED
    BY <2>1, <2>2, <2>3 DEF Users
<1>2. CASE q.group # None /\ (q.system # None \/ q.role # None)
  BY <1>2 DEF GraphRows, FoundBy, Users
<1>3. CASE q.group # None /\ ~(q.system # None \/ q.role # None)
  <2> DEFINE Rows == {row \in (User \cap N) \X Group :
                row \in E /\ TextMatches(q.group, row[2], TRUE, UserMatches(q, row[1]))}
  <2>1. ASSUME NEW row \in Rows PROVE row[1] \in FoundBy(q, N, E)
    <3>1. row = <<row[1], row[2]>> /\ row[1] \in User \cap N /\ row[2] \in Group
      OBVIOUS
    <3> QED
      BY <1>3, <3>1 DEF FoundBy
  <2>2. ASSUME NEW u \in FoundBy(q, N, E) PROVE \E row \in Rows : row[1] = u
    <3>1. PICK g \in Group :
             <<u, g>> \in E /\ TextMatches(q.group, g, TRUE, UserMatches(q, u))
      BY <1>3 DEF FoundBy
    <3>2. <<u, g>> \in Rows
      BY <1>3, <3>1 DEF FoundBy
    <3> QED
      BY <3>2
  <2>3. GraphRows(q, N, E) = Rows
    BY <1>3 DEF GraphRows
  <2> HIDE DEF Rows
  <2> QED
    BY <2>1, <2>2, <2>3 DEF Users
<1> QED
  BY <1>1, <1>2, <1>3

LEMMA AnswersGrow ==
    ASSUME NEW q, NEW R, NEW N \in SUBSET R, NEW E, NEW F \in SUBSET E
    PROVE  FoundBy(q, N, F) \subseteq FoundBy(q, R, E)
<1>1. \A u : RolesReached(u, F) \subseteq RolesReached(u, E)
  BY ReachGrows
<1> QED
  BY <1>1 DEF FoundBy

\* An answer has rows that were found, and all of them within the limit.
LEMMA LimitFacts ==
    ASSUME NEW found, NEW kept \in Limited(found)
    PROVE  kept \subseteq found /\ (Cardinality(found) <= Limit => kept = found)
BY DEF Limited

LEMMA LineageGrows ==
    ASSUME NEW u, NEW E, NEW F \in SUBSET E
    PROVE  EffectivePaths(u, F) \subseteq EffectivePaths(u, E)
BY DEF EffectivePaths

-----------------------------------------------------------------------------
(* Queries that are well read.                                             *)

LEMMA FieldsFinite ==
    IsFiniteSet({"system", "role", "group", "mfa", "active", "email"})
<1>1. IsFiniteSet({"system"})
  BY FS_Singleton
<1>2. IsFiniteSet({"system"} \cup {"role"})
  BY <1>1, FS_AddElement
<1>3. IsFiniteSet(({"system"} \cup {"role"}) \cup {"group"})
  BY <1>2, FS_AddElement
<1>4. IsFiniteSet((({"system"} \cup {"role"}) \cup {"group"}) \cup {"mfa"})
  BY <1>3, FS_AddElement
<1>5. IsFiniteSet(((({"system"} \cup {"role"}) \cup {"group"}) \cup {"mfa"}) \cup {"active"})
  BY <1>4, FS_AddElement
<1>6. IsFiniteSet((((({"system"} \cup {"role"}) \cup {"group"}) \cup {"mfa"}) \cup {"active"})
                  \cup {"email"})
  BY <1>5, FS_AddElement
<1>7. ((((({"system"} \cup {"role"}) \cup {"group"}) \cup {"mfa"}) \cup {"active"}) \cup {"email"})
        = {"system", "role", "group", "mfa", "active", "email"}
  OBVIOUS
<1> QED
  BY <1>6, <1>7

\* The fields of a query.
LEMMA QueryFacts ==
    ASSUME NEW q \in IqlQuery
    PROVE  /\ DOMAIN q = {"system", "role", "group", "mfa", "active", "email"}
           /\ q.role # None => q.role.equals \subseteq q.role.contains
           /\ q.group # None => q.group.equals \subseteq q.group.contains
BY QueriesAssumption

\* A query with one field has no other.
LEMMA OneField ==
    ASSUME NEW q \in IqlQuery, NEW f \in DOMAIN q, NEW g \in DOMAIN q \ {f}, q[f] # None,
           Cardinality({h \in DOMAIN q : q[h] # None}) = 1
    PROVE  q[g] = None
<1> DEFINE S == {h \in DOMAIN q : q[h] # None}
<1>1. S \in SUBSET {"system", "role", "group", "mfa", "active", "email"}
  BY QueryFacts
<1>2. IsFiniteSet(S)
  BY <1>1, FieldsFinite, FS_Subset
<1>3. PICK x : S = {x}
  BY <1>2, FS_Singleton
<1> QED
  BY <1>3

\* One that asks for a role or a group asks for nothing else.
LEMMA AloneFields ==
    ASSUME NEW q \in IqlQuery, WellRead(q)
    PROVE  \/ q.role = None /\ q.group = None
           \/ /\ q.role # None /\ q.group = None
              /\ q.system = None /\ q.mfa = None /\ q.active = None /\ q.email = None
           \/ /\ q.group # None /\ q.role = None
              /\ q.system = None /\ q.mfa = None /\ q.active = None /\ q.email = None
<1>1. DOMAIN q = {"system", "role", "group", "mfa", "active", "email"}
  BY QueryFacts
<1>2. CASE q.role = None /\ q.group = None
  BY <1>2
<1>3. CASE ~(q.role = None /\ q.group = None)
  <2>1. Cardinality({h \in DOMAIN q : q[h] # None}) = 1
    BY <1>3 DEF WellRead
  <2>2. \A f \in DOMAIN q : q[f] # None => \A g \in DOMAIN q \ {f} : q[g] = None
    BY <2>1, OneField
  <2> QED
    BY <1>1, <1>3, <2>2
<1> QED
  BY <1>2, <1>3

\* The graph is read as it is meant, as far as it agrees with the tables.
LEMMA ReadAsMeant ==
    ASSUME NEW q \in IqlQuery, WellRead(q), UsesGraph(q), links \subseteq rows \X rows
    PROVE  FoundBy(q, rows, links) = Meant(q)
<1>1. CASE q.role = None /\ q.group = None
  <2>1. q.system # None
    BY <1>1 DEF UsesGraph
  <2>2. FoundBy(q, rows, links) =
          {u \in User \cap rows : \E r \in RolesReached(u, links) :
               SystemOf[r] \in q.system /\ UserMatches(q, u)}
    BY <1>1, <2>1 DEF FoundBy, RoleMatches
  <2>3. Meant(q) = {u \in User \cap rows :
                      /\ UserMatches(q, u)
                      /\ \E r \in RolesReached(u, links) : SystemOf[r] \in q.system}
    BY <1>1, <2>1 DEF Meant
  <2> QED
    BY <2>2, <2>3
<1>2. CASE /\ q.role # None /\ q.group = None
           /\ q.system = None /\ q.mfa = None /\ q.active = None /\ q.email = None
  <2>1. \A u : UserMatches(q, u)
    BY <1>2, NoneAssumption DEF UserMatches
  <2>2. \A r, u : RoleMatches(q, r, u) <=> r \in q.role.contains
    BY <1>2, <2>1, QueryFacts DEF RoleMatches, TextMatches
  <2> QED
    BY <1>2, <2>1, <2>2 DEF FoundBy, Meant
<1>3. CASE /\ q.group # None /\ q.role = None
           /\ q.system = None /\ q.mfa = None /\ q.active = None /\ q.email = None
  <2>1. \A u : UserMatches(q, u)
    BY <1>3, NoneAssumption DEF UserMatches
  <2>2. \A g, u : TextMatches(q.group, g, TRUE, UserMatches(q, u)) <=> g \in q.group.contains
    BY <1>3, <2>1, QueryFacts DEF TextMatches
  <2>3. q.group.contains \subseteq Group
    BY <1>3, QueriesAssumption
  <2> QED
    BY <1>3, <2>1, <2>2, <2>3 DEF FoundBy, Meant
<1> QED
  BY <1>1, <1>2, <1>3, AloneFields

\* So are the tables, but for mfa.
LEMMA TablesAsMeant ==
    ASSUME NEW q \in IqlQuery, ~UsesGraph(q)
    PROVE  /\ Meant(q) \subseteq RelationalRows(q, rows)
           /\ q.mfa # TRUE => RelationalRows(q, rows) = Meant(q)
<1> DEFINE asked == [q EXCEPT !.mfa = None]
<1>1. /\ asked.mfa = None /\ asked.active = q.active /\ asked.email = q.email
      /\ asked.system = q.system /\ asked.role = q.role /\ asked.group = q.group
  BY QueryFacts
<1>2. /\ q.system = None /\ q.role = None /\ q.group = None
      /\ ~UsesGraph(asked)
  BY <1>1 DEF UsesGraph
<1>3. RelationalRows(q, rows) = {u \in User \cap rows : UserMatches(asked, u)}
  BY DEF RelationalRows
<1> HIDE DEF asked
<1>4. Meant(q) = {u \in User \cap rows : UserMatches(q, u)}
  BY <1>2 DEF Meant
<1>5. \A u : UserMatches(q, u) <=> q.mfa # TRUE /\ UserMatches(asked, u)
  BY <1>1, <1>2, NoneAssumption DEF UserMatches
<1> QED
  BY <1>3, <1>4, <1>5

-----------------------------------------------------------------------------
(* A graph that mirrors the tables.                                        *)

\* What a table that was not cut held could be scanned.
ScannedUsers(s) ==
    (/\ sync[s].stage > 1 \/ (sync[s].stage = 1 /\ sync[s].pc = "write")
     /\ 1 \notin sync[s].cut)
    => BaseRows(s, 1) \subseteq Readable

\* A dossier holds paths that are in the tables.
Grounded(d) == dossier[d].paths \subseteq EffectivePaths(dossier[d].identity, links)

AnswersInv == (\A s \in Sync : ScannedUsers(s)) /\ (\A d \in Reader : Grounded(d))

\* What a sync does leaves the others, the readers and the tables alone.
LEMMA OthersRest ==
    ASSUME NEW s \in Sync, sync \in [Sync -> Control],
           Clear(s) \/ Fetch(s) \/ Write(s)
             \/ FetchPermissionResources(s) \/ Record(s) \/ Cancel(s)
    PROVE  /\ \A t \in Sync \ {s} : sync'[t] = sync[t]
           /\ links' = links /\ dossier' = dossier
<1>1. ASSUME NEW p, NEW n, NEW batch, Becomes(s, p, n, batch)
      PROVE  \A t \in Sync \ {s} : sync'[t] = sync[t]
  BY <1>1 DEF Becomes
<1>2. ASSUME Gives(s) PROVE \A t \in Sync \ {s} : sync'[t] = sync[t]
  BY <1>1, <1>2 DEF Gives
<1>3. ASSUME NEW got, Takes(s, got) PROVE \A t \in Sync \ {s} : sync'[t] = sync[t]
  BY <1>3 DEF Takes
<1>4. links' = links /\ dossier' = dossier
  BY DEF Clear, Fetch, Write, FetchPermissionResources, Record, Cancel, tables
<1>5. CASE Clear(s)
  BY <1>2, <1>4, <1>5 DEF Clear
<1>6. CASE Fetch(s)
  BY <1>2, <1>3, <1>4, <1>6 DEF Fetch
<1>7. CASE Write(s)
  BY <1>1, <1>2, <1>4, <1>7 DEF Write
<1>8. CASE FetchPermissionResources(s)
  BY <1>2, <1>4, <1>8 DEF FetchPermissionResources
<1>9. CASE Record(s)
  BY <1>1, <1>4, <1>9 DEF Record
<1>10. CASE Cancel(s)
  BY <1>4, <1>10 DEF Cancel
<1> QED
  BY <1>5, <1>6, <1>7, <1>8, <1>9, <1>10

LEMMA AnswersInit == Init => AnswersInv
BY DEF Init, AnswersInv, ScannedUsers, Grounded, NoDossier

\* A sync that gets on without reading, or gives up.
LEMMA ScannedLater ==
    ASSUME NEW s \in Sync, ScannedUsers(s), sync[s].stage \in 0 .. 10,
           sync'[s].base = sync[s].base, sync'[s].cut = sync[s].cut,
           \/ sync'[s].stage = sync[s].stage /\ sync'[s].pc # "write"
           \/ sync[s].pc = "write" /\ sync[s].stage >= 1
    PROVE  ScannedUsers(s)'
BY DEF ScannedUsers, BaseRows

LEMMA ScannedStep ==
    ASSUME SyncInv, SyncInv', [Next]_vars, NEW t \in Sync, ScannedUsers(t)
    PROVE  ScannedUsers(t)'
<1> USE DEF SyncInv
<1>1. /\ sync \in [Sync -> Control] /\ sync[t].stage \in 0 .. 10
      /\ sync[t].base.rows \subseteq rows
  BY DEF TypeOK, Control, Promise, BaseKept
<1>2. CASE sync'[t] = sync[t]
  BY <1>2 DEF ScannedUsers, BaseRows
<1>3. CASE sync'[t] # sync[t]
  <2>1. ASSUME NEW s \in Sync, Clear(s) \/ Fetch(s) \/ Write(s)
                               \/ FetchPermissionResources(s) \/ Record(s) \/ Cancel(s)
        PROVE  s = t
    BY <1>1, <1>3, <2>1, OthersRest
  <2>2. \/ Clear(t) \/ Fetch(t) \/ Write(t)
        \/ FetchPermissionResources(t) \/ Record(t) \/ Cancel(t)
    BY <1>3, <2>1 DEF Next, ReadPermissions, ReadLineage, Insert, vars
  <2>3. ASSUME Gives(t) PROVE ScannedUsers(t)'
    BY <1>1, <2>3, GivesFacts, ScannedLater
  <2>4. CASE Clear(t)
    <3>1. CASE sync' = [sync EXCEPT ![t].pc = "fetch", ![t].stage = 1,
                          ![t].base = [rows |-> rows, links |-> links],
                          ![t].cut = {}]
      <4>1. sync'[t].pc = "fetch" /\ sync'[t].stage = 1
        BY <1>1, <3>1 DEF Control
      <4> QED
        BY <4>1 DEF ScannedUsers
    <3> QED
      BY <2>3, <2>4, <3>1 DEF Clear
  <2>5. CASE Fetch(t)
    <3> DEFINE n == sync[t].stage
    <3>1. ASSUME NEW all \in Scanned(n), NEW got \in SUBSET all, Takes(t, got),
                 n \in 1 .. 9
          PROVE  ScannedUsers(t)'
      <4>1. /\ sync'[t].stage = n /\ sync'[t].base = sync[t].base
            /\ sync'[t].cut = IF got = Contents(n) THEN sync[t].cut ELSE sync[t].cut \cup {n}
        BY <1>1, <3>1 DEF Takes, Control
      <4>2. CASE n # 1
        BY <1>1, <4>1, <4>2 DEF ScannedUsers, BaseRows
      <4>3. CASE n = 1 /\ got = Contents(1)
        <5>1. Contents(1) = rows \cap User /\ Scanned(1) = Scans(Contents(1))
          BY DEF Contents, Scanned, NodeStages, Table
        <5>2. got \subseteq Readable
          BY <3>1, <4>3, <5>1 DEF Scans
        <5>3. BaseRows(t, 1)' \subseteq Contents(1)
          BY <1>1, <4>1, <5>1 DEF BaseRows, Table
        <5> QED
          BY <4>3, <5>2, <5>3 DEF ScannedUsers
      <4>4. CASE n = 1 /\ got # Contents(1)
        BY <4>1, <4>4 DEF ScannedUsers
      <4> QED
        BY <4>2, <4>3, <4>4
    <3>2. n \in 1 .. 9
      BY <2>5, TableFacts DEF Fetch
    <3>3. \A all \in Scanned(n) : all \in SUBSET all
      OBVIOUS
    <3> QED
      BY <2>3, <2>5, <3>1, <3>2, <3>3 DEF Fetch
  <2>6. CASE Write(t)
    <3>1. sync[t].pc = "write" /\ sync[t].stage \in 1 .. 9
      BY <2>6 DEF Write, SyncAt, Promise, Stages
    <3>2. CASE Becomes(t, "fetch", sync[t].stage + 1, {})
      <4>1. sync'[t].base = sync[t].base /\ sync'[t].cut = sync[t].cut
        BY <1>1, <3>2 DEF Becomes, Control
      <4> QED
        BY <1>1, <3>1, <4>1, ScannedLater
    <3> QED
      BY <2>3, <2>6, <3>2 DEF Write
  <2>7. CASE FetchPermissionResources(t)
    BY <2>3, <2>7 DEF FetchPermissionResources
  <2>8. CASE Record(t) \/ Cancel(t)
    <3>1. /\ sync'[t].pc = "done" /\ sync'[t].stage = sync[t].stage
          /\ sync'[t].base = sync[t].base /\ sync'[t].cut = sync[t].cut
      BY <1>1, <2>8 DEF Record, Cancel, Becomes, Control
    <3> QED
      BY <1>1, <3>1, ScannedLater
  <2> QED
    BY <2>2, <2>4, <2>5, <2>6, <2>7, <2>8
<1> QED
  BY <1>2, <1>3

\* Links are only added, so that what was read of them stays true.
LEMMA GroundedStep ==
    ASSUME SyncInv, [Next]_vars, NEW e \in Reader, Grounded(e)
    PROVE  Grounded(e)'
<1>1. dossier \in [Reader -> Dossier]
  BY DEF SyncInv, TypeOK
<1>2. ASSUME dossier' = dossier, links \subseteq links' PROVE Grounded(e)'
  BY <1>2, LineageGrows DEF Grounded
<1>3. ASSUME NEW d \in Reader, (\E u \in User : ReadPermissions(d, u)) \/ ReadLineage(d)
      PROVE  Grounded(e)'
  <2>1. links' = links
    BY <1>3 DEF ReadPermissions, ReadLineage, tables
  <2>2. \/ dossier'[e] = dossier[e]
        \/ dossier'[e].paths = {}
        \/ dossier'[e].paths = EffectivePaths(dossier'[e].identity, links)
    BY <1>1, <1>3 DEF ReadPermissions, ReadLineage, NoDossier
  <2> QED
    BY <2>1, <2>2 DEF Grounded
<1>4. ASSUME NEW s \in Sync, Clear(s) \/ Fetch(s) \/ Write(s)
                             \/ FetchPermissionResources(s) \/ Record(s) \/ Cancel(s)
      PROVE  dossier' = dossier /\ links' = links
  BY <1>4, OthersRest DEF SyncInv, TypeOK
<1>5. CASE Insert \/ UNCHANGED vars
  BY <1>2, <1>5 DEF Insert, vars, tables
<1> QED
  BY <1>2, <1>3, <1>4, <1>5 DEF Next

LEMMA AnswersInvariant == Spec => [](SyncInv /\ AnswersInv)
<1>1. SyncInv /\ SyncInv' /\ AnswersInv /\ [Next]_vars => AnswersInv'
  BY ScannedStep, GroundedStep DEF AnswersInv
<1> QED
  BY <1>1, AnswersInit, SyncInvariant, PTL DEF Spec

\* What the graph holds once it mirrors the tables.
LEMMA MirrorFacts ==
    ASSUME SyncInv, AnswersInv, Mirrored
    PROVE  /\ rows \cap User = nodes \cap User
           /\ links \cap (Membership \cup HasRole) = edges \cap (Membership \cup HasRole)
           /\ rows \cap User \subseteq Readable
<1> DEFINE s == clearer
           cut == sync[s].cut
<1>1. /\ s \in Sync /\ cut \subseteq {4, 5, 9} /\ sync[s].stage = 10
      /\ sync[s].base.rows = rows /\ sync[s].base.links = links
      /\ nodes \subseteq rows /\ edges \subseteq links /\ links \subseteq Link
  BY DEF Mirrored, SyncInv, GraphOK, TypeOK
<1>2. /\ \A n \in NodeStages \ cut : BaseRows(s, n) \subseteq nodes
      /\ \A n \in EdgeStages \ cut : BaseLinks(s, n) \subseteq edges
  <2>1. \A n \in NodeStages \cup EdgeStages : n \notin cut => Written(s, n)
    BY <1>1, TableFacts DEF Written
  <2> QED
    BY <1>1, <2>1 DEF SyncInv, Promise, Rebuilt
<1>3. BaseRows(s, 1) = rows \cap User /\ 1 \in NodeStages \ cut
  BY <1>1 DEF BaseRows, Table, NodeStages
<1>4. rows \cap User \subseteq Readable
  BY <1>1, <1>3 DEF AnswersInv, ScannedUsers
<1>5. ASSUME NEW l \in links \cap (Membership \cup HasRole) PROVE l \in edges
  <2>1. PICK n \in {6, 7, 8} : l \in Table(n)
    <3>1. /\ Table(6) = Membership /\ Table(7) = User \X Role /\ Table(8) = Group \X Role
      BY DEF Table
    <3> QED
      BY <3>1 DEF HasRole
  <2>2. n \in EdgeStages \ cut
    BY <1>1 DEF EdgeStages
  <2>3. l[1] \in User \cup Group \cup Role /\ l[2] \in User \cup Group \cup Role
    BY DEF Membership, HasRole
  <2>4. \A m \in NodeStages \cap cut : (User \cup Group \cup Role) \cap Table(m) = {}
    <3>1. \A m \in NodeStages \cap cut : m = 4 \/ m = 5
      BY <1>1 DEF NodeStages
    <3>2. /\ Table(4) = Permission /\ Table(5) = Resource
      BY DEF Table
    <3>3. /\ (User \cup Group \cup Role) \cap Permission = {}
          /\ (User \cup Group \cup Role) \cap Resource = {}
      <4> DEFINE Kind == <<User, Group, Role, Permission, Resource>>
      <4>1. \A k, l_1 \in 1 .. 5 : k # l_1 => Kind[k] \cap Kind[l_1] = {}
        BY KindsAssumption
      <4>2. /\ Kind[1] \cap Kind[4] = {} /\ Kind[2] \cap Kind[4] = {} /\ Kind[3] \cap Kind[4] = {}
            /\ Kind[1] \cap Kind[5] = {} /\ Kind[2] \cap Kind[5] = {} /\ Kind[3] \cap Kind[5] = {}
        <5> HIDE DEF Kind
        <5> QED
          BY <4>1
      <4> QED
        BY <4>2
    <3> QED
      BY <3>1, <3>2, <3>3
  <2>5. l \in BaseLinks(s, n)
    BY <1>1, <2>1, <2>3, <2>4 DEF BaseLinks
  <2> QED
    BY <1>2, <2>2, <2>5
<1> QED
  BY <1>1, <1>2, <1>3, <1>4, <1>5

-----------------------------------------------------------------------------
(* What the answers tell.                                                  *)

\* No answer grants what the tables do not.
LEMMA GrantsNothing == SyncInv => GraphGrantsNothing
<1> SUFFICES ASSUME SyncInv PROVE GraphGrantsNothing
  OBVIOUS
<1>1. /\ nodes \in SUBSET rows /\ edges \in SUBSET links
      /\ links \subseteq rows \X rows
  BY DEF SyncInv, GraphOK, TypeOK
<1>2. \A u \in User : RolesReached(u, edges) \subseteq RolesReached(u, links)
  BY <1>1, ReachGrows
<1>3. \A n \in 1 .. 3 : UserRules(nodes, edges)[n] \subseteq UserRules(rows, links)[n]
  BY <1>1, RulesGrow
<1>4. ASSUME NEW q \in IqlQuery, NEW answer \in IQLAnswers(q, rows, nodes, edges)
      PROVE  /\ UsesGraph(q) => answer \subseteq Users(GraphRows(q, rows, links))
             /\ WellRead(q) => answer \subseteq Meant(q)
  <2>1. CASE UsesGraph(q)
    <3>1. PICK kept \in Limited(GraphRows(q, nodes, edges)) : answer = Users(kept)
      BY <1>4, <2>1 DEF IQLAnswers, GraphAnswers
    <3>2. kept \subseteq GraphRows(q, nodes, edges)
      BY LimitFacts
    <3>3. answer \subseteq Users(GraphRows(q, nodes, edges))
      BY <3>1, <3>2 DEF Users
    <3>4. answer \subseteq FoundBy(q, nodes, edges)
      BY <3>3, RowsFind
    <3>5. FoundBy(q, nodes, edges) \subseteq FoundBy(q, rows, links)
      BY <1>1, AnswersGrow
    <3>6. Users(GraphRows(q, rows, links)) = FoundBy(q, rows, links)
      BY RowsFind
    <3>7. WellRead(q) => FoundBy(q, rows, links) = Meant(q)
      BY <1>1, <2>1, ReadAsMeant
    <3> QED
      BY <3>4, <3>5, <3>6, <3>7
  <2>2. CASE ~UsesGraph(q)
    <3>1. PICK kept \in Limited(RelationalRows(q, rows)) : answer \in Scans(kept)
      BY <1>4, <2>2 DEF IQLAnswers, RelationalAnswers
    <3>2. kept \subseteq RelationalRows(q, rows)
      BY LimitFacts
    <3>3. answer \subseteq kept
      BY <3>1 DEF Scans
    <3>4. WellRead(q) => RelationalRows(q, rows) = Meant(q)
      BY <2>2, TablesAsMeant DEF WellRead
    <3> QED
      BY <2>2, <3>2, <3>3, <3>4
  <2> QED
    BY <2>1, <2>2
<1> QED
  BY <1>2, <1>3, <1>4 DEF GraphGrantsNothing

\* A graph with the memberships and roles of the tables reaches the same roles.
LEMMA MirrorReaches ==
    ASSUME links \cap (Membership \cup HasRole) = edges \cap (Membership \cup HasRole),
           NEW u \in User
    PROVE  RolesReached(u, edges) = RolesReached(u, links)
<1>1. \A p \in ({u} \cup Group) \X Role : p \in edges <=> p \in links
  BY DEF HasRole
<1>2. \A g \in Group : <<u, g>> \in edges <=> <<u, g>> \in links
  BY DEF Membership
<1>3. ASSUME NEW p \in ({u} \cup Group) \X Role
      PROVE  p \in RolePaths(u, edges) <=> p \in RolePaths(u, links)
  <2>1. p[1] = u \/ p[1] \in Group
    OBVIOUS
  <2> QED
    BY <1>1, <1>2, <2>1 DEF RolePaths
<1>4. RolePaths(u, edges) = RolePaths(u, links)
  BY <1>3 DEF RolePaths
<1> QED
  BY <1>4 DEF RolesReached

\* Once rebuilt, it misses no one.
LEMMA FindsAll == SyncInv /\ AnswersInv => GraphFindsAll
<1> SUFFICES ASSUME SyncInv, AnswersInv, Mirrored
             PROVE  /\ \A q \in IqlQuery :
                          WellRead(q) /\ Cardinality(IQLRows(q, rows, nodes, edges)) <= Limit =>
                              \A answer \in IQLAnswers(q, rows, nodes, edges) :
                                  Meant(q) \subseteq answer
                    /\ \A u \in CrossSystemAdmins(links) \ CrossSystemAdmin(nodes, edges) :
                          \E r \in EngineAdmin \ Admin : <<u, r>> \in links
                    /\ \A g \in OrphanedGroupWithAdminRole(edges), u \in User :
                          <<u, g>> \notin links
  BY DEF GraphFindsAll
<1>1. /\ rows \cap User = nodes \cap User
      /\ links \cap (Membership \cup HasRole) = edges \cap (Membership \cup HasRole)
      /\ rows \cap User \subseteq Readable
  BY MirrorFacts
<1>2. /\ links \subseteq rows \X rows
  BY DEF SyncInv, TypeOK
<1>3. \A u \in User : RolesReached(u, edges) = RolesReached(u, links)
  BY <1>1, MirrorReaches
<1>4. ASSUME NEW q \in IqlQuery, WellRead(q), Cardinality(IQLRows(q, rows, nodes, edges)) <= Limit,
             NEW answer \in IQLAnswers(q, rows, nodes, edges)
      PROVE  Meant(q) \subseteq answer
  <2>1. CASE UsesGraph(q)
    <3>1. PICK kept \in Limited(GraphRows(q, nodes, edges)) : answer = Users(kept)
      BY <1>4, <2>1 DEF IQLAnswers, GraphAnswers
    <3>2. kept = GraphRows(q, nodes, edges)
      BY <1>4, <2>1, LimitFacts DEF IQLRows
    <3>3. answer = FoundBy(q, nodes, edges)
      BY <3>1, <3>2, RowsFind
    <3>4. FoundBy(q, nodes, edges) = FoundBy(q, rows, links)
      <4>1. User \cap nodes = User \cap rows
        BY <1>1
      <4>2. CASE q.group = None
        BY <1>3, <4>1, <4>2 DEF FoundBy
      <4>3. CASE q.group # None
        <5>1. \A u, g : g \in Group /\ u \in User => (<<u, g>> \in edges <=> <<u, g>> \in links)
          BY <1>1 DEF Membership
        <5> QED
          BY <4>1, <4>3, <5>1 DEF FoundBy
      <4> QED
        BY <4>2, <4>3
    <3> QED
      BY <1>2, <1>4, <2>1, <3>3, <3>4, ReadAsMeant
  <2>2. CASE ~UsesGraph(q)
    <3>1. PICK kept \in Limited(RelationalRows(q, rows)) : answer \in Scans(kept)
      BY <1>4, <2>2 DEF IQLAnswers, RelationalAnswers
    <3>2. kept = RelationalRows(q, rows)
      BY <1>4, <2>2, LimitFacts DEF IQLRows
    <3>3. RelationalRows(q, rows) \subseteq Readable
      BY <1>1 DEF RelationalRows
    <3>4. answer = RelationalRows(q, rows)
      BY <3>1, <3>2, <3>3 DEF Scans
    <3> QED
      BY <2>2, <3>4, TablesAsMeant
  <2> QED
    BY <2>1, <2>2
<1>5. ASSUME NEW u \in User, NEW r \in Admin, NEW t \in Admin, SystemOf[r] # SystemOf[t],
             <<u, r>> \in links, <<u, t>> \in links
      PROVE  u \in CrossSystemAdmin(nodes, edges)
  <2>1. u \in User \cap nodes
    BY <1>1, <1>2, <1>5
  <2>2. \A x \in Admin : <<u, x>> \in links => x \in Admin \cap RolesReached(u, links)
    <3> SUFFICES ASSUME NEW x \in Admin, <<u, x>> \in links PROVE x \in RolesReached(u, links)
      OBVIOUS
    <3>1. <<u, x>> \in ({u} \cup Group) \X Role
      BY KindsAssumption
    <3>2. <<u, x>> \in RolePaths(u, links)
      BY <3>1 DEF RolePaths
    <3> QED
      BY <3>2 DEF RolesReached
  <2> DEFINE S == Admin \cap RolesReached(u, edges)
  <2>3. r \in S /\ t \in S /\ S \in SUBSET Role
    BY <1>3, <1>5, <2>2, KindsAssumption
  <2>4. Cardinality({SystemOf[x] : x \in S}) >= 2
    <3> HIDE DEF S
    <3> QED
      BY <1>5, <2>3, TwoSystems
  <2> QED
    BY <2>1, <2>4 DEF CrossSystemAdmin
<1>6. ASSUME NEW g \in OrphanedGroupWithAdminRole(edges), NEW u \in User
      PROVE  <<u, g>> \notin links
  <2>1. g \in Group /\ <<u, g>> \notin edges
    BY DEF OrphanedGroupWithAdminRole
  <2> QED
    BY <1>1, <2>1 DEF Membership
<1>7. ASSUME NEW u \in CrossSystemAdmins(links) \ CrossSystemAdmin(nodes, edges)
      PROVE  \E r \in EngineAdmin \ Admin : <<u, r>> \in links
  <2>1. PICK r \in EngineAdmin, t \in EngineAdmin :
           <<u, r>> \in links /\ <<u, t>> \in links /\ SystemOf[r] # SystemOf[t]
    BY DEF CrossSystemAdmins
  <2>2. u \in User
    BY DEF CrossSystemAdmins
  <2>3. ~(r \in Admin /\ t \in Admin)
    BY <1>5, <1>7, <2>1, <2>2
  <2> QED
    BY <2>1, <2>3
<1> QED
  BY <1>4, <1>6, <1>7

\* The lineage read after a path explains it.
LEMMA PathsExplained == AnswersInv => DossierExplained
BY DEF AnswersInv, Grounded, DossierExplained, Lineage

\* The answers agree with the tables, from wherever and whenever they are
\* read: whatever syncs fail or are cancelled, the graph grants nothing that
\* the tables do not; once it has been rebuilt without a cut it misses no one
\* within the limit of a query, but for what the graph does not take for an
\* admin role; and a dossier's paths are explained by its lineage
\* (toxic_combo_rules.go, iql_parser.go, handler.go:150-208).
THEOREM AnswersAgree == Spec => []AnswersTellTheTables
<1>1. SyncInv /\ AnswersInv => AnswersTellTheTables
  BY GrantsNothing, FindsAll, PathsExplained DEF AnswersTellTheTables
<1> QED
  BY <1>1, AnswersInvariant, PTL

=============================================================================
