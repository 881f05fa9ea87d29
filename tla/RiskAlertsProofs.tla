-------------------------- MODULE RiskAlertsProofs --------------------------
(***************************************************************************)
(* Safety of scores, flags and alerts for any identities, facts, requests  *)
(* and bounds.                                                             *)
(***************************************************************************)
EXTENDS RiskAlerts, FiniteSetTheorems, TLAPS

-----------------------------------------------------------------------------
(* Types, with what a request has in hand at each place.                   *)

Placed(c) ==
    /\ c.pc \in {"read", "answer", "check", "score", "history", "clear", "insert"}
          => c.identity \in Identity
    /\ c.pc \in {"idle", "read"} => c.query = 1 /\ c.flags = {}
    /\ c.pc = "check" => c.query \in Queries
    /\ c.pc \in {"post", "record"} => c.row \in Flag /\ c.row.rule \in highValueRuleKeys
    /\ \A f \in c.rows : f.rule \in highValueRuleKeys

RequestsOK == request \in [Request -> Control] /\ \A r \in Request : Placed(request[r])

StoreOK == /\ risk_scores \in [Identity -> Scores \cup {None}]
           /\ history \in [Identity -> Scores \cup {None}]
           /\ risk_flags \subseteq Flag

AlertsOK == /\ dedupe \in [Key -> Time \cup {None}]
            /\ alerted \in [Key -> Time \cup {None}]
            /\ unrecorded \subseteq Key

RestOK == /\ facts \in [Identity -> Facts]
          /\ held \subseteq Request
          /\ now \in Time
          /\ faults \in 0 .. MaxFaults
          /\ syncs \in 0 .. MaxArrivals
          /\ settled \subseteq Identity
          /\ fresh \subseteq settled

TypeInv == RequestsOK /\ StoreOK /\ AlertsOK /\ RestOK

\* The bounds are numbers.
LEMMA BoundsFacts == /\ MaxTime \in Nat /\ MaxFaults \in Nat /\ MaxArrivals \in Nat
                     /\ Connectors \in Nat /\ Hour \in Nat /\ Window \in Nat
BY BoundsAssumption

\* Each rule has one query that decides it.
LEMMA RuleFacts == /\ DOMAIN RuleOf = {1, 3, 5, 6, 7, 8, 9}
                   /\ Flagging = {1, 3, 5, 6} /\ Shadowed = {7, 8, 9}
                   /\ \A q \in DOMAIN RuleOf : RuleOf[q] \in Rule
                   /\ \A p, q \in DOMAIN RuleOf : RuleOf[p] = RuleOf[q] => p = q
                   /\ \A f \in Rule : \E q \in DOMAIN RuleOf : RuleOf[q] = f
<1>1. Rule = {"cross_system_admin", "disabled_drift", "privileged_without_mfa",
              "deadend_orphaned_user", "deadend_orphaned_group", "deadend_stale_role",
              "deadend_disconnected_permission"}
  BY DEF Rule, Weight
<1>2. /\ RuleOf[1] = "cross_system_admin" /\ RuleOf[3] = "disabled_drift"
      /\ RuleOf[5] = "privileged_without_mfa" /\ RuleOf[6] = "deadend_orphaned_user"
      /\ RuleOf[7] = "deadend_orphaned_group" /\ RuleOf[8] = "deadend_stale_role"
      /\ RuleOf[9] = "deadend_disconnected_permission"
      /\ DOMAIN RuleOf = {1, 3, 5, 6, 7, 8, 9}
  BY DEF RuleOf
<1>3. Flagging = {1, 3, 5, 6} /\ Shadowed = {7, 8, 9}
  BY <1>2 DEF Flagging, Shadowed
<1> QED
  BY <1>1, <1>2, <1>3

\* A fault, or none, keeps within the bound.
LEMMA FaultFacts == ASSUME RestOK, Fault \/ Works PROVE faults' \in 0 .. MaxFaults
BY BoundsFacts DEF Fault, Works, RestOK

\* A request that changes what it has in hand, alone.
LEMMA SetRequest ==
    ASSUME RequestsOK, NEW r \in Request, NEW c \in Control, Placed(c), Becomes(r, c)
    PROVE  /\ RequestsOK'
           /\ request'[r] = c
           /\ \A q \in Request \ {r} : request'[q] = request[q]
BY DEF RequestsOK, Becomes

\* A request with nothing in hand.
LEMMA BlankFacts == ASSUME NEW p \in {"idle", "done"}
                    PROVE  Blank(p) \in Control /\ Placed(Blank(p))
<1>1. Connectors \in Nat
  BY BoundsFacts
<1> QED
  BY <1>1 DEF Blank, Control, PC, Placed

\* A request that has been answered has nothing in hand.
LEMMA AnswerFacts == ASSUME RequestsOK, NEW r \in Request, Answer(r)
                     PROVE  /\ RequestsOK' /\ request'[r] = Blank("done")
                            /\ \A q \in Request \ {r} : request'[q] = request[q]
BY BlankFacts, SetRequest DEF Answer

\* What is in hand when only the place changes.
LEMMA GotoFacts ==
    ASSUME RequestsOK, NEW r \in Request, NEW p \in PC, Goto(r, p),
           Placed([request[r] EXCEPT !.pc = p])
    PROVE  /\ RequestsOK' /\ request'[r] = [request[r] EXCEPT !.pc = p]
           /\ \A q \in Request \ {r} : request'[q] = request[q]
<1>1. [request[r] EXCEPT !.pc = p] \in Control
  BY DEF RequestsOK, Control
<1> QED
  BY <1>1, SetRequest DEF Goto

\* The parts of a request.
LEMMA Parts ==
    ASSUME RequestsOK, NEW r \in Request
    PROVE  /\ request[r] \in Control /\ Placed(request[r])
           /\ request[r].query \in 1 .. 10 /\ request[r].flags \subseteq Rule
           /\ request[r].todo \subseteq Rule /\ request[r].rows \subseteq Flag
           /\ request[r].left \in 0 .. Connectors
           /\ request[r].alone \in BOOLEAN /\ request[r].steady \in BOOLEAN
BY DEF RequestsOK, Control

\* An assessment that begins to compute.
LEMMA ComputeFacts ==
    ASSUME RequestsOK, NEW r \in Request, NEW i \in Identity, Compute(r, i),
           request[r].query \in Queries
    PROVE  /\ RequestsOK'
           /\ request'[r] = [request[r] EXCEPT !.pc = "check", !.identity = i, !.steady = TRUE]
           /\ \A q \in Request \ {r} : request'[q] = request[q]
<1> DEFINE c == [request[r] EXCEPT !.pc = "check", !.identity = i, !.steady = TRUE]
<1>1. request[r] \in Control /\ Placed(request[r])
  BY Parts
<1>2. c \in Control
  BY <1>1 DEF Control, PC
<1>3. Placed(c)
  BY <1>1 DEF Placed, Control
<1> QED
  BY <1>2, <1>3, SetRequest DEF Compute

\* What an assessment has in hand after a query.
LEMMA AnsweredFacts ==
    ASSUME RequestsOK, NEW r \in Request, NEW yes \in BOOLEAN, NEW steady \in BOOLEAN,
           At(r, "check"), Answered(r, yes, steady)
    PROVE  LET c == request[r]
               q == IF IsFirstOfTwo(c.query) /\ ~yes THEN c.query + 2 ELSE c.query + 1
           IN /\ RequestsOK'
              /\ request'[r].identity = c.identity
              /\ request'[r].query = q
              /\ request'[r].steady = (c.steady /\ steady)
              /\ request'[r].pc = IF q \in Queries THEN "check" ELSE "score"
              /\ request'[r].flags = IF yes /\ c.query \in Flagging
                                     THEN c.flags \cup {RuleOf[c.query]} ELSE c.flags
              /\ \A p \in Request \ {r} : request'[p] = request[p]
<1> DEFINE c == request[r]
           q == IF IsFirstOfTwo(c.query) /\ ~yes THEN c.query + 2 ELSE c.query + 1
           f == IF yes /\ c.query \in Flagging THEN c.flags \cup {RuleOf[c.query]} ELSE c.flags
           p == IF q \in Queries THEN "check" ELSE "score"
           b == c.steady /\ steady
           d == [c EXCEPT !.flags = f, !.query = q, !.steady = b, !.pc = p]
<1>1. c \in Control /\ Placed(c) /\ c.query \in Queries /\ c.identity \in Identity
  BY Parts DEF At, Placed
<1>2. f \subseteq Rule /\ b \in BOOLEAN /\ p \in PC
  BY <1>1, Parts, RuleFacts DEF PC
<1>3. q \in 1 .. 10
  BY <1>1 DEF Queries, IsFirstOfTwo
<1>4. Becomes(r, d)
  BY DEF Answered
<1>5. p \in {"check", "score"} /\ (p = "check" => q \in Queries)
  OBVIOUS
<1> HIDE DEF f, q, p, b
<1>6. d \in Control
  BY <1>1, <1>2, <1>3 DEF Control
<1>7. /\ d.identity = c.identity /\ d.query = q /\ d.steady = b /\ d.pc = p /\ d.flags = f
      /\ d.rows = c.rows
  BY <1>1 DEF Control
<1> HIDE DEF d
<1>8. Placed(d)
  BY <1>1, <1>5, <1>7 DEF Placed
<1>9. /\ RequestsOK' /\ request'[r] = d
      /\ \A k \in Request \ {r} : request'[k] = request[k]
  BY <1>4, <1>6, <1>8, SetRequest
<1> QED
  BY <1>7, <1>9 DEF f, q, p, b
-----------------------------------------------------------------------------
(* Each step keeps the types.                                              *)

\* The types at the start.
LEMMA TypeInit == Init => TypeInv
<1> SUFFICES ASSUME Init PROVE TypeInv
  OBVIOUS
<1>1. RequestsOK
  BY BlankFacts DEF Init, RequestsOK
<1>2. StoreOK /\ AlertsOK
  BY DEF Init, StoreOK, AlertsOK
<1>3. RestOK
  BY BoundsFacts DEF Init, RestOK, Time
<1> QED
  BY <1>1, <1>2, <1>3 DEF TypeInv

\* Requests that begin an assessment keep their types.
LEMMA RecomputeTypes ==
    ASSUME RequestsOK, NEW r \in Request, NEW i \in Identity, Recompute(r, i) PROVE RequestsOK'
<1>1. request[r].query \in Queries
  BY Parts DEF Recompute, Arrives, At, Placed, Queries
<1> QED
  BY <1>1, ComputeFacts DEF Recompute

\* So do those that read the score first.
LEMMA ReadTypes ==
    ASSUME RequestsOK, NEW r \in Request, NEW i \in Identity, Read(r, i) PROVE RequestsOK'
<1> DEFINE c == [request[r] EXCEPT !.pc = "read", !.identity = i]
<1>1. request[r] \in Control /\ Placed(request[r]) /\ request[r].pc = "idle"
  BY Parts DEF Read, Arrives, At
<1>2. c \in Control /\ Placed(c)
  BY <1>1 DEF Control, PC, Placed
<1> QED
  BY <1>2, SetRequest DEF Read

\* The score is there, or is computed.
LEMMA ReadScoreTypes == ASSUME RequestsOK, NEW r \in Request, ReadScore(r) PROVE RequestsOK'
<1>1. request[r].query \in Queries /\ request[r].identity \in Identity
  BY Parts DEF ReadScore, At, Placed, Queries
<1>2. ASSUME Goto(r, "answer") PROVE RequestsOK'
  <2>1. request[r] \in Control /\ Placed(request[r]) /\ "answer" \in PC
    BY Parts DEF PC
  <2>2. Placed([request[r] EXCEPT !.pc = "answer"])
    BY <1>1, <2>1 DEF Placed, Control
  <2> QED
    BY <1>2, <2>1, <2>2, GotoFacts
<1> QED
  BY <1>1, <1>2, ComputeFacts, AnswerFacts DEF ReadScore

\* A query says yes or no.
LEMMA AnswersFact == ASSUME NEW q \in Queries, NEW fact \in Facts
                     PROVE  Answers(q, fact) \subseteq BOOLEAN
<1>1. fact.elsewhere \in BOOLEAN
  BY FactsAssumption DEF Fact
<1>2. CASE q = 1
  BY <1>2 DEF Answers
<1>3. CASE q = 2
  <2>1. {s = "disabled" : s \in fact.main} \subseteq BOOLEAN
    OBVIOUS
  <2>2. Answers(q, fact) \in {{FALSE}, {s = "disabled" : s \in fact.main}}
    BY <1>3 DEF Answers
  <2> QED
    BY <2>1, <2>2
<1>4. CASE q = 3
  BY <1>1, <1>4 DEF Answers
<1>5. CASE q = 4
  BY <1>5 DEF Answers
<1>6. CASE q = 5
  BY <1>6 DEF Answers
<1>7. CASE q = 6
  BY <1>7 DEF Answers
<1>8. CASE q = 7
  BY <1>8 DEF Answers
<1>9. CASE q = 8
  BY <1>9 DEF Answers
<1>10. CASE q = 9
  BY <1>10 DEF Answers
<1>11. q \in {1, 2, 3, 4, 5, 6, 7, 8, 9}
  BY DEF Queries
<1> QED
  BY <1>2, <1>3, <1>4, <1>5, <1>6, <1>7, <1>8, <1>9, <1>10, <1>11

\* A query answers yes, no or not at all.
LEMMA CheckTypes == ASSUME TypeInv, NEW r \in Request, Check(r) PROVE RequestsOK'
<1>1. At(r, "check") /\ request[r].query \in Queries /\ RequestsOK
      /\ request[r].identity \in Identity
  BY Parts DEF Check, At, Placed, TypeInv
<1>2. Answers(request[r].query, facts[request[r].identity]) \subseteq BOOLEAN
  BY <1>1, AnswersFact DEF TypeInv, RestOK
<1>3. ASSUME NEW yes \in BOOLEAN, NEW steady \in BOOLEAN, Answered(r, yes, steady)
      PROVE  RequestsOK'
  BY <1>1, <1>3, AnsweredFacts
<1> QED
  BY <1>2, <1>3 DEF Check, FindsNothing

\* The upsert of the score, which other stores of the identity notice.
LEMMA StoreScoreTypes ==
    ASSUME RequestsOK, NEW r \in Assess, StoreScore(r)
    PROVE  /\ RequestsOK'
           /\ request'[r] = [request[r] EXCEPT !.pc = "history",
                                !.alone = (Storing(request[r].identity) = {})]
           /\ \A q \in Request \ {r} :
                 request'[q] = [request[q] EXCEPT
                     !.alone = @ /\ q \notin Storing(request[r].identity)]
<1> DEFINE b == (Storing(request[r].identity) = {})
           c == [request[r] EXCEPT !.pc = "history", !.alone = b]
<1>1. r \in Request /\ request[r] \in Control /\ Placed(request[r]) /\ request[r].pc = "score"
  BY Parts DEF StoreScore, At, Request
<1>2. b \in BOOLEAN
  OBVIOUS
<1>3. c \in Control /\ Placed(c)
  <2> HIDE DEF b
  <2> QED
    BY <1>1, <1>2 DEF Control, PC, Placed
<1>4. ASSUME NEW q \in Request, NEW a \in BOOLEAN
      PROVE  [request[q] EXCEPT !.alone = a] \in Control /\ Placed([request[q] EXCEPT !.alone = a])
  <2>1. request[q] \in Control /\ Placed(request[q])
    BY Parts
  <2> QED
    BY <2>1 DEF Control, Placed
<1>5. request' = [q \in Request |-> IF q = r THEN c
                     ELSE [request[q] EXCEPT !.alone = @ /\ q \notin Storing(request[r].identity)]]
  BY DEF StoreScore
<1>6. ASSUME NEW q \in Request \ {r}
      PROVE  /\ request'[q] = [request[q] EXCEPT !.alone = @ /\ q \notin Storing(request[r].identity)]
             /\ request'[q] \in Control /\ Placed(request'[q])
  BY <1>4, <1>5, Parts
<1>7. request'[r] = c
  BY <1>1, <1>5
<1>8. request' \in [Request -> Control] /\ \A q \in Request : Placed(request'[q])
  BY <1>3, <1>5, <1>6, <1>7
<1> QED
  BY <1>6, <1>7, <1>8 DEF RequestsOK

\* The history row moves on to the flags.
LEMMA StoreHistoryTypes ==
    ASSUME RequestsOK, NEW r \in Request, StoreHistory(r)
    PROVE  /\ RequestsOK' /\ request'[r] = [request[r] EXCEPT !.pc = "clear"]
           /\ \A q \in Request \ {r} : request'[q] = request[q]
<1>1. request[r] \in Control /\ Placed(request[r]) /\ request[r].pc = "history" /\ "clear" \in PC
  BY Parts DEF StoreHistory, At, PC
<1>2. Placed([request[r] EXCEPT !.pc = "clear"])
  BY <1>1 DEF Placed, Control
<1> QED
  BY <1>1, <1>2, GotoFacts DEF StoreHistory

\* The clear takes all flags in hand as those to insert.
LEMMA ClearFlagsTypes ==
    ASSUME RequestsOK, NEW r \in Request, ClearFlags(r)
    PROVE  /\ RequestsOK'
           /\ request'[r] = IF request[r].flags = {} THEN Blank("done")
                            ELSE [request[r] EXCEPT !.pc = "insert", !.todo = request[r].flags]
           /\ \A q \in Request \ {r} : request'[q] = request[q]
<1> DEFINE c == [request[r] EXCEPT !.pc = "insert", !.todo = request[r].flags]
<1>1. request[r] \in Control /\ Placed(request[r]) /\ request[r].pc = "clear"
  BY Parts DEF ClearFlags, At
<1>2. c \in Control
  BY <1>1 DEF Control, PC
<1>3. Placed(c)
  BY <1>1 DEF Placed, Control
<1> QED
  BY <1>2, <1>3, SetRequest, AnswerFacts DEF ClearFlags

\* An insert takes one flag off the list.
LEMMA InsertFlagTypes ==
    ASSUME TypeInv, NEW r \in Assess, InsertFlag(r)
    PROVE  \E q \in DOMAIN RuleOf :
              LET c == request[r]
                  flag == [identity |-> c.identity, rule |-> RuleOf[q], created_at |-> now, by |-> r]
              IN /\ RequestsOK' /\ flag \in Flag /\ RuleOf[q] \in c.todo
                 /\ risk_flags' = risk_flags \cup {flag}
                 /\ request'[r] = IF c.todo = {RuleOf[q]} THEN Blank("done")
                                  ELSE [c EXCEPT !.todo = @ \ {RuleOf[q]}]
                 /\ Settles(r, c.todo = {RuleOf[q]})
                 /\ \A p \in Request \ {r} : request'[p] = request[p]
<1> DEFINE c == request[r]
<1>1. PICK q \in DOMAIN RuleOf :
          /\ RuleOf[q] \in c.todo
          /\ risk_flags' = risk_flags \cup
                 {[identity |-> c.identity, rule |-> RuleOf[q], created_at |-> now, by |-> r]}
          /\ IF c.todo = {RuleOf[q]} THEN Answer(r)
             ELSE Becomes(r, [c EXCEPT !.todo = @ \ {RuleOf[q]}])
          /\ Settles(r, c.todo = {RuleOf[q]})
  BY DEF InsertFlag
<1> DEFINE d == [c EXCEPT !.todo = @ \ {RuleOf[q]}]
<1>2. r \in Request /\ c \in Control /\ Placed(c) /\ c.pc = "insert" /\ RequestsOK
  BY Parts DEF InsertFlag, At, Request, TypeInv
<1>3. d \in Control
  BY <1>2 DEF Control
<1>4. Placed(d)
  BY <1>2 DEF Placed, Control
<1>5. [identity |-> c.identity, rule |-> RuleOf[q], created_at |-> now, by |-> r] \in Flag
  BY <1>2, RuleFacts DEF Flag, Placed, TypeInv, RestOK
<1>6. /\ RequestsOK'
      /\ request'[r] = IF c.todo = {RuleOf[q]} THEN Blank("done") ELSE d
      /\ \A p \in Request \ {r} : request'[p] = request[p]
  <2>1. CASE c.todo = {RuleOf[q]}
    <3>1. Answer(r)
      BY <1>1, <2>1
    <3> QED
      BY <2>1, <3>1, <1>2, AnswerFacts
  <2>2. CASE c.todo # {RuleOf[q]}
    <3>1. Becomes(r, d)
      BY <1>1, <2>2
    <3> HIDE DEF d
    <3> QED
      BY <2>2, <3>1, <1>2, <1>3, <1>4, SetRequest
  <2> QED
    BY <2>1, <2>2
<1> QED
  BY <1>1, <1>5, <1>6

\* The rows of an emission are flags of the alerted rules.
LEMMA EmitTypes == ASSUME TypeInv, NEW r \in Request, EmitAlerts(r) PROVE RequestsOK'
<1> DEFINE rows == {f \in risk_flags : f.rule \in highValueRuleKeys /\ f.created_at >= now - Hour}
           c == [request[r] EXCEPT !.pc = "row", !.rows = rows]
<1>1. request[r] \in Control /\ Placed(request[r]) /\ RequestsOK
  BY Parts DEF TypeInv
<1>2. rows \subseteq Flag /\ \A f \in rows : f.rule \in highValueRuleKeys
  BY DEF TypeInv, StoreOK
<1>3. Becomes(r, c)
  BY DEF EmitAlerts
<1> HIDE DEF rows
<1>4. c \in Control
  BY <1>1, <1>2 DEF Control, PC
<1>5. Placed(c)
  BY <1>1, <1>2 DEF Placed, Control
<1> QED
  BY <1>1, <1>3, <1>4, <1>5, SetRequest

\* A look-up takes one row, to post it or to skip it.
LEMMA LookUpTypes == ASSUME TypeInv, NEW r \in Request, LookUp(r) PROVE RequestsOK'
<1>1. request[r] \in Control /\ Placed(request[r]) /\ RequestsOK /\ request[r].pc = "row"
  BY Parts DEF TypeInv, LookUp, At
<1>2. PICK f \in request[r].rows, blind \in BOOLEAN :
         LET last == IF blind THEN None ELSE dedupe[KeyOf(f)]
         IN Becomes(r, IF last # None /\ now - last < Window
                       THEN [request[r] EXCEPT !.rows = @ \ {f}]
                       ELSE [request[r] EXCEPT !.pc = "post", !.rows = @ \ {f},
                                 !.row = f, !.blind = blind, !.saw = last])
  BY DEF LookUp
<1> DEFINE last == IF blind THEN None ELSE dedupe[KeyOf(f)]
           c == [request[r] EXCEPT !.rows = @ \ {f}]
           d == [request[r] EXCEPT !.pc = "post", !.rows = @ \ {f},
                     !.row = f, !.blind = blind, !.saw = last]
<1>3. f \in Flag /\ f.rule \in highValueRuleKeys /\ f.identity \in Identity
  BY <1>1, Parts DEF Placed, Flag
<1>4. last \in Time \cup {None}
  BY <1>3 DEF TypeInv, AlertsOK, KeyOf, Key
<1>5. Becomes(r, c) \/ Becomes(r, d)
  BY <1>2
<1> HIDE DEF last
<1>6. c \in Control /\ d \in Control
  BY <1>1, <1>3, <1>4 DEF Control, PC
<1>7. Placed(c) /\ Placed(d)
  BY <1>1, <1>3 DEF Placed, Control
<1> QED
  BY <1>1, <1>5, <1>6, <1>7, SetRequest

\* The next row starts with nothing known.
LEMMA NextRowTypes == ASSUME RequestsOK, NEW r \in Request, NextRow(r) PROVE RequestsOK'
<1> DEFINE c == [request[r] EXCEPT !.pc = "row", !.row = None, !.blind = FALSE, !.saw = None]
<1>1. request[r] \in Control /\ Placed(request[r])
  BY Parts
<1>2. c \in Control
  BY <1>1 DEF Control, PC
<1>3. Placed(c)
  BY <1>1 DEF Placed, Control
<1> QED
  BY <1>2, <1>3, SetRequest DEF NextRow

\* The key of an alert is one.
LEMMA KeyFact == ASSUME RequestsOK, NEW r \in Request, request[r].pc \in {"post", "record"}
                 PROVE  KeyOf(request[r].row) \in Key
BY Parts DEF Placed, KeyOf, Key, Flag

\* A post alerts the key of its row.
LEMMA PostTypes == ASSUME TypeInv, NEW r \in Request, Post(r) PROVE RequestsOK' /\ AlertsOK'
<1>1. request[r] \in Control /\ Placed(request[r]) /\ RequestsOK /\ request[r].pc = "post"
  BY Parts DEF TypeInv, Post, At
<1>2. ASSUME Goto(r, "record") PROVE RequestsOK'
  <2>1. "record" \in PC /\ Placed([request[r] EXCEPT !.pc = "record"])
    BY <1>1 DEF Placed, Control, PC
  <2> QED
    BY <1>1, <1>2, <2>1, GotoFacts
<1>3. KeyOf(request[r].row) \in Key
  BY <1>1, KeyFact
<1>4. AlertsOK'
  BY <1>3 DEF Post, TypeInv, AlertsOK, RestOK
<1> QED
  BY <1>1, <1>2, <1>4, NextRowTypes DEF Post

\* A record is for the key of its row.
LEMMA RecordTypes == ASSUME TypeInv, NEW r \in Request, Record(r) PROVE RequestsOK' /\ AlertsOK'
<1>1. RequestsOK /\ request[r].pc = "record"
  BY DEF TypeInv, Record, At
<1>2. KeyOf(request[r].row) \in Key
  BY <1>1, KeyFact
<1>3. AlertsOK'
  BY <1>2 DEF Record, TypeInv, AlertsOK, RestOK
<1> QED
  BY <1>1, <1>3, NextRowTypes DEF Record

\* A list has at most all connectors left.
LEMMA ListTypes == ASSUME RequestsOK, NEW r \in Request, ListConnectors(r) \/ RecentSyncs(r)
                   PROVE  RequestsOK'
<1> DEFINE c == [request[r] EXCEPT !.pc = "list", !.left = Connectors]
           d == [request[r] EXCEPT !.left = @ - 1]
<1>1. request[r] \in Control /\ Placed(request[r]) /\ request[r].left \in 0 .. Connectors
      /\ Connectors \in Nat
  BY Parts, BoundsFacts
<1>2. c \in Control /\ Placed(c)
  <2>0. "list" \in PC /\ Connectors \in 0 .. Connectors
    BY <1>1 DEF PC
  <2>1. c \in Control
    BY <1>1, <2>0 DEF Control
  <2>2. Placed(c)
    BY <1>1 DEF Placed, Control
  <2> QED
    BY <2>1, <2>2
<1>3. ASSUME request[r].left > 0 PROVE d \in Control /\ Placed(d)
  <2>1. request[r].left - 1 \in 0 .. Connectors
    BY <1>1, <1>3
  <2> QED
    BY <1>1, <2>1 DEF Control, PC, Placed
<1>4. Becomes(r, c) \/ (Becomes(r, d) /\ request[r].left > 0)
  BY DEF ListConnectors, RecentSyncs
<1> QED
  BY <1>2, <1>3, <1>4, SetRequest

\* A sync writes facts, and assessments notice.
LEMMA SyncTypes == ASSUME TypeInv, NEW i \in Identity, Sync(i) PROVE RequestsOK' /\ facts' \in [Identity -> Facts]
<1>1. ASSUME NEW q \in Request, NEW b \in BOOLEAN
      PROVE  [request[q] EXCEPT !.steady = b] \in Control /\ Placed([request[q] EXCEPT !.steady = b])
  <2>1. request[q] \in Control /\ Placed(request[q])
    BY Parts DEF TypeInv
  <2> QED
    BY <2>1 DEF Control, Placed
<1>2. ASSUME NEW q \in Request
      PROVE  request'[q] \in Control /\ Placed(request'[q])
  <2>1. request[q].steady \in BOOLEAN
    BY Parts DEF TypeInv
  <2>2. request'[q] = [request[q] EXCEPT !.steady = request[q].steady /\ request[q].identity # i]
    BY DEF Sync
  <2> QED
    BY <1>1, <2>1, <2>2
<1>3. request' = [q \in Request |-> request'[q]]
  BY DEF Sync
<1>4. RequestsOK'
  BY <1>2, <1>3 DEF RequestsOK
<1> QED
  BY <1>4 DEF Sync, TypeInv, RestOK

\* What an assessment stores has its type.
LEMMA StoreTypes == ASSUME TypeInv, NEW r \in Assess, Assessing(r) PROVE StoreOK'
<1>1. r \in Request /\ RequestsOK /\ request[r].flags \subseteq Rule
  BY Parts DEF TypeInv, Request
<1>2. Assessment(request[r].flags) \in Scores
  BY <1>1 DEF Scores
<1>3. CASE StoreScore(r) \/ StoreHistory(r)
  BY <1>2, <1>3 DEF StoreScore, StoreHistory, TypeInv, StoreOK
<1>4. CASE ClearFlags(r)
  BY <1>4 DEF ClearFlags, TypeInv, StoreOK
<1>5. CASE InsertFlag(r)
  <2>1. PICK flag \in Flag : risk_flags' = risk_flags \cup {flag}
    BY <1>5, InsertFlagTypes
  <2> QED
    BY <1>5, <2>1 DEF InsertFlag, TypeInv, StoreOK
<1>6. CASE ReadScore(r) \/ ReadFlags(r) \/ Check(r) \/ StoreFails(r)
  BY <1>6 DEF ReadScore, ReadFlags, Check, StoreFails, TypeInv, StoreOK, store
<1> QED
  BY <1>3, <1>4, <1>5, <1>6 DEF Assessing

\* Every step of an assessment keeps the types.
LEMMA AssessingTypes == ASSUME TypeInv, NEW r \in Assess, Assessing(r) PROVE TypeInv'
<1>1. r \in Request /\ RequestsOK
  BY DEF TypeInv, Request
<1>2. RequestsOK'
  BY <1>1, ReadScoreTypes, AnswerFacts, CheckTypes, StoreScoreTypes, StoreHistoryTypes,
     ClearFlagsTypes, InsertFlagTypes DEF Assessing, ReadFlags, StoreFails
<1>3. /\ UNCHANGED <<facts, dedupe, held, now, syncs, alerted, unrecorded>>
      /\ Fault \/ Works
  BY DEF Assessing, ReadScore, ReadFlags, Check, StoreScore, StoreHistory, ClearFlags,
         InsertFlag, StoreFails, watching, Works
<1>4. request[r].pc \in {"clear", "insert"} => request[r].identity \in Identity
  BY <1>1, Parts DEF Placed
<1>5. settled' \subseteq Identity /\ fresh' \subseteq settled'
  <2>1. ASSUME NEW last \in BOOLEAN, Settles(r, last), request[r].pc \in {"clear", "insert"}
        PROVE  settled' \subseteq Identity /\ fresh' \subseteq settled'
    BY <1>4, <2>1 DEF Settles, TypeInv, RestOK
  <2>2. CASE ClearFlags(r) \/ InsertFlag(r)
    <3>1. request[r].pc \in {"clear", "insert"} /\ \E last \in BOOLEAN : Settles(r, last)
      BY <2>2 DEF ClearFlags, InsertFlag, At
    <3> QED
      BY <2>1, <3>1
  <2>3. CASE StoreScore(r)
    BY <2>3 DEF StoreScore, TypeInv, RestOK
  <2>4. CASE ReadScore(r) \/ ReadFlags(r) \/ Check(r) \/ StoreHistory(r) \/ StoreFails(r)
    BY <2>4 DEF ReadScore, ReadFlags, Check, StoreHistory, StoreFails, watching, TypeInv, RestOK
  <2> QED
    BY <2>2, <2>3, <2>4 DEF Assessing
<1>6. RestOK'
  BY <1>3, <1>5, FaultFacts DEF TypeInv, RestOK
<1>7. AlertsOK'
  BY <1>3 DEF TypeInv, AlertsOK
<1> QED
  BY <1>2, <1>6, <1>7, StoreTypes DEF TypeInv

\* Steps that leave scores and flags alone.
LEMMA OtherTypes ==
    ASSUME TypeInv, RequestsOK', AlertsOK', UNCHANGED <<store, settled>>,
           facts' \in [Identity -> Facts], held' \subseteq Request, now' \in Time,
           faults' \in 0 .. MaxFaults, syncs' \in 0 .. MaxArrivals, fresh' \subseteq fresh
    PROVE  TypeInv'
BY DEF TypeInv, StoreOK, RestOK, store

\* Every step keeps the types.
LEMMA TypeStep == TypeInv /\ [Next]_vars => TypeInv'
<1> SUFFICES ASSUME TypeInv, [Next]_vars PROVE TypeInv'
  OBVIOUS
<1>1. RequestsOK /\ AlertsOK /\ RestOK /\ Assess \subseteq Request /\ Emit \subseteq Request
      /\ List \subseteq Request
  BY DEF TypeInv, Request
<1>2. ASSUME NEW r \in Assess, NEW i \in Identity, Recompute(r, i) \/ Read(r, i) PROVE TypeInv'
  <2>1. RequestsOK'
    BY <1>1, <1>2, RecomputeTypes, ReadTypes
  <2> QED
    BY <1>1, <1>2, <2>1, OtherTypes DEF Recompute, Read, watching, AlertsOK, RestOK
<1>3. ASSUME NEW r \in Emit, EmitAlerts(r) PROVE TypeInv'
  <2>1. RequestsOK'
    BY <1>1, <1>3, EmitTypes
  <2> QED
    BY <1>1, <1>3, <2>1, OtherTypes DEF EmitAlerts, watching, AlertsOK, RestOK
<1>4. ASSUME NEW r \in List, ListConnectors(r) PROVE TypeInv'
  <2>1. RequestsOK'
    BY <1>1, <1>4, ListTypes
  <2> QED
    BY <1>1, <1>4, <2>1, OtherTypes DEF ListConnectors, watching, AlertsOK, RestOK
<1>5. ASSUME NEW r \in Emit, Emitting(r) PROVE TypeInv'
  <2>1. RequestsOK' /\ AlertsOK'
    <3>1. CASE LookUp(r)
      BY <1>1, <3>1, LookUpTypes DEF LookUp, watching, AlertsOK
    <3> QED
      BY <1>1, <1>5, <3>1, PostTypes, RecordTypes DEF Emitting
  <2>2. /\ UNCHANGED <<facts, store, held, now, syncs, settled, fresh>>
        /\ Fault \/ Works
    BY <1>5 DEF Emitting, LookUp, Post, Record, watching
  <2> QED
    BY <1>1, <2>1, <2>2, FaultFacts, OtherTypes DEF RestOK
<1>6. ASSUME NEW r \in List, RecentSyncs(r) PROVE TypeInv'
  <2>1. RequestsOK'
    BY <1>1, <1>6, ListTypes
  <2> QED
    BY <1>1, <1>6, <2>1, OtherTypes DEF RecentSyncs, watching, AlertsOK, RestOK
<1>7. ASSUME NEW r \in Request, RowsEnd(r) \/ Cancel(r) PROVE TypeInv'
  <2>1. RequestsOK'
    BY <1>1, <1>7, AnswerFacts DEF RowsEnd, Cancel
  <2>2. /\ UNCHANGED <<facts, store, dedupe, now, syncs, watching>>
        /\ held' = held \ {r}
        /\ Fault \/ Works
    BY <1>7 DEF RowsEnd, Cancel, Works
  <2>3. AlertsOK'
    BY <1>1, <2>2 DEF watching, AlertsOK
  <2>4. /\ facts' \in [Identity -> Facts] /\ now' \in Time /\ syncs' \in 0 .. MaxArrivals
        /\ fresh' \subseteq fresh /\ UNCHANGED settled
    BY <1>1, <2>2 DEF watching, RestOK
  <2>6. held' \subseteq Request
    <3>1. held \subseteq Request
      BY <1>1 DEF RestOK
    <3>2. held' = held \ {r}
      BY <2>2
    <3> QED
      BY <3>1, <3>2
  <2>7. UNCHANGED store
    BY <2>2
  <2>5. faults' \in 0 .. MaxFaults
    BY <1>1, <2>2, FaultFacts
  <2> QED
    BY <2>1, <2>3, <2>4, <2>5, <2>6, <2>7, OtherTypes
<1>8. ASSUME NEW i \in Identity, Sync(i) PROVE TypeInv'
  <2>1. RequestsOK' /\ facts' \in [Identity -> Facts]
    BY <1>8, SyncTypes
  <2>2. syncs' \in 0 .. MaxArrivals
    <3>1. syncs \in 0 .. MaxArrivals /\ syncs' = syncs + 1 /\ MoreArrive
      BY <1>1, <1>8 DEF Sync, RestOK
    <3>2. Cardinality({q \in Request : ~At(q, "idle")}) + syncs < MaxArrivals
      BY <3>1 DEF MoreArrive
    <3>3. Cardinality({q \in Request : ~At(q, "idle")}) \in Nat
      BY FS_Subset, FS_CardinalityType, RequestAssumption
    <3> QED
      BY <3>1, <3>2, <3>3, BoundsFacts
  <2> QED
    BY <1>1, <1>8, <2>1, <2>2, OtherTypes DEF Sync, AlertsOK, RestOK
<1>9. CASE Tick
  <2>1. now' \in Time /\ RequestsOK'
    BY <1>1, <1>9, BoundsFacts DEF Tick, RestOK, Time, RequestsOK
  <2> QED
    BY <1>1, <1>9, <2>1, OtherTypes DEF Tick, watching, AlertsOK, RestOK
<1>10. CASE UNCHANGED vars
  <2>1. RequestsOK'
    BY <1>1, <1>10 DEF vars, RequestsOK
  <2> QED
    BY <1>1, <1>10, <2>1, OtherTypes DEF vars, watching, AlertsOK, RestOK
<1> QED
  BY <1>2, <1>3, <1>4, <1>5, <1>6, <1>7, <1>8, <1>9, <1>10, AssessingTypes DEF Next, Serve

\* The types hold throughout.
LEMMA TypeInvariant == Spec => []TypeInv
BY TypeInit, TypeStep, PTL DEF Spec

\* Tables, requests and clocks have their types, and a request has an identity,
\* a query or a row where it uses one.
THEOREM TypesHold == Spec => []TypeOK
<1>1. TypeInv => TypeOK
  BY DEF TypeInv, RequestsOK, StoreOK, AlertsOK, RestOK, TypeOK
<1> QED
  BY <1>1, TypeInvariant, PTL
-----------------------------------------------------------------------------
(* Scores and flags.                                                       *)

Stores == {"history", "clear", "insert"}

\* Each rule is flagged once.
Once(i) == \A f, g \in FlagsOf(i) : f.rule = g.rule => f = g

\* What an assessment that is alone has stored so far.
Stored(r, i) ==
    LET c == request[r]
    IN /\ \A q \in Storing(i) : q = r
       /\ i \notin settled
       /\ risk_scores[i] = Assessment(c.flags)
       /\ c.pc # "history" => history[i] = Assessment(c.flags)
       /\ c.pc = "insert" => /\ c.todo \subseteq c.flags
                             /\ ActiveOf(i) = c.flags \ c.todo
                             /\ Once(i)

Hand(r) == \A i \in Identity :
              request[r].identity = i /\ request[r].pc \in Stores /\ request[r].alone
                 => Stored(r, i)

Quiet(i) == /\ Storing(i) = {}
            /\ risk_scores[i] = Assessment(ActiveOf(i))
            /\ history[i] = risk_scores[i]
            /\ Once(i)

StoreInv == (\A r \in Assess : Hand(r)) /\ (\A i \in settled : Quiet(i))

\* Nothing is stored, and no assessment begins to store.
LEMMA Away ==
    ASSUME StoreInv, UNCHANGED <<store, settled>>,
           \A q \in Assess : request'[q].pc \in Stores =>
              /\ request'[q].pc = request[q].pc /\ request'[q].identity = request[q].identity
              /\ request'[q].flags = request[q].flags /\ request'[q].todo = request[q].todo
              /\ request'[q].alone = request[q].alone
    PROVE  StoreInv'
<1>1. UNCHANGED <<risk_scores, history, risk_flags, settled>>
  BY DEF store
<1>2. ASSUME NEW i
      PROVE  /\ Storing(i)' \subseteq Storing(i) /\ ActiveOf(i)' = ActiveOf(i)
             /\ Once(i)' <=> Once(i)
  BY <1>1 DEF Storing, Stores, ActiveOf, FlagsOf, Once
<1>3. ASSUME NEW r \in Assess PROVE Hand(r)'
  BY <1>1, <1>2 DEF StoreInv, Hand, Stored
<1>4. ASSUME NEW i \in settled PROVE Quiet(i)'
  BY <1>1, <1>2 DEF StoreInv, Quiet
<1> QED
  BY <1>1, <1>3, <1>4 DEF StoreInv

\* A store in progress only touches its own identity, where no other
\* assessment is alone and nothing is settled.
LEMMA Elsewhere ==
    ASSUME StoreInv, settled \subseteq Identity, NEW r \in Assess, NEW i \in Identity,
           request[r].identity = i, request[r].pc \in Stores,
           \A q \in Assess \ {r} : request'[q] = request[q],
           request'[r].pc \in Stores => request'[r].identity = i,
           \A j \in Identity \ {i} : /\ risk_scores'[j] = risk_scores[j]
                                     /\ history'[j] = history[j]
                                     /\ FlagsOf(j)' = FlagsOf(j),
           settled' \subseteq settled \cup {i},
           i \in settled' => Quiet(i)',
           request'[r].pc \in Stores /\ request'[r].alone => Stored(r, i)'
    PROVE  StoreInv'
<1>1. r \in Storing(i) /\ i \notin settled
  BY DEF Storing, Stores, StoreInv, Quiet
<1>2. ASSUME NEW j \in Identity \ {i}
      PROVE  /\ Storing(j)' \subseteq Storing(j) /\ ActiveOf(j)' = ActiveOf(j)
             /\ Once(j)' <=> Once(j)
  BY <1>2 DEF Storing, Stores, ActiveOf, Once
<1>3. ASSUME NEW q \in Assess PROVE Hand(q)'
  <2>1. CASE q = r
    BY <2>1 DEF Hand
  <2>2. CASE q # r
    <3> SUFFICES ASSUME NEW j \in Identity, request[q].identity = j, request[q].pc \in Stores,
                        request[q].alone
                 PROVE  Stored(q, j)'
      BY <2>2 DEF Hand
    <3>1. Stored(q, j)
      BY DEF StoreInv, Hand
    <3>2. j # i
      BY <3>1, <1>1, <2>2 DEF Stored
    <3> QED
      BY <3>1, <3>2, <2>2, <1>2 DEF Stored
  <2> QED
    BY <2>1, <2>2
<1>4. ASSUME NEW j \in settled' PROVE Quiet(j)'
  <2>1. CASE j # i
    <3>1. Quiet(j) /\ j \in Identity \ {i}
      BY <1>4, <2>1 DEF StoreInv
    <3> QED
      BY <3>1, <1>2 DEF Quiet
  <2> QED
    BY <1>4, <2>1
<1> QED
  BY <1>3, <1>4 DEF StoreInv

\* The first statement unsettles the identity and notes who is alone.
LEMMA StoreScoreStep ==
    ASSUME TypeInv, StoreInv, NEW r \in Assess, NEW i \in Identity, request[r].identity = i,
           StoreScore(r)
    PROVE  StoreInv'
<1>1. /\ r \in Request /\ request[r] \in Control /\ request[r].pc = "score" /\ RequestsOK
      /\ Assess \subseteq Request
  BY Parts DEF TypeInv, Request, StoreScore, At
<1>2. /\ risk_scores' = [risk_scores EXCEPT ![i] = Assessment(request[r].flags)]
      /\ risk_scores \in [Identity -> Scores \cup {None}]
      /\ settled' = settled \ {i}
      /\ UNCHANGED <<history, risk_flags>>
  BY DEF StoreScore, TypeInv, StoreOK
<1>3. /\ request'[r].pc = "history" /\ request'[r].identity = i
      /\ request'[r].flags = request[r].flags
      /\ request'[r].alone = (Storing(i) = {})
  <2> DEFINE b == (Storing(i) = {})
  <2>1. request'[r] = [request[r] EXCEPT !.pc = "history", !.alone = b]
    BY <1>1, StoreScoreTypes
  <2> HIDE DEF b
  <2>2. /\ request'[r].pc = "history" /\ request'[r].identity = i
        /\ request'[r].flags = request[r].flags /\ request'[r].alone = b
    BY <1>1, <2>1 DEF Control
  <2> QED
    BY <2>2 DEF b
<1>4. ASSUME NEW q \in Assess \ {r}
      PROVE  /\ request'[q].pc = request[q].pc /\ request'[q].identity = request[q].identity
             /\ request'[q].flags = request[q].flags /\ request'[q].todo = request[q].todo
             /\ request'[q].alone <=> request[q].alone /\ q \notin Storing(i)
  <2>1. request[q] \in Control
    BY <1>1, Parts
  <2>2. request'[q] = [request[q] EXCEPT !.alone = @ /\ q \notin Storing(i)]
    BY <1>1, <1>4, StoreScoreTypes
  <2> QED
    BY <2>1, <2>2 DEF Control
<1>5. \A j : ActiveOf(j)' = ActiveOf(j) /\ (Once(j)' <=> Once(j))
  BY <1>2 DEF ActiveOf, FlagsOf, Once
<1>6. /\ Storing(i)' = Storing(i) \cup {r}
      /\ \A j \in Identity \ {i} : Storing(j)' \subseteq Storing(j)
  BY <1>3, <1>4 DEF Storing
<1>7. ASSUME NEW q \in Assess PROVE Hand(q)'
  <2>1. CASE q = r
    <3> SUFFICES ASSUME request'[r].alone PROVE Stored(r, i)'
      BY <1>3, <2>1 DEF Hand
    <3>1. Storing(i)' = {r}
      BY <1>3, <1>6
    <3> QED
      BY <1>1, <1>2, <1>3, <3>1 DEF Stored
  <2>2. CASE q # r
    <3> SUFFICES ASSUME NEW j \in Identity, request'[q].identity = j, request'[q].pc \in Stores,
                        request'[q].alone
                 PROVE  Stored(q, j)'
      BY DEF Hand
    <3>1. q \notin Storing(i) /\ request[q].alone /\ request[q].identity = j /\ request[q].pc \in Stores
      BY <1>4, <2>2
    <3>2. j # i
      BY <3>1 DEF Storing, Stores
    <3>3. Stored(q, j)
      BY <3>1 DEF StoreInv, Hand
    <3> QED
      BY <1>1, <1>2, <1>4, <1>5, <1>6, <2>2, <3>2, <3>3 DEF Stored
  <2> QED
    BY <2>1, <2>2
<1>8. ASSUME NEW j \in settled' PROVE Quiet(j)'
  <2>1. j \in settled /\ j # i /\ j \in Identity
    BY <1>2, <1>8 DEF TypeInv, RestOK
  <2>2. Quiet(j)
    BY <2>1 DEF StoreInv
  <2> QED
    BY <1>2, <1>5, <1>6, <2>1, <2>2 DEF Quiet
<1> QED
  BY <1>7, <1>8 DEF StoreInv

\* The history row repeats the score.
LEMMA StoreHistoryStep ==
    ASSUME TypeInv, StoreInv, NEW r \in Assess, NEW i \in Identity, request[r].identity = i,
           StoreHistory(r)
    PROVE  StoreInv'
<1>1. /\ r \in Request /\ request[r] \in Control /\ request[r].pc = "history"
      /\ RequestsOK /\ Assess \subseteq Request /\ settled \subseteq Identity
  BY Parts DEF TypeInv, RestOK, Request, StoreHistory, At
<1>2. /\ history' = [history EXCEPT ![i] = Assessment(request[r].flags)]
      /\ history \in [Identity -> Scores \cup {None}]
      /\ UNCHANGED <<risk_scores, risk_flags, settled>>
  BY DEF StoreHistory, TypeInv, StoreOK, watching
<1>3. /\ request'[r].pc = "clear" /\ request'[r].identity = i
      /\ request'[r].flags = request[r].flags /\ request'[r].alone = request[r].alone
      /\ \A q \in Assess \ {r} : request'[q] = request[q]
  BY <1>1, StoreHistoryTypes DEF Control
<1>4. ASSUME request'[r].alone PROVE Stored(r, i)'
  <2>1. Stored(r, i)
    BY <1>1, <1>3, <1>4 DEF StoreInv, Hand, Stores
  <2>2. Storing(i)' \subseteq Storing(i)
    BY <1>1, <1>3 DEF Storing
  <2> QED
    BY <1>1, <1>2, <1>3, <2>1, <2>2 DEF Stored
<1>5. \A j \in Identity \ {i} : FlagsOf(j)' = FlagsOf(j)
  BY <1>2 DEF FlagsOf
<1>6. i \notin settled
  BY <1>1 DEF StoreInv, Quiet, Storing
<1>7. request[r].pc \in Stores
  BY <1>1 DEF Stores
<1>8. \A j \in Identity \ {i} : risk_scores'[j] = risk_scores[j] /\ history'[j] = history[j]
  BY <1>2
<1> QED
  BY <1>1, <1>2, <1>3, <1>4, <1>5, <1>6, <1>7, <1>8, Elsewhere

\* After the clear no flag of the identity is left.
LEMMA ClearFlagsStep ==
    ASSUME TypeInv, StoreInv, NEW r \in Assess, NEW i \in Identity, request[r].identity = i,
           ClearFlags(r)
    PROVE  StoreInv'
<1>1. /\ r \in Request /\ request[r] \in Control /\ request[r].pc = "clear"
      /\ RequestsOK /\ Assess \subseteq Request /\ settled \subseteq Identity
  BY Parts DEF TypeInv, RestOK, Request, ClearFlags, At
<1>2. /\ risk_flags' = {f \in risk_flags : f.identity # i}
      /\ UNCHANGED <<risk_scores, history>>
      /\ settled' = IF request[r].flags = {} /\ request[r].alone THEN settled \cup {i} ELSE settled
  BY DEF ClearFlags, Settles
<1>3. /\ request'[r] = IF request[r].flags = {} THEN Blank("done")
                      ELSE [request[r] EXCEPT !.pc = "insert", !.todo = request[r].flags]
      /\ \A q \in Assess \ {r} : request'[q] = request[q]
  BY <1>1, ClearFlagsTypes
<1>4. /\ FlagsOf(i)' = {} /\ ActiveOf(i)' = {} /\ Once(i)'
      /\ \A j \in Identity \ {i} : FlagsOf(j)' = FlagsOf(j)
  BY <1>2 DEF FlagsOf, ActiveOf, Once
<1>5. request[r].alone => Stored(r, i)
  BY <1>1 DEF StoreInv, Hand, Stores
<1>6. request[r].pc \in Stores /\ i \notin settled
  BY <1>1 DEF Stores, StoreInv, Quiet, Storing
<1>7. CASE request[r].flags = {}
  <2>1. request'[r].pc = "done"
    BY <1>3, <1>7 DEF Blank
  <2>2. ASSUME i \in settled' PROVE Quiet(i)'
    <3>1. Stored(r, i)
      BY <1>2, <1>5, <1>6, <2>2
    <3>2. Storing(i)' = {}
      BY <1>3, <2>1, <3>1 DEF Stored, Storing
    <3> QED
      BY <1>1, <1>2, <1>4, <1>7, <3>1, <3>2 DEF Stored, Quiet
  <2>3. request'[r].pc \notin Stores /\ settled' \subseteq settled \cup {i}
    BY <1>2, <2>1 DEF Stores
  <2> QED
    BY <1>1, <1>2, <1>3, <1>4, <1>6, <2>2, <2>3, Elsewhere
<1>8. CASE request[r].flags # {}
  <2>1. /\ request'[r].pc = "insert" /\ request'[r].identity = i
        /\ request'[r].flags = request[r].flags /\ request'[r].todo = request[r].flags
        /\ request'[r].alone = request[r].alone
    BY <1>1, <1>3, <1>8 DEF Control
  <2>2. settled' = settled
    BY <1>2, <1>8
  <2>3. ASSUME request'[r].alone PROVE Stored(r, i)'
    <3>1. Stored(r, i)
      BY <1>5, <2>1, <2>3
    <3>2. Storing(i)' \subseteq Storing(i)
      BY <1>1, <1>3 DEF Storing
    <3> QED
      BY <1>1, <1>2, <1>4, <2>1, <2>2, <3>1, <3>2 DEF Stored
  <2> QED
    BY <1>1, <1>2, <1>3, <1>4, <1>6, <2>1, <2>2, <2>3, Elsewhere
<1> QED
  BY <1>7, <1>8

\* Each insert adds a flag that was not there.
LEMMA InsertFlagStep ==
    ASSUME TypeInv, StoreInv, NEW r \in Assess, NEW i \in Identity, request[r].identity = i,
           InsertFlag(r)
    PROVE  StoreInv'
<1>1. /\ r \in Request /\ request[r] \in Control /\ request[r].pc = "insert"
      /\ RequestsOK /\ Assess \subseteq Request /\ settled \subseteq Identity
      /\ UNCHANGED <<risk_scores, history>>
  BY Parts DEF TypeInv, RestOK, Request, InsertFlag, At
<1>2. PICK q \in DOMAIN RuleOf :
         LET c == request[r]
             flag == [identity |-> c.identity, rule |-> RuleOf[q], created_at |-> now, by |-> r]
         IN /\ flag \in Flag /\ RuleOf[q] \in c.todo
            /\ risk_flags' = risk_flags \cup {flag}
            /\ request'[r] = IF c.todo = {RuleOf[q]} THEN Blank("done")
                             ELSE [c EXCEPT !.todo = @ \ {RuleOf[q]}]
            /\ Settles(r, c.todo = {RuleOf[q]})
            /\ \A p \in Request \ {r} : request'[p] = request[p]
  BY InsertFlagTypes
<1>3. PICK rule \in Rule : rule = RuleOf[q]
  BY RuleFacts
<1>4. PICK flag \in Flag : /\ flag = [identity |-> i, rule |-> rule, created_at |-> now, by |-> r]
                          /\ risk_flags' = risk_flags \cup {flag}
  BY <1>2, <1>3
<1>5. flag.identity = i /\ flag.rule = rule
  BY <1>4
<1>6. /\ rule \in request[r].todo
      /\ request'[r] = IF request[r].todo = {rule} THEN Blank("done")
                       ELSE [request[r] EXCEPT !.todo = @ \ {rule}]
      /\ settled' = IF request[r].todo = {rule} /\ request[r].alone
                    THEN settled \cup {i} ELSE settled
      /\ \A p \in Assess \ {r} : request'[p] = request[p]
  BY <1>1, <1>2, <1>3 DEF Settles
<1>7. /\ ActiveOf(i)' = ActiveOf(i) \cup {rule}
      /\ rule \notin ActiveOf(i) /\ Once(i) => Once(i)'
      /\ \A j \in Identity \ {i} : FlagsOf(j)' = FlagsOf(j)
  <2>1. FlagsOf(i)' = FlagsOf(i) \cup {flag}
    BY <1>4, <1>5 DEF FlagsOf
  <2>2. ActiveOf(i)' = ActiveOf(i) \cup {rule}
    BY <1>5, <2>1 DEF ActiveOf
  <2>3. ASSUME rule \notin ActiveOf(i), Once(i) PROVE Once(i)'
    BY <1>5, <2>1, <2>3 DEF Once, ActiveOf
  <2>4. \A j \in Identity \ {i} : FlagsOf(j)' = FlagsOf(j)
    BY <1>4, <1>5 DEF FlagsOf
  <2> QED
    BY <2>2, <2>3, <2>4
<1>8. request[r].alone => /\ Stored(r, i) /\ rule \notin ActiveOf(i)
                          /\ Once(i)' /\ rule \in request[r].flags
                          /\ ActiveOf(i)' = request[r].flags \ (request[r].todo \ {rule})
  <2> SUFFICES ASSUME request[r].alone
               PROVE  /\ Stored(r, i) /\ rule \notin ActiveOf(i)
                      /\ Once(i)' /\ rule \in request[r].flags
                      /\ ActiveOf(i)' = request[r].flags \ (request[r].todo \ {rule})
    OBVIOUS
  <2>1. Stored(r, i)
    BY <1>1 DEF StoreInv, Hand, Stores
  <2>2. /\ request[r].todo \subseteq request[r].flags /\ Once(i)
        /\ ActiveOf(i) = request[r].flags \ request[r].todo
    BY <1>1, <2>1 DEF Stored
  <2> QED
    BY <1>6, <1>7, <2>1, <2>2
<1>9. request[r].pc \in Stores /\ i \notin settled
  BY <1>1 DEF Stores, StoreInv, Quiet, Storing
<1>10. CASE request[r].todo = {rule}
  <2>1. request'[r].pc = "done"
    BY <1>6, <1>10 DEF Blank
  <2>2. ASSUME i \in settled' PROVE Quiet(i)'
    <3>1. /\ Stored(r, i) /\ Once(i)' /\ ActiveOf(i)' = request[r].flags
      BY <1>6, <1>8, <1>9, <1>10, <2>2
    <3>2. Storing(i)' = {}
      BY <1>6, <2>1, <3>1 DEF Stored, Storing
    <3> QED
      BY <1>1, <3>1, <3>2 DEF Stored, Quiet
  <2>3. request'[r].pc \notin Stores /\ settled' \subseteq settled \cup {i}
    BY <1>6, <2>1 DEF Stores
  <2> QED
    BY <1>1, <1>6, <1>7, <1>9, <2>2, <2>3, Elsewhere
<1>11. CASE request[r].todo # {rule}
  <2>1. /\ request'[r].pc = "insert" /\ request'[r].identity = i
        /\ request'[r].flags = request[r].flags /\ request'[r].todo = request[r].todo \ {rule}
        /\ request'[r].alone = request[r].alone
    BY <1>1, <1>6, <1>11 DEF Control
  <2>2. settled' = settled
    BY <1>6, <1>11
  <2>3. ASSUME request'[r].alone PROVE Stored(r, i)'
    <3>1. /\ Stored(r, i) /\ Once(i)'
          /\ ActiveOf(i)' = request'[r].flags \ request'[r].todo
          /\ request[r].todo \subseteq request[r].flags
      BY <1>1, <1>8, <2>1, <2>3 DEF Stored
    <3>2. Storing(i)' \subseteq Storing(i)
      BY <1>1, <1>6 DEF Storing
    <3> QED
      BY <1>1, <2>1, <2>2, <3>1, <3>2 DEF Stored
  <2> QED
    BY <1>1, <1>6, <1>7, <1>9, <2>1, <2>2, <2>3, Elsewhere
<1> QED
  BY <1>10, <1>11

\* Other steps do not store.
LEMMA StoreStep == TypeInv /\ StoreInv /\ [Next]_vars => StoreInv'
<1> SUFFICES ASSUME TypeInv, StoreInv, [Next]_vars PROVE StoreInv'
  OBVIOUS
<1>1. /\ RequestsOK /\ Assess \subseteq Request
      /\ \A r \in Emit \cup List, q \in Assess : q # r
  BY RequestAssumption DEF TypeInv, Request
<1>2. ASSUME NEW r \in Request, NEW c, Becomes(r, c), r \in Emit \cup List \/ c.pc \notin Stores,
             UNCHANGED <<store, settled>>
      PROVE  StoreInv'
  <2>1. \A q \in Assess : q # r => request'[q] = request[q]
    BY <1>1, <1>2 DEF Becomes, RequestsOK
  <2>2. r \in Assess => request'[r] = c
    BY <1>1, <1>2 DEF Becomes, RequestsOK
  <2> QED
    BY <1>1, <1>2, <2>1, <2>2, Away
<1>3. ASSUME NEW r \in Request, Answer(r), UNCHANGED <<store, settled>> PROVE StoreInv'
  <2>1. Blank("done").pc \notin Stores
    BY DEF Blank, Stores
  <2> QED
    BY <1>2, <1>3, <2>1 DEF Answer
<1>4. ASSUME NEW r \in Request, NEW i, Compute(r, i), UNCHANGED <<store, settled>> PROVE StoreInv'
  <2>1. [request[r] EXCEPT !.pc = "check", !.identity = i, !.steady = TRUE].pc = "check"
    BY <1>1 DEF RequestsOK, Control
  <2> QED
    BY <1>2, <1>4, <2>1 DEF Compute, Stores
<1>5. ASSUME NEW r \in Assess, NEW i \in Identity, Recompute(r, i) \/ Read(r, i) PROVE StoreInv'
  <2>1. [request[r] EXCEPT !.pc = "read", !.identity = i].pc = "read"
    BY <1>1 DEF RequestsOK, Control
  <2> QED
    BY <1>1, <1>2, <1>4, <1>5, <2>1 DEF Recompute, Read, watching, Stores
<1>6. ASSUME NEW r \in Assess, ReadScore(r) \/ ReadFlags(r) \/ StoreFails(r) PROVE StoreInv'
  <2>1. [request[r] EXCEPT !.pc = "answer"].pc = "answer"
    BY <1>1 DEF RequestsOK, Control
  <2>2. ASSUME Goto(r, "answer"), UNCHANGED <<store, settled>> PROVE StoreInv'
    BY <1>1, <1>2, <2>1, <2>2 DEF Goto, Stores
  <2> QED
    BY <1>1, <1>3, <1>4, <1>6, <2>2 DEF ReadScore, ReadFlags, StoreFails, watching
<1>7. ASSUME NEW r \in Assess, Check(r) PROVE StoreInv'
  <2>1. At(r, "check") /\ UNCHANGED <<store, settled>>
    BY <1>7 DEF Check, watching
  <2>2. request[r].identity \in Identity /\ request[r].query \in Queries
    BY <1>1, <2>1, Parts DEF At, Placed
  <2>3. Answers(request[r].query, facts[request[r].identity]) \subseteq BOOLEAN
    BY <2>2, AnswersFact DEF TypeInv, RestOK
  <2>4. PICK yes \in BOOLEAN, steady \in BOOLEAN : Answered(r, yes, steady)
    BY <1>7, <2>3 DEF Check, FindsNothing
  <2>5. request'[r].pc \in {"check", "score"} /\ \A q \in Assess \ {r} : request'[q] = request[q]
    BY <1>1, <2>1, <2>4, AnsweredFacts
  <2> QED
    BY <2>1, <2>5, Away DEF Stores
<1>8. ASSUME NEW r \in Assess, StoreScore(r) \/ StoreHistory(r) \/ ClearFlags(r) \/ InsertFlag(r)
      PROVE  StoreInv'
  <2>1. request[r].identity \in Identity
    BY <1>1, <1>8, Parts DEF StoreScore, StoreHistory, ClearFlags, InsertFlag, At, Placed
  <2> QED
    BY <1>8, <2>1, StoreScoreStep, StoreHistoryStep, ClearFlagsStep, InsertFlagStep
<1>9. ASSUME NEW r \in Emit \cup List,
             \/ EmitAlerts(r) \/ Emitting(r)
             \/ ListConnectors(r) \/ RecentSyncs(r)
      PROVE  StoreInv'
  <2>1. r \in Request /\ UNCHANGED <<store, settled>>
    BY <1>9 DEF Request, EmitAlerts, Emitting, LookUp, Post, Record, ListConnectors, RecentSyncs,
                watching
  <2>2. \E c : Becomes(r, c)
    BY <1>9 DEF EmitAlerts, Emitting, LookUp, Post, Record, ListConnectors, RecentSyncs, Goto, NextRow
  <2> QED
    BY <1>2, <2>1, <2>2
<1>10. ASSUME NEW r \in Request, RowsEnd(r) \/ Cancel(r) PROVE StoreInv'
  BY <1>3, <1>10 DEF RowsEnd, Cancel, watching
<1>11. ASSUME NEW i \in Identity, Sync(i) PROVE StoreInv'
  <2>1. ASSUME NEW q \in Assess
        PROVE  /\ request'[q].pc = request[q].pc /\ request'[q].identity = request[q].identity
               /\ request'[q].flags = request[q].flags /\ request'[q].todo = request[q].todo
               /\ request'[q].alone = request[q].alone
    <3>1. request[q] \in Control
      BY <1>1 DEF RequestsOK
    <3>2. request'[q] = [request[q] EXCEPT !.steady = @ /\ request[q].identity # i]
      BY <1>1, <1>11 DEF Sync
    <3> QED
      BY <3>1, <3>2 DEF Control
  <2> QED
    BY <1>11, <2>1, Away DEF Sync
<1>12. CASE Tick
  BY <1>12, Away DEF Tick, watching
<1>13. CASE UNCHANGED vars
  BY <1>13, Away DEF vars, watching
<1> QED
  BY <1>5, <1>6, <1>7, <1>8, <1>9, <1>10, <1>11, <1>12, <1>13
     DEF Next, Serve, Assessing

\* What is stored stays in agreement.
LEMMA StoreInvariant == Spec => []StoreInv
<1>1. Init => StoreInv
  <2> SUFFICES ASSUME Init PROVE StoreInv
    OBVIOUS
  <2>1. \A r \in Assess : request[r].pc = "idle"
    BY DEF Init, Blank, Request
  <2> QED
    BY <2>1 DEF Init, StoreInv, Hand, Stores
<1> QED
  BY <1>1, StoreStep, TypeInvariant, PTL DEF Spec

\* Score, history and active flags agree after a recompute that was alone, for
\* any number of recomputes, failures and syncs around it.
THEOREM ScoresMatch == Spec => []ScoreMatchesFlags
<1>1. StoreInv => ScoreMatchesFlags
  BY DEF StoreInv, Quiet, Once, ScoreMatchesFlags
<1> QED
  BY <1>1, StoreInvariant, PTL
-----------------------------------------------------------------------------
(* Flags and facts.                                                        *)

\* For rule q the flags say what its queries may answer, or nothing when what
\* they answer is lost.
Told(flags, q, fact) ==
    /\ q \in {3, 5} =>
          IF RuleOf[q] \in flags
          THEN TRUE \in Answers(q - 1, fact) /\ TRUE \in Answers(q, fact)
          ELSE FALSE \in Answers(q - 1, fact) \/ FALSE \in Answers(q, fact)
    /\ q \in {1, 6} =>
          IF RuleOf[q] \in flags THEN TRUE \in Answers(q, fact) ELSE FALSE \in Answers(q, fact)
    /\ q \in {7, 8, 9} => RuleOf[q] \notin flags

\* What is known when the next query is the given one.
Asked(flags, query, fact) ==
    /\ \A q \in DOMAIN RuleOf : IF q < query THEN Told(flags, q, fact) ELSE RuleOf[q] \notin flags
    /\ query \in {3, 5} => TRUE \in Answers(query - 1, fact)

\* The answer to one query decides its rule, or leads to the second query.
LEMMA Learn ==
    ASSUME NEW flags, NEW query \in Queries, NEW fact, NEW yes \in BOOLEAN,
           yes \in Answers(query, fact), Asked(flags, query, fact)
    PROVE  Asked(IF yes /\ query \in Flagging THEN flags \cup {RuleOf[query]} ELSE flags,
                 IF IsFirstOfTwo(query) /\ ~yes THEN query + 2 ELSE query + 1, fact)
<1> DEFINE f == IF yes /\ query \in Flagging THEN flags \cup {RuleOf[query]} ELSE flags
           n == IF IsFirstOfTwo(query) /\ ~yes THEN query + 2 ELSE query + 1
<1>1. yes = TRUE \/ yes = FALSE
  OBVIOUS
<1>2. ASSUME NEW q \in DOMAIN RuleOf, q # query PROVE RuleOf[q] \in f <=> RuleOf[q] \in flags
  BY <1>2, RuleFacts
<1>3. /\ query \in {1, 2, 3, 4, 5, 6, 7, 8, 9}
      /\ n = IF query \in {2, 4} /\ ~yes THEN query + 2 ELSE query + 1
  BY DEF Queries, IsFirstOfTwo
<1>4. /\ query \in Flagging /\ yes => RuleOf[query] \in f
      /\ query \in DOMAIN RuleOf /\ (query \in Shadowed \/ ~yes) => RuleOf[query] \notin f
  BY RuleFacts DEF Asked
<1> HIDE DEF f, n
\* A rule whose queries were asked before.
<1>5. ASSUME NEW q \in DOMAIN RuleOf, q < query PROVE Told(f, q, fact)
  <2>1. Told(flags, q, fact) /\ q # query
    BY <1>3, <1>5, RuleFacts DEF Asked
  <2> QED
    BY <1>2, <1>5, <2>1 DEF Told
\* The rule that is decided now.
<1>6. ASSUME NEW q \in DOMAIN RuleOf, q >= query, q < n PROVE Told(f, q, fact)
  <2>1. q \in {1, 3, 5, 6, 7, 8, 9}
    BY <1>6, RuleFacts
  <2>2. CASE q = query
    <3>1. q \in {3, 5} => TRUE \in Answers(q - 1, fact)
      BY <2>2 DEF Asked
    <3>2. CASE q \in Flagging
      <4>1. CASE yes = TRUE
        BY <1>4, <1>6, <2>2, <3>1, <3>2, <4>1, RuleFacts DEF Told
      <4>2. CASE yes = FALSE
        BY <1>4, <1>6, <2>2, <3>1, <3>2, <4>2, RuleFacts DEF Told
      <4> QED
        BY <1>1, <4>1, <4>2
    <3>3. CASE q \in Shadowed
      BY <1>4, <2>2, <3>3, RuleFacts DEF Told
    <3>4. q \in Flagging \/ q \in Shadowed
      BY <2>1, RuleFacts
    <3> QED
      BY <3>2, <3>3, <3>4
  <2>3. CASE q # query
    <3>1. yes = FALSE /\ query = q - 1 /\ q \in {3, 5}
      BY <1>1, <1>3, <1>6, <2>1, <2>3
    <3>2. RuleOf[q] \notin f
      BY <1>2, <1>6, <2>1, <2>3, <3>1 DEF Asked
    <3>3. FALSE \in Answers(q - 1, fact)
      BY <3>1
    <3>4. q \notin {1, 6} /\ q \notin {7, 8, 9}
      BY <3>1
    <3> QED
      BY <3>2, <3>3, <3>4 DEF Told
  <2> QED
    BY <2>2, <2>3
<1>7. ASSUME NEW q \in DOMAIN RuleOf, ~(q < n) PROVE RuleOf[q] \notin f
  <2>1. q \in {1, 3, 5, 6, 7, 8, 9}
    BY <1>7, RuleFacts
  <2>2. ~(q < query) /\ q # query
    BY <1>3, <1>7, <2>1
  <2> QED
    BY <1>2, <1>7, <2>2 DEF Asked
<1>8. n \in {3, 5} => TRUE \in Answers(n - 1, fact)
  <2> SUFFICES ASSUME n \in {3, 5} PROVE TRUE \in Answers(n - 1, fact)
    OBVIOUS
  <2>1. n = query + 1 /\ query \in {2, 4} /\ yes = TRUE
    BY <1>1, <1>3
  <2>2. n - 1 = query
    BY <1>3, <2>1
  <2> QED
    BY <2>1, <2>2
<1>9. \A q \in DOMAIN RuleOf : IF q < n THEN Told(f, q, fact) ELSE RuleOf[q] \notin f
  <2> SUFFICES ASSUME NEW q \in DOMAIN RuleOf, q < n PROVE Told(f, q, fact)
    BY <1>7
  <2>1. q < query \/ q >= query
    BY <1>3, RuleFacts
  <2> QED
    BY <1>5, <1>6, <2>1
<1>10. Asked(f, n, fact)
  BY <1>8, <1>9 DEF Asked
<1> QED
  BY <1>10 DEF f, n
Decided == {"score"} \cup Stores

Known(r) ==
    \A i \in Identity :
        request[r].identity = i /\ request[r].steady =>
            /\ request[r].pc = "check" => Asked(request[r].flags, request[r].query, facts[i])
            /\ request[r].pc \in Decided =>
                  \A q \in DOMAIN RuleOf : Told(request[r].flags, q, facts[i])

FreshOK == \A i \in fresh : \A q \in DOMAIN RuleOf : Told(ActiveOf(i), q, facts[i])

FactInv == (\A r \in Assess : Known(r)) /\ FreshOK

\* What a request has found is kept until it is stored.
LEMMA KnownKept ==
    ASSUME UNCHANGED facts, NEW r \in Assess, Known(r),
           request'[r].pc = "check" => /\ request[r].pc = "check" /\ request'[r].query = request[r].query
                                       /\ request'[r].identity = request[r].identity
                                       /\ request'[r].flags = request[r].flags
                                       /\ request'[r].steady = request[r].steady,
           request'[r].pc \in Decided => /\ request[r].pc \in Decided
                                         /\ request'[r].identity = request[r].identity
                                         /\ request'[r].flags = request[r].flags
                                         /\ request'[r].steady = request[r].steady
    PROVE  Known(r)'
BY DEF Known, Decided, Stores

\* Flags that nobody touches go on telling the facts.
LEMMA FreshKept ==
    ASSUME FreshOK, UNCHANGED <<facts, risk_flags>>, fresh' \subseteq fresh PROVE FreshOK'
BY DEF FreshOK, ActiveOf, FlagsOf

\* No assessment is at work.
LEMMA FactAway ==
    ASSUME FactInv, UNCHANGED <<facts, risk_flags, fresh>>,
           \A q \in Assess : request'[q].pc \in {"check"} \cup Decided =>
              /\ request'[q].pc = request[q].pc /\ request'[q].query = request[q].query
              /\ request'[q].identity = request[q].identity
              /\ request'[q].flags = request[q].flags /\ request'[q].steady = request[q].steady
    PROVE  FactInv'
<1>1. ASSUME NEW r \in Assess PROVE Known(r)'
  BY <1>1, KnownKept DEF FactInv
<1> QED
  BY <1>1, FreshKept DEF FactInv

\* An assessment that begins knows nothing, and claims nothing.
LEMMA ComputeKnown ==
    ASSUME TypeInv, FactInv, NEW r \in Assess, NEW i \in Identity, Compute(r, i),
           request[r].pc \in {"idle", "read"}, UNCHANGED <<facts, risk_flags, fresh>>
    PROVE  FactInv'
<1>1. /\ RequestsOK /\ r \in Request /\ request[r].query = 1 /\ request[r].flags = {}
      /\ request[r] \in Control
  BY Parts DEF TypeInv, Request, Placed
<1>2. /\ request'[r] = [request[r] EXCEPT !.pc = "check", !.identity = i, !.steady = TRUE]
      /\ \A q \in Assess \ {r} : request'[q] = request[q]
  <2>1. request[r].query \in Queries /\ Assess \subseteq Request
    BY <1>1 DEF Queries, Request
  <2> QED
    BY <1>1, <2>1, ComputeFacts
<1>3. /\ request'[r].pc = "check" /\ request'[r].identity = i /\ request'[r].query = 1
      /\ request'[r].flags = {}
  BY <1>1, <1>2 DEF Control
<1>4. \A fact : Asked({}, 1, fact)
  BY RuleFacts DEF Asked
<1>5. Known(r)'
  BY <1>3, <1>4 DEF Known, Decided, Stores
<1>6. ASSUME NEW q \in Assess \ {r} PROVE Known(q)'
  BY <1>2, <1>6, KnownKept DEF FactInv
<1> QED
  BY <1>5, <1>6, FreshKept DEF FactInv

\* A query adds what it has learned.
LEMMA CheckKnown == ASSUME TypeInv, FactInv, NEW r \in Assess, Check(r) PROVE FactInv'
<1>1. /\ RequestsOK /\ r \in Request /\ At(r, "check") /\ request[r] \in Control
      /\ request[r].query \in Queries /\ request[r].identity \in Identity
      /\ UNCHANGED <<facts, risk_flags, fresh>> /\ Assess \subseteq Request
  BY Parts DEF TypeInv, Request, Placed, Check, At, store, watching
<1> DEFINE A == Answers(request[r].query, facts[request[r].identity])
<1>2. A \subseteq BOOLEAN
  BY <1>1, AnswersFact DEF TypeInv, RestOK
<1>3. PICK yes \in BOOLEAN, steady \in BOOLEAN : Answered(r, yes, steady) /\ (steady => yes \in A)
  BY <1>2 DEF Check, FindsNothing
<1> DEFINE n == IF IsFirstOfTwo(request[r].query) /\ ~yes THEN request[r].query + 2
                ELSE request[r].query + 1
           f == IF yes /\ request[r].query \in Flagging
                THEN request[r].flags \cup {RuleOf[request[r].query]} ELSE request[r].flags
<1>4. /\ request'[r].identity = request[r].identity
      /\ request'[r].query = n
      /\ request'[r].steady = (request[r].steady /\ steady)
      /\ request'[r].pc = IF n \in Queries THEN "check" ELSE "score"
      /\ request'[r].flags = f
      /\ \A q \in Assess \ {r} : request'[q] = request[q]
  BY <1>1, <1>3, AnsweredFacts
<1>5. ASSUME NEW i \in Identity, request'[r].identity = i, request'[r].steady
      PROVE  Asked(f, n, facts[i])
  <2>1. /\ request[r].identity = i /\ request[r].steady /\ steady
    BY <1>4, <1>5
  <2>2. Asked(request[r].flags, request[r].query, facts[i])
    BY <1>1, <2>1 DEF FactInv, Known, At
  <2>3. yes \in Answers(request[r].query, facts[i])
    BY <1>3, <2>1
  <2> QED
    BY <1>1, <2>2, <2>3, Learn
<1>6. ASSUME n \notin Queries, NEW fact, Asked(f, n, fact)
      PROVE  \A q \in DOMAIN RuleOf : Told(f, q, fact)
  <2>1. request[r].query \in 1 .. 9 /\ n \in {request[r].query + 1, request[r].query + 2}
    BY <1>1 DEF Queries
  <2>2. n > 9
    BY <1>6, <2>1 DEF Queries
  <2> HIDE DEF n, f
  <2> QED
    BY <1>6, <2>1, <2>2, RuleFacts DEF Asked
<1>7. Known(r)'
  <2> SUFFICES ASSUME NEW i \in Identity, request'[r].identity = i, request'[r].steady
               PROVE  /\ request'[r].pc = "check" => Asked(request'[r].flags, request'[r].query, facts'[i])
                      /\ request'[r].pc \in Decided =>
                            \A q \in DOMAIN RuleOf : Told(request'[r].flags, q, facts'[i])
    BY DEF Known
  <2>1. Asked(f, n, facts[i])
    BY <1>5
  <2>2. n \notin Queries => \A q \in DOMAIN RuleOf : Told(f, q, facts[i])
    BY <1>6, <2>1
  <2> HIDE DEF n, f
  <2> QED
    BY <1>1, <1>4, <2>1, <2>2 DEF Decided, Stores
<1>8. ASSUME NEW q \in Assess \ {r} PROVE Known(q)'
  BY <1>1, <1>4, <1>8, KnownKept DEF FactInv
<1> QED
  BY <1>1, <1>7, <1>8, FreshKept DEF FactInv

\* Storing keeps what is known, and the last statement makes it the flags.
LEMMA StoreKnown ==
    ASSUME TypeInv, StoreInv, FactInv, NEW r \in Assess,
           StoreScore(r) \/ StoreHistory(r) \/ ClearFlags(r) \/ InsertFlag(r)
    PROVE  FactInv'
<1>1. RequestsOK /\ Assess \subseteq Request /\ UNCHANGED facts
  BY DEF TypeInv, Request, StoreScore, StoreHistory, ClearFlags, InsertFlag
<1>2. request[r].pc \in Decided /\ request[r].identity \in Identity /\ request[r] \in Control
  BY <1>1, Parts DEF StoreScore, StoreHistory, ClearFlags, InsertFlag, At, Decided, Stores, Placed
<1>3. PICK i \in Identity : request[r].identity = i
  BY <1>2
<1>4. ASSUME NEW q \in Assess PROVE Known(q)'
  <2>1. request[q] \in Control
    BY <1>1, Parts
  <2>2. CASE StoreScore(r)
    <3>1. /\ request'[q].pc \in {request[q].pc, "history"}
          /\ request'[q].pc # request[q].pc => request[q].pc = "score"
          /\ request'[q].query = request[q].query
          /\ request'[q].identity = request[q].identity
          /\ request'[q].flags = request[q].flags /\ request'[q].steady = request[q].steady
      <4>1. CASE q = r
        <5> DEFINE b == (Storing(request[r].identity) = {})
        <5>1. request'[q] = [request[q] EXCEPT !.pc = "history", !.alone = b]
          BY <1>1, <2>2, <4>1, StoreScoreTypes
        <5> HIDE DEF b
        <5>2. request[q].pc = "score"
          BY <2>2, <4>1 DEF StoreScore, At
        <5>3. request'[q].steady = request[q].steady
          BY <2>1, <5>1 DEF Control
        <5> QED
          BY <2>1, <5>1, <5>2, <5>3 DEF Control
      <4>2. CASE q # r
        <5>1. PICK b : request'[q] = [request[q] EXCEPT !.alone = b]
          BY <1>1, <2>2, <4>2, StoreScoreTypes
        <5> QED
          BY <2>1, <5>1 DEF Control
      <4> QED
        BY <4>1, <4>2
    <3> QED
      BY <1>1, <3>1, KnownKept DEF FactInv, Decided, Stores
  <2>3. CASE StoreHistory(r)
    <3>1. q # r => request'[q] = request[q]
      BY <1>1, <2>3, StoreHistoryTypes
    <3>2. q = r => request'[q] = [request[q] EXCEPT !.pc = "clear"]
      BY <1>1, <2>3, StoreHistoryTypes
    <3>3. q = r => /\ request'[q].pc = "clear" /\ request'[q].identity = request[q].identity
                   /\ request'[q].flags = request[q].flags /\ request'[q].steady = request[q].steady
      BY <2>1, <3>2 DEF Control
    <3> QED
      BY <1>1, <1>2, <3>1, <3>3, KnownKept DEF FactInv, Decided, Stores
  <2>4. CASE ClearFlags(r)
    <3>1. q # r => request'[q] = request[q]
      BY <1>1, <2>4, ClearFlagsTypes
    <3>2. q = r => \/ request'[q] = Blank("done")
                   \/ request'[q] = [request[q] EXCEPT !.pc = "insert", !.todo = request[q].flags]
      BY <1>1, <2>4, ClearFlagsTypes
    <3>3. q = r => \/ request'[q].pc = "done"
                   \/ /\ request'[q].pc = "insert" /\ request'[q].identity = request[q].identity
                      /\ request'[q].flags = request[q].flags /\ request'[q].steady = request[q].steady
      <4>1. CASE request'[q] = Blank("done")
        BY <4>1 DEF Blank
      <4>2. CASE request'[q] = [request[q] EXCEPT !.pc = "insert", !.todo = request[q].flags]
        <5>1. request'[q].steady = request[q].steady
          BY <2>1, <4>2 DEF Control
        <5> QED
          BY <2>1, <4>2, <5>1 DEF Control
      <4> QED
        BY <3>2, <4>1, <4>2
    <3> QED
      BY <1>1, <1>2, <3>1, <3>3, KnownKept DEF FactInv, Decided, Stores
  <2>5. CASE InsertFlag(r)
    <3>1. q # r => request'[q] = request[q]
      BY <1>1, <2>5, InsertFlagTypes
    <3>2. q = r => \/ request'[q] = Blank("done")
                   \/ \E todo : request'[q] = [request[q] EXCEPT !.todo = todo]
      BY <1>1, <2>5, InsertFlagTypes
    <3>3. q = r => \/ request'[q].pc = "done"
                   \/ /\ request'[q].pc = request[q].pc /\ request'[q].identity = request[q].identity
                      /\ request'[q].flags = request[q].flags /\ request'[q].steady = request[q].steady
      <4>1. CASE request'[q] = Blank("done")
        BY <4>1 DEF Blank
      <4>2. ASSUME NEW todo, request'[q] = [request[q] EXCEPT !.todo = todo]
            PROVE  /\ request'[q].pc = request[q].pc /\ request'[q].identity = request[q].identity
                   /\ request'[q].flags = request[q].flags
                   /\ request'[q].steady = request[q].steady
        <5>1. request'[q].steady = request[q].steady
          BY <2>1, <4>2 DEF Control
        <5> QED
          BY <2>1, <4>2, <5>1 DEF Control
      <4> QED
        BY <3>2, <4>1, <4>2
    <3>4. q = r => request[q].pc = "insert"
      BY <2>5 DEF InsertFlag, At
    <3> QED
      BY <1>1, <3>1, <3>3, <3>4, KnownKept DEF FactInv, Decided, Stores
  <2> QED
    BY <2>2, <2>3, <2>4, <2>5
<1>5. FreshOK'
  <2>1. CASE StoreScore(r) \/ StoreHistory(r)
    <3>1. UNCHANGED risk_flags /\ fresh' \subseteq fresh
      BY <2>1 DEF StoreScore, StoreHistory, watching
    <3> QED
      BY <1>1, <3>1, FreshKept DEF FactInv
  <2>2. ASSUME NEW f, r \in Storing(i),
               \A j \in Identity \ {i} : ActiveOf(j)' = ActiveOf(j),
               fresh' \subseteq fresh \cup {i},
               i \in fresh' => /\ request[r].steady /\ ActiveOf(i)' = request[r].flags
        PROVE  FreshOK'
    <3>1. i \notin fresh
      BY <2>2 DEF StoreInv, Quiet, TypeInv, RestOK
    <3>2. ASSUME NEW j \in fresh', NEW q \in DOMAIN RuleOf PROVE Told(ActiveOf(j)', q, facts[j])
      <4>1. CASE j = i
        BY <1>2, <1>3, <2>2, <3>2, <4>1 DEF FactInv, Known
      <4>2. CASE j # i
        <5>1. j \in fresh /\ j \in Identity
          BY <2>2, <3>2, <4>2 DEF TypeInv, RestOK
        <5> QED
          BY <2>2, <3>2, <4>2, <5>1 DEF FactInv, FreshOK
      <4> QED
        BY <4>1, <4>2
    <3> QED
      BY <1>1, <3>2 DEF FreshOK
  <2>3. CASE ClearFlags(r)
    <3>1. /\ r \in Storing(i)
          /\ risk_flags' = {f \in risk_flags : f.identity # i}
          /\ fresh' = IF request[r].flags = {} /\ request[r].alone /\ request[r].steady
                      THEN fresh \cup {i} ELSE fresh
      BY <1>3, <2>3 DEF ClearFlags, Settles, At, Storing
    <3>2. ActiveOf(i)' = {} /\ \A j \in Identity \ {i} : ActiveOf(j)' = ActiveOf(j)
      BY <3>1 DEF ActiveOf, FlagsOf
    <3>3. i \notin fresh
      BY <3>1 DEF StoreInv, Quiet, TypeInv, RestOK
    <3> QED
      BY <2>2, <3>1, <3>2, <3>3
  <2>4. CASE InsertFlag(r)
    <3>1. PICK q \in DOMAIN RuleOf :
             /\ RuleOf[q] \in request[r].todo
             /\ risk_flags' = risk_flags \cup
                    {[identity |-> i, rule |-> RuleOf[q], created_at |-> now, by |-> r]}
             /\ fresh' = IF request[r].todo = {RuleOf[q]} /\ request[r].alone /\ request[r].steady
                         THEN fresh \cup {i} ELSE fresh
      BY <1>3, <2>4 DEF InsertFlag, Settles
    <3>2. r \in Storing(i) /\ request[r].pc = "insert"
      BY <1>3, <2>4 DEF InsertFlag, At, Storing
    <3>3. i \notin fresh
      BY <3>2 DEF StoreInv, Quiet, TypeInv, RestOK
    <3>4. PICK flag : /\ flag = [identity |-> i, rule |-> RuleOf[q], created_at |-> now, by |-> r]
                      /\ flag.identity = i /\ flag.rule = RuleOf[q]
                      /\ risk_flags' = risk_flags \cup {flag}
      BY <3>1
    <3>5. /\ ActiveOf(i)' = ActiveOf(i) \cup {RuleOf[q]}
          /\ \A j \in Identity \ {i} : ActiveOf(j)' = ActiveOf(j)
      BY <3>4 DEF ActiveOf, FlagsOf
    <3>6. ASSUME i \in fresh' PROVE request[r].steady /\ ActiveOf(i)' = request[r].flags
      <4>1. request[r].alone /\ request[r].steady /\ request[r].todo = {RuleOf[q]}
        BY <3>1, <3>3, <3>6
      <4>2. Stored(r, i)
        BY <1>3, <3>2, <4>1 DEF StoreInv, Hand, Stores
      <4> QED
        BY <3>2, <3>5, <4>1, <4>2 DEF Stored
    <3> QED
      BY <2>2, <3>1, <3>2, <3>5, <3>6
  <2> QED
    BY <2>1, <2>3, <2>4
<1> QED
  BY <1>4, <1>5 DEF FactInv

\* A sync spoils what assessments of that identity know, and its flags.
LEMMA SyncKnown == ASSUME TypeInv, FactInv, NEW i \in Identity, Sync(i) PROVE FactInv'
<1>1. /\ RequestsOK /\ Assess \subseteq Request /\ facts \in [Identity -> Facts]
      /\ UNCHANGED risk_flags /\ fresh' = fresh \ {i} /\ fresh \subseteq Identity
  BY DEF TypeInv, RestOK, Request, Sync, store
<1>2. \A j \in Identity \ {i} : facts'[j] = facts[j]
  BY <1>1 DEF Sync
<1>3. ASSUME NEW r \in Assess PROVE Known(r)'
  <2>1. request[r] \in Control
    BY <1>1, Parts
  <2> DEFINE b == request[r].steady /\ request[r].identity # i
  <2>2. request'[r] = [request[r] EXCEPT !.steady = b]
    BY <1>1 DEF Sync
  <2> HIDE DEF b
  <2>3. /\ request'[r].pc = request[r].pc /\ request'[r].query = request[r].query
        /\ request'[r].identity = request[r].identity
        /\ request'[r].flags = request[r].flags /\ request'[r].steady = b
    BY <2>1, <2>2 DEF Control
  <2>4. ASSUME NEW j \in Identity, request'[r].identity = j, request'[r].steady
        PROVE  request[r].steady /\ request[r].identity = j /\ facts'[j] = facts[j]
    BY <1>2, <2>3, <2>4 DEF b
  <2> QED
    BY <2>3, <2>4 DEF FactInv, Known
<1>4. FreshOK'
  <2>1. \A j : ActiveOf(j)' = ActiveOf(j)
    BY <1>1 DEF ActiveOf, FlagsOf
  <2>2. ASSUME NEW j \in fresh' PROVE j \in fresh /\ facts'[j] = facts[j]
    BY <1>1, <1>2, <2>2
  <2> QED
    BY <2>1, <2>2 DEF FactInv, FreshOK
<1> QED
  BY <1>3, <1>4 DEF FactInv

\* Each step keeps what requests and flags say in line with the facts.
LEMMA FactStep == TypeInv /\ StoreInv /\ FactInv /\ [Next]_vars => FactInv'
<1> SUFFICES ASSUME TypeInv, StoreInv, FactInv, [Next]_vars PROVE FactInv'
  OBVIOUS
<1>1. /\ RequestsOK /\ Assess \subseteq Request
      /\ \A r \in Emit \cup List, q \in Assess : q # r
  BY RequestAssumption DEF TypeInv, Request
<1> DEFINE Working == {"check"} \cup Decided
<1>2. ASSUME NEW r \in Request, NEW c, Becomes(r, c), r \in Emit \cup List \/ c.pc \notin Working,
             UNCHANGED <<facts, risk_flags, fresh>>
      PROVE  FactInv'
  <2>1. \A q \in Assess : q # r => request'[q] = request[q]
    BY <1>1, <1>2 DEF Becomes, RequestsOK
  <2>2. r \in Assess => request'[r] = c
    BY <1>1, <1>2 DEF Becomes, RequestsOK
  <2> QED
    BY <1>1, <1>2, <2>1, <2>2, FactAway
<1>3. ASSUME NEW r \in Request, Answer(r), UNCHANGED <<facts, risk_flags, fresh>> PROVE FactInv'
  <2>1. Blank("done").pc \notin Working
    BY DEF Blank, Decided, Stores
  <2> QED
    BY <1>2, <1>3, <2>1 DEF Answer
<1>4. ASSUME NEW r \in Assess, NEW i \in Identity, Recompute(r, i) \/ Read(r, i) PROVE FactInv'
  <2>1. [request[r] EXCEPT !.pc = "read", !.identity = i].pc = "read"
    BY <1>1 DEF RequestsOK, Control
  <2>2. request[r].pc = "idle" /\ UNCHANGED <<facts, risk_flags, fresh>>
    BY <1>4 DEF Recompute, Read, Arrives, At, watching, store
  <2> QED
    BY <1>1, <1>2, <1>4, <2>1, <2>2, ComputeKnown DEF Recompute, Read, Decided, Stores
<1>5. ASSUME NEW r \in Assess, ReadScore(r) \/ ReadFlags(r) \/ StoreFails(r) PROVE FactInv'
  <2>1. r \in Request /\ UNCHANGED <<facts, risk_flags, fresh>>
    BY <1>1, <1>5 DEF ReadScore, ReadFlags, StoreFails, watching, store
  <2>2. ASSUME Goto(r, "answer") PROVE FactInv'
    <3>1. [request[r] EXCEPT !.pc = "answer"].pc = "answer"
      BY <1>1 DEF RequestsOK, Control
    <3> QED
      BY <1>2, <2>1, <2>2, <3>1 DEF Goto, Decided, Stores
  <2>3. CASE ReadScore(r)
    <3>1. request[r].pc = "read" /\ request[r].identity \in Identity
      BY <1>1, <2>1, <2>3, Parts DEF ReadScore, At, Placed
    <3> QED
      BY <1>3, <2>1, <2>2, <2>3, <3>1, ComputeKnown DEF ReadScore
  <2>4. CASE ReadFlags(r) \/ StoreFails(r)
    BY <1>3, <2>1, <2>4 DEF ReadFlags, StoreFails
  <2> QED
    BY <1>5, <2>3, <2>4
<1>6. ASSUME NEW r \in Emit \cup List,
             \/ EmitAlerts(r) \/ Emitting(r)
             \/ ListConnectors(r) \/ RecentSyncs(r)
      PROVE  FactInv'
  <2>1. r \in Request /\ UNCHANGED <<facts, risk_flags, fresh>>
    BY <1>6 DEF Request, EmitAlerts, Emitting, LookUp, Post, Record, ListConnectors, RecentSyncs,
                watching, store
  <2>2. \E c : Becomes(r, c)
    BY <1>6 DEF EmitAlerts, Emitting, LookUp, Post, Record, ListConnectors, RecentSyncs, Goto, NextRow
  <2> QED
    BY <1>2, <2>1, <2>2
<1>7. ASSUME NEW r \in Request, RowsEnd(r) \/ Cancel(r) PROVE FactInv'
  BY <1>3, <1>7 DEF RowsEnd, Cancel, watching, store
<1>8. CASE Tick
  BY <1>8, FactAway DEF Tick, watching, store
<1>9. CASE UNCHANGED vars
  BY <1>9, FactAway DEF vars, watching, store
<1> QED
  BY <1>4, <1>5, <1>6, <1>7, <1>8, <1>9, CheckKnown, StoreKnown, SyncKnown
     DEF Next, Serve, Assessing

\* Requests and flags stay in line with the facts.
LEMMA FactInvariant == Spec => []FactInv
<1>1. Init => FactInv
  <2> SUFFICES ASSUME Init PROVE FactInv
    OBVIOUS
  <2>1. \A r \in Assess : request[r].pc = "idle"
    BY DEF Init, Blank, Request
  <2> QED
    BY <2>1 DEF Init, FactInv, Known, FreshOK, Decided, Stores
<1> QED
  BY <1>1, FactStep, TypeInvariant, StoreInvariant, PTL DEF Spec

\* After a recompute that was alone, on facts that stayed, the first four rules
\* are flagged exactly when their queries say so, and the last three never, for
\* any facts and any queries in between (risk_engine.go:64-131).
THEOREM FlagsTell == Spec => []FlagsTellTheFacts
<1>1. ASSUME FactInv PROVE FlagsTellTheFacts
  <2>0. ASSUME NEW i \in fresh, NEW q \in Shadowed PROVE RuleOf[q] \notin ActiveOf(i)
    <3>1. q \in DOMAIN RuleOf /\ q \in {7, 8, 9}
      BY RuleFacts
    <3>2. Told(ActiveOf(i), q, facts[i])
      BY <1>1, <3>1 DEF FactInv, FreshOK
    <3> QED
      BY <3>1, <3>2 DEF Told
  <2> SUFFICES ASSUME NEW i \in fresh, NEW q \in Flagging
               PROVE  LET flagged == RuleOf[q] \in ActiveOf(i) IN
                      IF IsFirstOfTwo(q - 1)
                      THEN IF flagged THEN /\ TRUE \in Answers(q - 1, facts[i])
                                           /\ TRUE \in Answers(q, facts[i])
                           ELSE FALSE \in Answers(q - 1, facts[i]) \/ FALSE \in Answers(q, facts[i])
                      ELSE flagged \in Answers(q, facts[i])
    BY <2>0 DEF FlagsTellTheFacts
  <2>5. q \in DOMAIN RuleOf /\ q \in {1, 3, 5, 6}
    BY RuleFacts
  <2>1. Told(ActiveOf(i), q, facts[i])
    BY <1>1, <2>5 DEF FactInv, FreshOK
  <2>2. IsFirstOfTwo(q - 1) <=> q \in {3, 5}
    BY RuleFacts DEF IsFirstOfTwo
  <2>3. CASE RuleOf[q] \in ActiveOf(i)
    <3>1. (RuleOf[q] \in ActiveOf(i)) = TRUE
      BY <2>3
    <3> QED
      BY <2>1, <2>2, <2>3, <2>5, <3>1 DEF Told
  <2>4. CASE RuleOf[q] \notin ActiveOf(i)
    <3>1. (RuleOf[q] \in ActiveOf(i)) = FALSE
      BY <2>4
    <3> QED
      BY <2>1, <2>2, <2>4, <2>5, <3>1 DEF Told
  <2> QED
    BY <2>3, <2>4
<1> QED
  BY <1>1, FactInvariant, PTL
-----------------------------------------------------------------------------
(* Alerts.                                                                 *)

\* A recorded alert is not later than its record.
Covered(k) == alerted[k] # None => /\ alerted[k] <= now
                                   /\ k \notin unrecorded => dedupe[k] # None /\ alerted[k] <= dedupe[k]

\* What the look-up found before a post is old, and gets older.
Old(r) == request[r].pc = "post" /\ ~request[r].blind /\ request[r].saw # None =>
              now - request[r].saw >= Window

AlertInv == (\A k \in Key : Covered(k)) /\ (\A r \in Request : Old(r))

\* No alert is posted or recorded, and no request looks for one.
LEMMA AlertAway ==
    ASSUME TypeInv, AlertInv, UNCHANGED <<dedupe, alerted, unrecorded>>, now' \in {now, now + 1},
           \A q \in Request : request'[q].pc = "post" =>
              /\ request[q].pc = "post" /\ request'[q].blind = request[q].blind
              /\ request'[q].saw = request[q].saw
    PROVE  AlertInv'
<1>1. now \in Nat /\ \A k \in Key : alerted[k] # None => alerted[k] \in Nat
  BY BoundsFacts DEF TypeInv, RestOK, AlertsOK, Time
<1>2. ASSUME NEW k \in Key PROVE Covered(k)'
  BY <1>1 DEF AlertInv, Covered
<1>3. ASSUME NEW r \in Request PROVE Old(r)'
  <2>1. request[r].saw # None => request[r].saw \in Nat
    BY BoundsFacts DEF TypeInv, RequestsOK, Control, Time
  <2> QED
    BY <1>1, <2>1, BoundsFacts DEF AlertInv, Old
<1> QED
  BY <1>2, <1>3 DEF AlertInv

\* A look-up lets a row pass only when the record is old.
LEMMA LookUpOld == ASSUME TypeInv, AlertInv, NEW r \in Request, LookUp(r) PROVE AlertInv'
<1>1. /\ RequestsOK /\ request[r] \in Control /\ UNCHANGED <<dedupe, alerted, unrecorded, now>>
      /\ request[r].pc = "row"
  BY Parts DEF TypeInv, LookUp, At, watching
<1>2. PICK f \in request[r].rows, blind \in BOOLEAN :
         LET last   == IF blind THEN None ELSE dedupe[KeyOf(f)]
             recent == last # None /\ now - last < Window
         IN Becomes(r, IF recent THEN [request[r] EXCEPT !.rows = @ \ {f}]
                       ELSE [request[r] EXCEPT !.pc = "post", !.rows = @ \ {f},
                                 !.row = f, !.blind = blind, !.saw = last])
  BY DEF LookUp
<1> DEFINE last == IF blind THEN None ELSE dedupe[KeyOf(f)]
           recent == last # None /\ now - last < Window
<1>3. KeyOf(f) \in Key
  BY <1>1, Parts DEF Placed, KeyOf, Key, Flag
<1>4. last # None => last \in Nat
  BY <1>3, BoundsFacts DEF TypeInv, AlertsOK, Time
<1>5. now \in Nat
  BY BoundsFacts DEF TypeInv, RestOK, Time
<1>6. \A q \in Request \ {r} : request'[q] = request[q]
  BY <1>1, <1>2 DEF Becomes, RequestsOK
<1>7. Old(r)'
  <2>1. CASE recent
    <3>1. request'[r].pc = "row"
      BY <1>1, <1>2, <2>1 DEF Becomes, RequestsOK, Control
    <3> QED
      BY <3>1 DEF Old
  <2>2. CASE ~recent
    <3>1. request'[r].saw = last
      BY <1>1, <1>2, <2>2 DEF Becomes, RequestsOK, Control
    <3>2. last # None => now - last >= Window
      BY <1>4, <1>5, <2>2, BoundsFacts
    <3> QED
      BY <1>1, <3>1, <3>2 DEF Old
  <2> QED
    BY <2>1, <2>2
<1>8. ASSUME NEW q \in Request \ {r} PROVE Old(q)'
  BY <1>1, <1>6 DEF AlertInv, Old
<1> QED
  BY <1>1, <1>7, <1>8 DEF AlertInv, Covered

\* The next row is not a post.
LEMMA NextRowFacts == ASSUME RequestsOK, NEW r \in Request, NextRow(r)
                      PROVE  /\ request'[r].pc = "row"
                             /\ \A q \in Request \ {r} : request'[q] = request[q]
BY DEF NextRow, Becomes, RequestsOK, Control

\* A post is without a record.
LEMMA PostCovered == ASSUME TypeInv, AlertInv, NEW r \in Request, Post(r) PROVE AlertInv'
<1> DEFINE k == KeyOf(request[r].row)
<1>1. /\ RequestsOK /\ request[r].pc = "post" /\ UNCHANGED <<dedupe, now>> /\ now \in Nat
      /\ request[r] \in Control
  BY BoundsFacts DEF TypeInv, RequestsOK, Post, At, RestOK, Time
<1>2. k \in Key
  BY <1>1, KeyFact
<1>3. /\ request'[r].pc # "post"
      /\ \A q \in Request \ {r} : request'[q] = request[q]
  <2>1. ASSUME Goto(r, "record")
        PROVE  /\ request'[r].pc = "record"
               /\ \A q \in Request \ {r} : request'[q] = request[q]
    BY <1>1, <2>1 DEF Goto, Becomes, RequestsOK, Control
  <2> QED
    BY <1>1, <2>1, NextRowFacts DEF Post
<1>4. \/ /\ alerted' = [alerted EXCEPT ![k] = now]
         /\ unrecorded' = unrecorded \cup {k}
      \/ UNCHANGED <<alerted, unrecorded>>
  BY DEF Post
<1>5. ASSUME NEW j \in Key PROVE Covered(j)'
  <2> HIDE DEF k
  <2>1. Covered(j) /\ alerted \in [Key -> Time \cup {None}]
    BY DEF AlertInv, TypeInv, AlertsOK
  <2> QED
    BY <1>1, <1>2, <1>4, <2>1, NoneAssumption, BoundsFacts DEF Covered, Time
<1>6. ASSUME NEW q \in Request PROVE Old(q)'
  BY <1>1, <1>3 DEF AlertInv, Old
<1> QED
  BY <1>5, <1>6 DEF AlertInv

\* A record is not earlier than its alert.
LEMMA RecordCovered == ASSUME TypeInv, AlertInv, NEW r \in Request, Record(r) PROVE AlertInv'
<1> DEFINE k == KeyOf(request[r].row)
<1>1. /\ RequestsOK /\ request[r].pc = "record" /\ UNCHANGED <<alerted, now>> /\ now \in Time
      /\ NextRow(r)
  BY DEF TypeInv, RequestsOK, Record, At, RestOK
<1>2. k \in Key
  BY <1>1, KeyFact
<1>3. /\ request'[r].pc # "post"
      /\ \A q \in Request \ {r} : request'[q] = request[q]
  BY <1>1, NextRowFacts
<1>4. \/ /\ dedupe' = [dedupe EXCEPT ![k] = now]
         /\ unrecorded' = unrecorded \ {k}
      \/ UNCHANGED <<dedupe, unrecorded>>
  BY DEF Record
<1>5. ASSUME NEW j \in Key PROVE Covered(j)'
  <2> HIDE DEF k
  <2>1. Covered(j) /\ dedupe \in [Key -> Time \cup {None}]
    BY DEF AlertInv, TypeInv, AlertsOK
  <2> QED
    BY <1>1, <1>2, <1>4, <2>1, NoneAssumption, BoundsFacts DEF Covered, Time
<1>6. ASSUME NEW q \in Request PROVE Old(q)'
  BY <1>1, <1>3 DEF AlertInv, Old
<1> QED
  BY <1>5, <1>6 DEF AlertInv

\* Each step keeps alerts and records in line.
LEMMA AlertStep == TypeInv /\ AlertInv /\ [Next]_vars => AlertInv'
<1> SUFFICES ASSUME TypeInv, AlertInv, [Next]_vars PROVE AlertInv'
  OBVIOUS
<1>1. RequestsOK /\ Assess \subseteq Request
  BY DEF TypeInv, Request
<1>2. ASSUME NEW r \in Request, NEW c, Becomes(r, c), c.pc # "post",
             UNCHANGED <<dedupe, alerted, unrecorded, now>>
      PROVE  AlertInv'
  <2>1. request'[r] = c /\ \A q \in Request : q # r => request'[q] = request[q]
    BY <1>1, <1>2 DEF Becomes, RequestsOK
  <2> QED
    BY <1>2, <2>1, AlertAway
<1>3. ASSUME NEW r \in Request, Answer(r), UNCHANGED <<dedupe, alerted, unrecorded, now>>
      PROVE  AlertInv'
  BY <1>2, <1>3 DEF Answer, Blank
<1>4. ASSUME NEW r \in Request, NEW i, Compute(r, i), UNCHANGED <<dedupe, alerted, unrecorded, now>>
      PROVE  AlertInv'
  <2>1. [request[r] EXCEPT !.pc = "check", !.identity = i, !.steady = TRUE].pc = "check"
    BY <1>1 DEF RequestsOK, Control
  <2> QED
    BY <1>2, <1>4, <2>1 DEF Compute
<1>5. ASSUME NEW r \in Request, NEW p \in PC \ {"post"}, Goto(r, p),
             UNCHANGED <<dedupe, alerted, unrecorded, now>>
      PROVE  AlertInv'
  <2>1. [request[r] EXCEPT !.pc = p].pc = p
    BY <1>1 DEF RequestsOK, Control
  <2> QED
    BY <1>2, <1>5, <2>1 DEF Goto
<1>6. ASSUME NEW r \in Assess, NEW i \in Identity, Recompute(r, i) \/ Read(r, i) PROVE AlertInv'
  <2>1. [request[r] EXCEPT !.pc = "read", !.identity = i].pc = "read"
    BY <1>1 DEF RequestsOK, Control
  <2> QED
    BY <1>1, <1>2, <1>4, <1>6, <2>1 DEF Recompute, Read, watching
<1>7. ASSUME NEW r \in Assess, Assessing(r) PROVE AlertInv'
  <2>1. UNCHANGED <<dedupe, alerted, unrecorded, now>>
    BY <1>7 DEF Assessing, ReadScore, ReadFlags, Check, StoreScore, StoreHistory, ClearFlags,
                InsertFlag, StoreFails, watching
  <2>2. CASE ReadScore(r) \/ ReadFlags(r) \/ StoreFails(r)
    BY <1>1, <1>3, <1>4, <1>5, <2>1, <2>2 DEF ReadScore, ReadFlags, StoreFails, PC
  <2>3. CASE Check(r)
    <3>1. request[r].pc = "check" /\ request[r].identity \in Identity /\ request[r].query \in Queries
      BY <1>1, <2>3, Parts DEF Check, At, Placed
    <3>2. Answers(request[r].query, facts[request[r].identity]) \subseteq BOOLEAN
      BY <3>1, AnswersFact DEF TypeInv, RestOK
    <3>3. PICK yes \in BOOLEAN, steady \in BOOLEAN : Answered(r, yes, steady)
      BY <2>3, <3>2 DEF Check, FindsNothing
    <3>4. request'[r].pc \in {"check", "score"} /\ \A q \in Request \ {r} : request'[q] = request[q]
      BY <1>1, <3>1, <3>3, AnsweredFacts DEF At
    <3> QED
      BY <2>1, <3>4, AlertAway
  <2>4. CASE StoreScore(r)
    <3>1. ASSUME NEW q \in Request, request'[q].pc = "post"
          PROVE  /\ request[q].pc = "post" /\ request'[q].blind = request[q].blind
                 /\ request'[q].saw = request[q].saw
      <4>1. request[q] \in Control
        BY <1>1 DEF RequestsOK
      <4>2. CASE q = r
        <5> DEFINE b == (Storing(request[r].identity) = {})
        <5>1. request'[q] = [request[q] EXCEPT !.pc = "history", !.alone = b]
          BY <1>1, <2>4, <4>2, StoreScoreTypes
        <5> HIDE DEF b
        <5> QED
          BY <3>1, <4>1, <5>1 DEF Control
      <4>3. CASE q # r
        <5>1. PICK b : request'[q] = [request[q] EXCEPT !.alone = b]
          BY <1>1, <2>4, <4>3, StoreScoreTypes
        <5>2. request'[q].blind = request[q].blind
          BY <4>1, <5>1 DEF Control
        <5> QED
          BY <3>1, <4>1, <5>1, <5>2 DEF Control
      <4> QED
        BY <4>2, <4>3
    <3> QED
      BY <2>1, <3>1, AlertAway
  <2>5. CASE StoreHistory(r)
    BY <1>1, <1>5, <2>1, <2>5 DEF StoreHistory, PC
  <2>6. CASE ClearFlags(r)
    <3>1. [request[r] EXCEPT !.pc = "insert", !.todo = request[r].flags].pc = "insert"
      BY <1>1 DEF RequestsOK, Control
    <3> QED
      BY <1>1, <1>2, <1>3, <2>1, <2>6, <3>1 DEF ClearFlags
  <2>7. CASE InsertFlag(r)
    <3>1. request[r] \in Control /\ request[r].pc = "insert"
      BY <1>1, <2>7 DEF RequestsOK, InsertFlag, At
    <3>2. ASSUME NEW q, Becomes(r, [request[r] EXCEPT !.todo = @ \ {RuleOf[q]}]) PROVE AlertInv'
      BY <1>1, <1>2, <2>1, <3>1, <3>2 DEF Control
    <3> QED
      BY <1>1, <1>3, <2>1, <2>7, <3>2 DEF InsertFlag
  <2> QED
    BY <1>7, <2>2, <2>3, <2>4, <2>5, <2>6, <2>7 DEF Assessing
<1>8. ASSUME NEW r \in Emit \cup List, EmitAlerts(r) \/ ListConnectors(r) \/ RecentSyncs(r)
      PROVE  AlertInv'
  <2>1. /\ r \in Request /\ request[r] \in Control
        /\ UNCHANGED <<dedupe, alerted, unrecorded, now>>
    BY <1>1, <1>8 DEF Request, RequestsOK, EmitAlerts, ListConnectors, RecentSyncs, watching
  <2>2. CASE EmitAlerts(r)
    <3> DEFINE c(rows) == [request[r] EXCEPT !.pc = "row", !.rows = rows]
    <3>1. \A rows : c(rows).pc = "row"
      BY <2>1 DEF Control
    <3>2. \E rows : Becomes(r, c(rows))
      BY <2>2 DEF EmitAlerts
    <3> QED
      BY <1>2, <2>1, <3>1, <3>2
  <2>3. CASE ListConnectors(r)
    <3>1. [request[r] EXCEPT !.pc = "list", !.left = Connectors].pc = "list"
      BY <2>1 DEF Control
    <3> QED
      BY <1>2, <2>1, <2>3, <3>1 DEF ListConnectors
  <2>4. CASE RecentSyncs(r)
    <3>1. [request[r] EXCEPT !.left = @ - 1].pc = "list"
      BY <2>1, <2>4 DEF Control, RecentSyncs, At
    <3> QED
      BY <1>2, <2>1, <2>4, <3>1 DEF RecentSyncs
  <2> QED
    BY <1>8, <2>2, <2>3, <2>4
<1>9. ASSUME NEW r \in Request, RowsEnd(r) \/ Cancel(r) PROVE AlertInv'
  BY <1>3, <1>9 DEF RowsEnd, Cancel, watching
<1>10. ASSUME NEW i \in Identity, Sync(i) PROVE AlertInv'
  <2>1. ASSUME NEW q \in Request
        PROVE  /\ request'[q].pc = request[q].pc /\ request'[q].blind = request[q].blind
               /\ request'[q].saw = request[q].saw
    <3>1. request[q] \in Control
      BY <1>1 DEF RequestsOK
    <3>2. request'[q] = [request[q] EXCEPT !.steady = @ /\ request[q].identity # i]
      BY <1>10, <1>1 DEF Sync
    <3> QED
      BY <3>1, <3>2 DEF Control
  <2> QED
    BY <1>10, <2>1, AlertAway DEF Sync
<1>11. CASE Tick
  BY <1>11, AlertAway DEF Tick, watching
<1>12. CASE UNCHANGED vars
  BY <1>12, AlertAway DEF vars, watching
<1> QED
  BY <1>1, <1>6, <1>7, <1>8, <1>9, <1>10, <1>11, <1>12, LookUpOld, PostCovered, RecordCovered
     DEF Next, Serve, Emitting, Request

\* Alerts and records stay in line.
LEMMA AlertInvariant == Spec => []AlertInv
<1>1. Init => AlertInv
  <2> SUFFICES ASSUME Init PROVE AlertInv
    OBVIOUS
  <2>1. /\ \A k \in Key : alerted[k] = None
        /\ \A r \in Request : request[r].pc = "idle"
    BY DEF Init, Blank
  <2> QED
    BY <2>1 DEF AlertInv, Covered, Old
<1> QED
  BY <1>1, AlertStep, TypeInvariant, PTL DEF Spec

\* A key is alerted twice within the window only by a lost record, a failed
\* look-up or a second emission, for any number of emissions, flags and faults.
THEOREM OneAlert == Spec => OneAlertPerWindow
<1> DEFINE Twice == \A r \in Emit :
              LET k == KeyOf(request[r].row) IN
              /\ At(r, "post")
              /\ At(r, "record")'
              /\ alerted[k] # None
              /\ now - alerted[k] < Window
              => \/ k \in unrecorded
                 \/ request[r].blind
                 \/ request[r].saw # dedupe[k]
<1>1. ASSUME TypeInv, AlertInv PROVE Twice
  <2> SUFFICES ASSUME NEW r \in Emit, NEW k, k = KeyOf(request[r].row),
                      At(r, "post"), alerted[k] # None, now - alerted[k] < Window,
                      k \notin unrecorded, ~request[r].blind, request[r].saw = dedupe[k]
               PROVE  FALSE
    OBVIOUS
  <2>1. RequestsOK /\ r \in Request /\ request[r].pc = "post"
    BY <1>1 DEF TypeInv, Request, At
  <2>2. k \in Key
    BY <2>1, KeyFact
  <2>3. dedupe[k] # None /\ alerted[k] <= dedupe[k] /\ now - dedupe[k] >= Window
    BY <1>1, <2>1, <2>2 DEF AlertInv, Covered, Old
  <2>4. alerted[k] \in Nat /\ dedupe[k] \in Nat /\ now \in Nat
    BY <1>1, <2>2, <2>3, BoundsFacts DEF TypeInv, AlertsOK, RestOK, Time
  <2> QED
    BY <2>3, <2>4, BoundsFacts
<1>2. TypeInv /\ AlertInv => Twice
  BY <1>1
<1> HIDE DEF Twice
<1>3. TypeInv /\ AlertInv => [Twice]_vars
  BY <1>2
<1>4. Spec => [][Twice]_vars
  BY <1>3, TypeInvariant, AlertInvariant, PTL
<1> QED
  BY <1>4 DEF Twice, OneAlertPerWindow

=============================================================================
