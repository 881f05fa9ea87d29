--------------------------- MODULE EventPipeline ---------------------------
(***************************************************************************)
(* The webhook handler, the event queue (a Redis stream with a consumer    *)
(* group, or a bounded channel when Redis is not there at start), the one  *)
(* background processor, and the identity_events table.                    *)
(*                                                                         *)
(* A fault is a failing Redis command or SQL statement, a request whose    *)
(* context is cancelled, or a restart of the backend.  The Redis client    *)
(* sends a command again when no answer came (MaxRetries of go-redis, here *)
(* as often as there are faults), though the first may have reached Redis  *)
(* or be on its way.  Which queue is used is decided anew at every start.  *)
(***************************************************************************)
EXTENDS Naturals, Sequences, FiniteSets

CONSTANTS
  Webhooks,      \* webhook requests
  MaxEvents,     \* the largest number of events in a request
  Users,         \* source_user_id values
  QueueCap,      \* capacity of the channel (1000)
  DequeueCount,  \* batch size of the processor (10)
  MaxFaults      \* bound on faults

ASSUME EventPipelineAssumption ==
  /\ MaxEvents \in Nat \ {0} /\ QueueCap \in Nat \ {0} /\ DequeueCount \in Nat \ {0}
  /\ MaxFaults \in Nat
  /\ "none" \notin Users

Deliveries == Webhooks \X (1 .. MaxEvents)
Who        == Users \cup {"none"}

VARIABLES
  webhook,          \* webhook[w]: handler of request w: pc, number of events, next event
  user,             \* user[d]: User target of event d, "none" when it has none
  mode,             \* the queue in use: redis or memory
  group,            \* the consumer group exists in Redis
  late,             \* late[d]: XADDs of event d on their way whose sender is gone
  unanswered,       \* history: events with an XADD that was sent and not answered
  stream,           \* the Redis stream
  lastDelivered,    \* last-delivered-id of the group, as a position in stream
  pel,              \* pending entries list: delivered and not acknowledged
  memq,             \* the channel
  proc,             \* the processor: pc, events in hand, identity found
  identity_events,  \* rows in insertion order: event, stream position (0: channel), identity
  resolved,         \* users with a row in identity_sources
  knew,             \* events whose user was resolved when they arrived
  faults

sends  == <<late, unanswered>>
queues == <<mode, group, late, unanswered, stream, lastDelivered, pel, memq>>
vars == <<webhook, user, mode, group, late, unanswered, stream, lastDelivered, pel,
          memq, proc, identity_events, resolved, knew, faults>>

Entry == [d : Deliveries, id : Nat]
Row   == [d : Deliveries, id : Nat, identity : Who]

TypeOK ==
  /\ webhook \in [Webhooks -> [pc : {"none", "enqueue", "answered", "refused", "dead"},
                               size : 0 .. MaxEvents, next : 1 .. MaxEvents + 1]]
  /\ user \in [Deliveries -> Who]
  /\ mode \in {"redis", "memory"} /\ group \in BOOLEAN
  /\ late \in [Deliveries -> Nat] /\ unanswered \subseteq Deliveries
  /\ stream \in Seq(Deliveries) /\ lastDelivered \in 0 .. Len(stream)
  /\ pel \subseteq 1 .. lastDelivered
  /\ memq \in Seq(Deliveries) /\ Len(memq) <= QueueCap
  /\ proc.pc \in {"poll", "resolve", "insert", "ack"} /\ proc.found \in Who
  /\ proc.batch \in Seq(Entry) /\ Len(proc.batch) <= DequeueCount
  /\ identity_events \in Seq(Row)
  /\ resolved \subseteq Users /\ knew \subseteq Deliveries /\ faults \in Nat

Idle == [pc |-> "poll", batch |-> <<>>, found |-> "none"]

Charge(o) == \/ o = "ok" /\ UNCHANGED faults
             \/ o # "ok" /\ faults < MaxFaults /\ faults' = faults + 1
Outcomes   == {"ok", "error", "lost"}   \* "lost": took effect, reported as an error
Applied(o) == o # "error"

Min2(a, b) == IF a < b THEN a ELSE b

(* NewRedisEventQueue and main choose the channel when the ping fails; a   *)
(* failing creation of the consumer group is ignored.                      *)
Init ==
  /\ webhook = [w \in Webhooks |-> [pc |-> "none", size |-> 0, next |-> 1]]
  /\ user = [d \in Deliveries |-> "none"]
  /\ \/ mode = "redis" /\ group = TRUE /\ faults = 0
     \/ mode = "redis" /\ group = FALSE /\ faults = 1 /\ MaxFaults > 0
     \/ mode = "memory" /\ group = FALSE /\ faults = 0
  /\ late = [d \in Deliveries |-> 0] /\ unanswered = {}
  /\ stream = <<>> /\ lastDelivered = 0 /\ pel = {} /\ memq = <<>>
  /\ proc = Idle
  /\ identity_events = <<>>
  /\ resolved = {} /\ knew = {}

-----------------------------------------------------------------------------
(* HandleOktaWebhook.                                                      *)

\* An array of events.  The second ShouldBindJSON, for a single event, reads
\* the body the first one has consumed: such a request is refused.
Receive(w) ==
  /\ webhook[w].pc = "none"
  /\ \/ \E n \in 1 .. MaxEvents, us \in [1 .. MaxEvents -> Who] :
          /\ webhook' = [webhook EXCEPT ![w] = [pc |-> "enqueue", size |-> n, next |-> 1]]
          /\ \A i \in 1 .. MaxEvents : i > n => us[i] = "none"
          /\ user' = [d \in Deliveries |-> IF d[1] = w THEN us[d[2]] ELSE user[d]]
          /\ knew' = knew \cup {d \in Deliveries : d[1] = w /\ us[d[2]] \in resolved}
     \/ /\ webhook' = [webhook EXCEPT ![w].pc = "refused", ![w].size = 1]
        /\ UNCHANGED <<user, knew>>
  /\ UNCHANGED <<queues, proc, identity_events, resolved, faults>>

Pass(w) == webhook' = [webhook EXCEPT
  ![w].next = @ + 1, ![w].pc = IF webhook[w].next = webhook[w].size THEN "answered" ELSE @]

\* An XADD of d is sent and not answered.
Unanswered(d) == /\ late' = [late EXCEPT ![d] = @ + 1]
                 /\ unanswered' = unanswered \cup {d}

\* RedisEventQueue.Enqueue: XADD.  One that is not answered ("lost") may take
\* effect at any later time, and the client may send it again ("again").  The
\* handler goes on after an error.
EnqueueRedis(w) ==
  \E o \in {"ok", "error", "lost", "again"} :
    /\ mode = "redis" /\ webhook[w].pc = "enqueue"
    /\ stream' = IF o = "ok" THEN Append(stream, <<w, webhook[w].next>>) ELSE stream
    /\ IF o \in {"lost", "again"} THEN Unanswered(<<w, webhook[w].next>>)
       ELSE UNCHANGED sends
    /\ IF o = "again" THEN UNCHANGED webhook ELSE Pass(w)
    /\ Charge(o)
    /\ UNCHANGED <<user, mode, group, lastDelivered, pel, memq, proc, identity_events,
                   resolved, knew>>

\* Redis executes such an XADD, whatever has become of its sender.
Arrive(d) ==
  /\ late[d] > 0
  /\ late' = [late EXCEPT ![d] = @ - 1]
  /\ stream' = Append(stream, d)
  /\ UNCHANGED <<webhook, user, mode, group, unanswered, lastDelivered, pel, memq, proc,
                 identity_events, resolved, knew, faults>>

\* Mutant: the capacity of the channel is off by one.
EnqueueMemoryOverCap(w) ==
  \E o \in {"ok", "error"} :
    /\ mode = "memory" /\ webhook[w].pc = "enqueue"
    /\ memq' = IF o = "ok" /\ Len(memq) <= QueueCap
                 THEN Append(memq, <<w, webhook[w].next>>) ELSE memq
    /\ Pass(w)
    /\ Charge(o)
    /\ UNCHANGED <<user, mode, group, sends, stream, lastDelivered, pel, proc,
                   identity_events, resolved, knew>>

\* InMemoryEventQueue.Enqueue: never blocks; a full channel or a cancelled
\* request is an error, which the handler ignores.
EnqueueMemory(w) ==
  \E o \in {"ok", "error"} :
    /\ mode = "memory" /\ webhook[w].pc = "enqueue"
    /\ memq' = IF o = "ok" /\ Len(memq) < QueueCap
                 THEN Append(memq, <<w, webhook[w].next>>) ELSE memq
    /\ Pass(w)
    /\ Charge(o)
    /\ UNCHANGED <<user, mode, group, sends, stream, lastDelivered, pel, proc,
                   identity_events, resolved, knew>>

-----------------------------------------------------------------------------
(* StartEventProcessor: dequeue a batch, then resolve, insert, acknowledge *)
(* each event of it.                                                       *)

\* Mutant: pending entries are read again ("0" instead of ">").
DequeueRedisPending ==
  LET n == Min2(DequeueCount, Len(stream) - lastDelivered)
      p == CHOOSE q \in pel : \A r \in pel : q <= r
  IN  /\ mode = "redis" /\ group /\ proc.pc = "poll" /\ (n > 0 \/ pel # {})
      /\ lastDelivered' = IF pel = {} THEN lastDelivered + n ELSE lastDelivered
      /\ pel' = pel \cup (lastDelivered + 1 .. lastDelivered')
      /\ proc' = [proc EXCEPT !.pc = "resolve", !.batch =
           IF pel = {} THEN [i \in 1 .. n |-> [d |-> stream[lastDelivered + i],
                                             id |-> lastDelivered + i]]
           ELSE <<[d |-> stream[p], id |-> p]>>]
      /\ UNCHANGED <<webhook, user, mode, group, sends, stream, memq, identity_events,
                     resolved, knew, faults>>

\* XREADGROUP with ">": only entries never delivered to the group.  A reply
\* that gets lost leaves its entries pending.
DequeueRedis ==
  \E o \in {"ok", "lost"} :
    LET n == Min2(DequeueCount, Len(stream) - lastDelivered) IN
      /\ mode = "redis" /\ group /\ proc.pc = "poll" /\ n > 0
      /\ lastDelivered' = lastDelivered + n
      /\ pel' = pel \cup (lastDelivered + 1 .. lastDelivered + n)
      /\ proc' = IF o = "lost" THEN proc
           ELSE [proc EXCEPT !.pc = "resolve", !.batch =
                  [i \in 1 .. n |-> [d |-> stream[lastDelivered + i], id |-> lastDelivered + i]]]
      /\ Charge(o)
      /\ UNCHANGED <<webhook, user, mode, group, sends, stream, memq, identity_events,
                     resolved, knew>>

\* Mutant: the batch is built in reverse.
DequeueMemoryReversed ==
  /\ mode = "memory" /\ proc.pc = "poll"
  /\ memq # <<>> /\ Len(proc.batch) < DequeueCount
  /\ memq' = Tail(memq)
  /\ proc' = [proc EXCEPT !.batch = <<[d |-> Head(memq), id |-> 0]>> \o @]
  /\ UNCHANGED <<webhook, user, mode, group, sends, stream, lastDelivered, pel,
                 identity_events, resolved, knew, faults>>

\* The channel is read one event at a time until the batch is full ...
DequeueMemory ==
  /\ mode = "memory" /\ proc.pc = "poll"
  /\ memq # <<>> /\ Len(proc.batch) < DequeueCount
  /\ memq' = Tail(memq)
  /\ proc' = [proc EXCEPT !.batch = Append(@, [d |-> Head(memq), id |-> 0])]
  /\ UNCHANGED <<webhook, user, mode, group, sends, stream, lastDelivered, pel,
                 identity_events, resolved, knew, faults>>

\* Mutant: no timeout, the batch is returned when it is full.
DequeueReturnsFull ==
  /\ proc.pc = "poll" /\ Len(proc.batch) = DequeueCount
  /\ proc' = [proc EXCEPT !.pc = "resolve"]
  /\ UNCHANGED <<webhook, user, queues, identity_events, resolved, knew, faults>>

\* ... or nothing arrives for 100 ms.
DequeueReturns ==
  /\ proc.pc = "poll" /\ proc.batch # <<>>
  /\ proc' = [proc EXCEPT !.pc = "resolve"]
  /\ UNCHANGED <<webhook, user, queues, identity_events, resolved, knew, faults>>

Current == Head(proc.batch)
Advance == proc' = [pc |-> IF Len(proc.batch) = 1 THEN "poll" ELSE "resolve",
                    batch |-> Tail(proc.batch), found |-> "none"]

\* Mutant: looks up the user of the last event of the batch.
ResolveLast ==
  LET u == user[proc.batch[Len(proc.batch)].d] IN
    /\ proc.pc = "resolve"
    /\ proc' = [proc EXCEPT !.pc = "insert", !.found = IF u \in resolved THEN u ELSE "none"]
    /\ UNCHANGED <<webhook, user, queues, identity_events, resolved, knew, faults>>

\* SELECT identity_id: no row and an error are the same to processEvent.
Resolve ==
  \E o \in {"ok", "error"} :
    /\ proc.pc = "resolve"
    /\ o = "error" => user[Current.d] # "none"
    /\ proc' = [proc EXCEPT !.pc = "insert", !.found =
         IF o = "ok" /\ user[Current.d] \in resolved THEN user[Current.d] ELSE "none"]
    /\ Charge(o)
    /\ UNCHANGED <<webhook, user, queues, identity_events, resolved, knew>>

\* Mutant: acknowledges whatever the INSERT returned.
InsertAckAlways ==
  \E o \in Outcomes :
    /\ proc.pc = "insert"
    /\ identity_events' = IF Applied(o)
         THEN Append(identity_events,
                     [d |-> Current.d, id |-> Current.id, identity |-> proc.found])
         ELSE identity_events
    /\ IF Current.id # 0 THEN proc' = [proc EXCEPT !.pc = "ack"] ELSE Advance
    /\ Charge(o)
    /\ UNCHANGED <<webhook, user, queues, resolved, knew>>

\* INSERT INTO identity_events; only a success is acknowledged, and an event
\* from the channel has nothing to acknowledge.
Insert ==
  \E o \in Outcomes :
    /\ proc.pc = "insert"
    /\ identity_events' = IF Applied(o)
         THEN Append(identity_events,
                     [d |-> Current.d, id |-> Current.id, identity |-> proc.found])
         ELSE identity_events
    /\ IF o = "ok" /\ Current.id # 0
         THEN proc' = [proc EXCEPT !.pc = "ack"] ELSE Advance
    /\ Charge(o)
    /\ UNCHANGED <<webhook, user, queues, resolved, knew>>

Ack ==
  \E o \in Outcomes :
    /\ proc.pc = "ack"
    /\ pel' = IF Applied(o) THEN pel \ {Current.id} ELSE pel
    /\ Advance
    /\ Charge(o)
    /\ UNCHANGED <<webhook, user, mode, group, sends, stream, lastDelivered, memq,
                   identity_events, resolved, knew>>

-----------------------------------------------------------------------------
\* A connector resolves a user (upsertUser): a new row in identity_sources.
SyncUser(u) ==
  /\ u \notin resolved
  /\ resolved' = resolved \cup {u}
  /\ UNCHANGED <<webhook, user, queues, proc, identity_events, knew, faults>>

\* The backend stops and starts again: the channel, the batch and the open
\* requests are gone, the stream, its group and what is on its way are not.
Restart ==
  \E m \in {"redis", "memory"}, created \in BOOLEAN :
    /\ faults < MaxFaults /\ faults' = faults + 1
    /\ mode' = m
    /\ group' = (group \/ (m = "redis" /\ created))
    /\ memq' = <<>>
    /\ proc' = Idle
    /\ webhook' = [w \in Webhooks |-> IF webhook[w].pc = "enqueue"
                     THEN [webhook[w] EXCEPT !.pc = "dead"] ELSE webhook[w]]
    /\ UNCHANGED <<user, sends, stream, lastDelivered, pel, identity_events, resolved, knew>>

Enqueue(w) == EnqueueRedis(w) \/ EnqueueMemory(w)
Process    == DequeueRedis \/ DequeueMemory \/ DequeueReturns \/ Resolve \/ Insert \/ Ack

Next == \/ \E w \in Webhooks : Receive(w) \/ Enqueue(w)
        \/ \E d \in Deliveries : Arrive(d)
        \/ Process
        \/ \E u \in Users : SyncUser(u)
        \/ Restart

(* The handler and the processor goroutine keep running; webhooks, syncs,  *)
(* restarts and late arrivals need not happen.                             *)
Fairness == WF_vars(Process) /\ \A w \in Webhooks : WF_vars(Enqueue(w))

Spec == Init /\ [][Next]_vars /\ Fairness
-----------------------------------------------------------------------------
(* Properties.                                                             *)

Rows == DOMAIN identity_events

Stored(d) == \E i \in Rows : identity_events[i].d = d

Duplicated(d) ==
  \E i, j \in Rows : i # j /\ identity_events[i].d = d /\ identity_events[j].d = d

Received(d) == /\ webhook[d[1]].pc \in {"enqueue", "answered", "dead"}
               /\ d[2] <= webhook[d[1]].size

\* on its way to a queue, in one, or in the processor's hands and not inserted
Queued(d) ==
  \/ late[d] > 0
  \/ \E p \in lastDelivered + 1 .. Len(stream) : stream[p] = d
  \/ \E i \in DOMAIN memq : memq[i] = d
  \/ \E i \in DOMAIN proc.batch : proc.batch[i].d = d /\ (i > 1 \/ proc.pc # "ack")

\* the handler still has to enqueue it
Todo(d) == webhook[d[1]].pc = "enqueue" /\ d[2] >= webhook[d[1]].next

InFlight(d) == Queued(d) \/ Todo(d)

FateOf(d) ==
  IF ~Received(d) THEN "unseen"
  ELSE IF Duplicated(d) THEN "duplicated"
  ELSE IF Stored(d) THEN "stored"
  ELSE IF InFlight(d) THEN "accepted" ELSE "lost"

Abstract == INSTANCE EventDelivery WITH fate <- [d \in Deliveries |-> FateOf(d)]

\* The pipeline, with either queue and through restarts, stores an accepted
\* event once, more than once only if an XADD of it was not answered, and never
\* stores it after losing it.
ImplementsEventDelivery == Abstract!Spec

\* Only entries whose own row has been inserted are acknowledged to Redis, so
\* what a crash interrupted can still be found in the pending entries list.
AckedIsStored ==
  \A p \in 1 .. lastDelivered : p \notin pel =>
    \E i \in Rows : identity_events[i].id = p /\ identity_events[i].d = stream[p]

\* The events of a request are stored in the order of the request, except that
\* one with an XADD that was not answered may come, again, after later ones;
\* and events that went through Redis are stored in the order of the stream.
StoredInOrder ==
  \A i, j \in Rows :
    LET r == identity_events[i]  s == identity_events[j] IN
      i < j => /\ r.d[1] = s.d[1] => r.d[2] < s.d[2] \/ s.d \in unanswered
               /\ r.id # 0 /\ s.id # 0 => r.id < s.id

\* An event is stored under the identity of its own user; one whose user was
\* already resolved when it arrived misses its identity only after a fault.
FreshResolution ==
  \A i \in Rows :
    LET r == identity_events[i] IN
      /\ r.identity \in {"none", user[r.d]}
      /\ r.d \in knew /\ r.identity = "none" => faults > 0

\* What has been enqueued gets stored: unless something fails, the queues and
\* the processor's hands are empty in the end, and every event of an answered
\* request has been stored or was dropped by a full channel.
QueuesDrain ==
  <>[](faults = 0 => \A d \in Deliveries :
         FateOf(d) \in {"unseen", "stored"} \/ (FateOf(d) = "lost" /\ mode = "memory"))

Unresolved(d) ==
  \E i \in Rows :
    /\ identity_events[i].d = d /\ identity_events[i].identity = "none"
    /\ user[d] \in resolved

\* processEvent: "Identity not yet resolved, will be resolved on next sync".
ResolvedOnNextSync ==
  \A d \in Deliveries : Unresolved(d) ~> ~Unresolved(d)
=============================================================================
