------------------------ MODULE EventDeliveryProofs ------------------------
(***************************************************************************)
(* The event pipeline implements EventDelivery: every step of the webhook  *)
(* handler, of the queues and of the processor, and every restart, moves   *)
(* the fates of events as that specification allows, or leaves them.       *)
(***************************************************************************)
EXTENDS EventPipelineProofs

-----------------------------------------------------------------------------
(* What has been sent was received.                                        *)

LEMMA SentIsReceived ==
  ASSUME TypeInv, NEW d \in Deliveries, Sent(d)
  PROVE  /\ Received(d)
         /\ d \notin unanswered => ~Todo(d)
<1> DEFINE x == webhook[d[1]]
<1>1. d[1] \in Webhooks /\ d[2] \in Nat /\ d[2] >= 1 /\ x \in Webhook
  BY DeliveryFacts DEF TypeInv, RequestsOK
<1>2. CASE d \in unanswered
  BY <1>2 DEF TypeInv, LateOK, Tried, Received
<1>3. CASE d \notin unanswered
  <2>1. x.next \in Nat /\ x.size \in Nat /\ d[2] < x.next
    BY <1>1, <1>3, Sizes DEF Webhook, Sent
  <2>2. /\ x.pc \in {"none", "refused"} => x.next = 1
        /\ x.pc \in {"enqueue", "dead"} => x.next <= x.size
        /\ x.pc = "answered" => x.next = x.size + 1
        /\ x.pc \in {"none", "enqueue", "answered", "refused", "dead"}
    BY <1>1 DEF TypeInv, RequestsOK, WebhookOK, Webhook
  <2>3. QED
    BY <1>1, <2>1, <2>2 DEF Received, Todo
<1>4. QED
  BY <1>2, <1>3

LEMMA StoredIsSent ==
  ASSUME TypeInv, OrderInv, NEW d \in Deliveries, Stored(d)
  PROVE  Sent(d)
BY DEF OrderInv, RowOrder, Stored

-----------------------------------------------------------------------------
(* Steps.                                                                  *)

Fate == [d \in Deliveries |-> FateOf(d)]

\* The fate of d changes.
Moves(d) == FateOf(d)' # FateOf(d)

\* Nobody is left without an answer, or the sender of an accepted event is.
Answers ==
  /\ unanswered \subseteq unanswered'
  /\ \A d \in unanswered' : d \notin unanswered => d \in Deliveries /\ FateOf(d) = "accepted"

\* A step of EventDelivery, in terms of FateOf.
LEMMA Moved ==
  ASSUME Answers,
         \/ \A d \in Deliveries : Moves(d) => FateOf(d) = "unseen" /\ FateOf(d)' = "accepted"
         \/ \A d \in Deliveries : Moves(d) => FateOf(d) = "accepted" /\ FateOf(d)' = "lost"
         \/ \E e \in Deliveries : \A d \in Deliveries : Moves(d) =>
              d = e /\ FateOf(d) = "accepted" /\ FateOf(d)' = "stored"
         \/ \E e \in unanswered : \A d \in Deliveries : Moves(d) =>
              d = e /\ FateOf(d) = "stored" /\ FateOf(d)' = "duplicated"
  PROVE  Abstract!Next
<1>1. \A d \in Deliveries : Fate[d] = FateOf(d) /\ Fate'[d] = FateOf(d)'
  BY DEF Fate
<1>2. \A d \in Deliveries : FateOf(d)' \in Abstract!Fates
  BY DEF FateOf, Abstract!Fates
<1>3. Fate' \in [Deliveries -> Abstract!Fates]
  BY <1>2 DEF Fate
<1>4. /\ unanswered \subseteq unanswered'
      /\ \A d \in unanswered' \ unanswered : d \in Deliveries /\ Fate[d] = "accepted"
  BY <1>1 DEF Answers
<1>5. \A d \in Deliveries : Fate'[d] # Fate[d] <=> Moves(d)
  BY <1>1 DEF Moves
<1>6. CASE \A d \in Deliveries : Moves(d) => FateOf(d) = "unseen" /\ FateOf(d)' = "accepted"
  <2>1. Abstract!Accept
    BY <1>1, <1>5, <1>6 DEF Fate, Abstract!Accept, Abstract!Move
  <2>2. QED
    BY <1>3, <1>4, <2>1 DEF Fate, Abstract!Next
<1>7. CASE \A d \in Deliveries : Moves(d) => FateOf(d) = "accepted" /\ FateOf(d)' = "lost"
  <2>1. Abstract!Lose
    BY <1>1, <1>5, <1>7 DEF Fate, Abstract!Lose, Abstract!Move
  <2>2. QED
    BY <1>3, <1>4, <2>1 DEF Fate, Abstract!Next
<1>8. CASE \E e \in Deliveries : \A d \in Deliveries : Moves(d) =>
             d = e /\ FateOf(d) = "accepted" /\ FateOf(d)' = "stored"
  <2>1. Abstract!Store
    BY <1>1, <1>5, <1>8 DEF Fate, Abstract!Store, Abstract!Move, Abstract!Alone
  <2>2. QED
    BY <1>3, <1>4, <2>1 DEF Fate, Abstract!Next
<1>9. CASE \E e \in unanswered : \A d \in Deliveries : Moves(d) =>
             d = e /\ FateOf(d) = "stored" /\ FateOf(d)' = "duplicated"
  <2>1. Abstract!Duplicate
    BY <1>1, <1>5, <1>9 DEF Fate, Abstract!Duplicate, Abstract!Move, Abstract!Alone
  <2>2. QED
    BY <1>3, <1>4, <2>1 DEF Fate, Abstract!Next
<1>10. QED
  BY <1>6, <1>7, <1>8, <1>9

\* A step that leaves the rows leaves what is stored, once or more often.
LEMMA RowsLeft ==
  ASSUME identity_events' = identity_events
  PROVE  \A d : (Stored(d)' <=> Stored(d)) /\ (Duplicated(d)' <=> Duplicated(d))
BY DEF Stored, Duplicated, Rows

\* A step that adds no row and puts nothing in flight loses events at most.
LEMMA Losing ==
  ASSUME Answers, identity_events' = identity_events,
         \A d \in Deliveries : /\ Received(d)' <=> Received(d)
                               /\ InFlight(d)' => InFlight(d)
  PROVE  Abstract!Next
<1>1. \A d \in Deliveries : Moves(d) => FateOf(d) = "accepted" /\ FateOf(d)' = "lost"
  BY RowsLeft DEF FateOf, Moves
<1>2. QED
  BY <1>1, Moved

\* Steps other than an XADD leave nobody without an answer.
LEMMA Answered == ASSUME unanswered' = unanswered PROVE Answers
BY DEF Answers

LEMMA ReceiveAccepts ==
  ASSUME TypeInv, OrderInv, NEW w \in Webhooks, Receive(w)
  PROVE  Abstract!Next
<1>1. /\ webhook[w].pc = "none" /\ webhook[w].next = 1
      /\ UNCHANGED <<late, unanswered, stream, lastDelivered, memq, proc, identity_events>>
  BY DEF Receive, TypeInv, RequestsOK, WebhookOK, queues
<1>2. /\ \/ webhook'[w].pc = "refused"
         \/ webhook'[w].pc = "enqueue" /\ webhook'[w].next = 1
      /\ \A v \in Webhooks : v # w => webhook'[v] = webhook[v]
  BY DEF Receive, TypeInv, RequestsOK, Webhook
<1>3. \A d \in Deliveries : /\ Stored(d)' <=> Stored(d)
                            /\ Duplicated(d)' <=> Duplicated(d)
                            /\ Queued(d)' <=> Queued(d)
  BY <1>1, RowsLeft DEF Queued
<1>4. ASSUME NEW d \in Deliveries, Moves(d)
      PROVE  FateOf(d) = "unseen" /\ FateOf(d)' = "accepted"
  <2>1. d[1] \in Webhooks /\ d[2] \in Nat /\ d[2] >= 1
    BY DeliveryFacts
  <2>2. CASE d[1] # w
    <3>1. webhook'[d[1]] = webhook[d[1]]
      BY <1>2, <2>1, <2>2
    <3>2. (Received(d)' <=> Received(d)) /\ (Todo(d)' <=> Todo(d))
      BY <3>1 DEF Received, Todo
    <3>3. QED
      BY <1>3, <1>4, <3>2 DEF FateOf, InFlight, Moves
  <2>3. CASE d[1] = w
    <3>1. ~Received(d) /\ ~Sent(d)
      BY <1>1, <2>1, <2>3, NoneSent DEF Received
    <3>2. ~Stored(d) /\ ~Duplicated(d)
      BY <3>1, StoredIsSent DEF Stored, Duplicated
    <3>3. Received(d)' => Todo(d)'
      BY <1>2, <2>1, <2>3 DEF Received, Todo
    <3>4. QED
      BY <1>3, <1>4, <3>1, <3>2, <3>3 DEF FateOf, InFlight, Moves
  <2>4. QED
    BY <2>2, <2>3
<1>5. QED
  BY <1>1, <1>4, Moved, Answered

\* A refused XADD, a full channel or a cancelled request loses the event; an
\* XADD that is not answered leaves its sender without an answer.
LEMMA EnqueueLoses ==
  ASSUME TypeInv, OrderInv, [Next]_vars, NEW w \in Webhooks, Enqueue(w)
  PROVE  Abstract!Next
<1>e. PICK e \in Deliveries : e = <<w, webhook[w].next>>
  BY EnqueueTypes
<1>1. /\ webhook[w].pc = "enqueue" /\ (Pass(w) \/ UNCHANGED webhook)
      /\ UNCHANGED <<lastDelivered, proc, identity_events>>
      /\ UNCHANGED late \/ Unanswered(e)
  BY <1>e DEF Enqueue, EnqueueRedis, EnqueueMemory, sends
<1>2. /\ stream' = stream \/ stream' = Append(stream, e)
      /\ memq' = memq \/ memq' = Append(memq, e)
  BY <1>e DEF Enqueue, EnqueueRedis, EnqueueMemory
<1>p. Pass(w) =>
      /\ webhook'[w].next = webhook[w].next + 1 /\ webhook'[w].size = webhook[w].size
      /\ webhook'[w].pc = IF webhook[w].next = webhook[w].size THEN "answered" ELSE "enqueue"
      /\ \A v \in Webhooks : v # w => webhook'[v] = webhook[v]
  BY <1>1, PassOK DEF TypeInv
<1>3. /\ webhook'[w].next \in {webhook[w].next, webhook[w].next + 1}
      /\ webhook'[w].size = webhook[w].size
      /\ webhook'[w].pc \in {"answered", "enqueue"}
      /\ \A v \in Webhooks : v # w => webhook'[v] = webhook[v]
  <2>1. CASE Pass(w)
    BY <1>p, <2>1
  <2>2. CASE UNCHANGED webhook
    BY <1>1, <2>2
  <2>3. QED
    BY <1>1, <2>1, <2>2
<1>4. Todo(e) /\ Received(e)
  <2>1. webhook[w].next <= webhook[w].size /\ webhook[w].next \in Nat
    BY <1>1, Sizes DEF TypeInv, RequestsOK, WebhookOK, Webhook
  <2>2. e[1] = w /\ e[2] = webhook[w].next
    BY <1>e
  <2>3. QED
    BY <1>1, <2>1, <2>2 DEF Todo, Received
<1>a. Answers
  <2>1. e \notin unanswered => FateOf(e) = "accepted"
    <3>1. e \notin unanswered => ~Stored(e)
      BY <1>4, StoredIsSent, SentIsReceived
    <3>2. Duplicated(e) => Stored(e)
      BY DEF Duplicated, Stored
    <3>3. QED
      BY <1>4, <3>1, <3>2 DEF FateOf, InFlight
  <2>2. unanswered' = unanswered \/ unanswered' = unanswered \cup {e}
    BY <1>e DEF Enqueue, EnqueueRedis, EnqueueMemory, Unanswered, sends
  <2>3. QED
    BY <2>1, <2>2 DEF Answers
<1>b. \A d \in Deliveries : late'[d] > 0 => late[d] > 0 \/ d = e
  BY <1>1 DEF Unanswered, TypeInv, LateOK
<1>5. \A p \in DOMAIN stream' : stream'[p] = e \/ (p \in DOMAIN stream /\ stream'[p] = stream[p])
  <2>1. CASE stream' = stream
    BY <2>1
  <2>2. CASE stream' = Append(stream, e)
    <3>1. stream \in Seq(Deliveries)
      BY DEF TypeInv, QueuesOK
    <3>2. /\ Len(stream) \in Nat /\ DOMAIN stream = 1 .. Len(stream)
          /\ DOMAIN stream' = 1 .. Len(stream) + 1
          /\ \A p \in DOMAIN stream : stream'[p] = stream[p]
          /\ stream'[Len(stream) + 1] = e
      BY <2>2, <3>1, Grown
    <3>3. QED
      BY <3>2
  <2>3. QED
    BY <1>2, <2>1, <2>2
<1>6. \A p \in DOMAIN memq' : memq'[p] = e \/ (p \in DOMAIN memq /\ memq'[p] = memq[p])
  <2>1. CASE memq' = memq
    BY <2>1
  <2>2. CASE memq' = Append(memq, e)
    <3>1. memq \in Seq(Deliveries)
      BY DEF TypeInv, QueuesOK
    <3>2. /\ Len(memq) \in Nat /\ DOMAIN memq = 1 .. Len(memq)
          /\ DOMAIN memq' = 1 .. Len(memq) + 1
          /\ \A p \in DOMAIN memq : memq'[p] = memq[p]
          /\ memq'[Len(memq) + 1] = e
      BY <2>2, <3>1, Grown
    <3>3. QED
      BY <3>2
  <2>3. QED
    BY <1>2, <2>1, <2>2
<1>7. /\ DOMAIN stream = 1 .. Len(stream) /\ Len(stream) \in Nat /\ lastDelivered \in Nat
      /\ DOMAIN stream' = 1 .. Len(stream') /\ Len(stream') \in Nat
  BY EnqueueTypes, Elements, Things DEF TypeInv, QueuesOK
<1>8. ASSUME NEW d \in Deliveries
      PROVE  /\ Received(d)' <=> Received(d)
             /\ InFlight(d)' => InFlight(d)
  <2>1. d[1] \in Webhooks /\ d[2] \in Nat /\ webhook[w].next \in Nat
    BY DeliveryFacts, Sizes DEF TypeInv, RequestsOK, Webhook
  <2>2. Received(d)' <=> Received(d)
    BY <1>1, <1>3, <2>1 DEF Received
  <2>3. Todo(d)' => Todo(d)
    BY <1>1, <1>3, <2>1 DEF Todo
  <2>4. Queued(d)' => Queued(d) \/ d = e
    <3>1. ASSUME NEW p \in lastDelivered + 1 .. Len(stream'), stream'[p] = d, d # e
          PROVE  p \in lastDelivered + 1 .. Len(stream) /\ stream[p] = d
      BY <1>5, <1>7, <3>1
    <3>2. QED
      BY <1>1, <1>6, <1>b, <3>1 DEF Queued
  <2>5. QED
    BY <1>4, <2>2, <2>3, <2>4 DEF InFlight
<1>9. QED
  BY <1>1, <1>8, <1>a, Losing

\* An XADD that arrives late leaves every fate as it is: the event was in flight
\* with it, and still is.
LEMMA ArriveLeaves ==
  ASSUME TypeInv, NEW e \in Deliveries, Arrive(e)
  PROVE  Abstract!Next
<1>1. /\ Len(stream) \in Nat /\ Len(stream') = Len(stream) + 1
      /\ DOMAIN stream = 1 .. Len(stream)
      /\ \A p \in DOMAIN stream : stream'[p] = stream[p]
      /\ stream'[Len(stream) + 1] = e
      /\ UNCHANGED <<webhook, unanswered, lastDelivered, memq, proc, identity_events>>
  BY ArriveFacts
<1>2. late[e] > 0 /\ \A d \in Deliveries : d # e => late'[d] = late[d]
  BY DEF Arrive, TypeInv, LateOK
<1>3. ASSUME NEW d \in Deliveries, Queued(d)' PROVE Queued(d)
  <2>1. CASE d = e
    BY <1>2, <2>1 DEF Queued
  <2>2. ASSUME d # e, NEW p \in lastDelivered + 1 .. Len(stream'), stream'[p] = d PROVE Queued(d)
    <3>1. p \in lastDelivered + 1 .. Len(stream) /\ stream[p] = d
      BY <1>1, <2>2, Things
    <3>2. QED
      BY <3>1 DEF Queued
  <2>3. QED
    BY <1>1, <1>2, <1>3, <2>1, <2>2 DEF Queued
<1>4. \A d \in Deliveries : /\ Received(d)' <=> Received(d)
                            /\ InFlight(d)' => InFlight(d)
  BY <1>1, <1>3 DEF InFlight, Todo, Received
<1>5. QED
  BY <1>1, <1>4, Losing, Answered

\* A lost reply to XREADGROUP loses the entries that were delivered with it.
LEMMA DequeueLoses ==
  ASSUME TypeInv, OrderInv, DequeueRedis
  PROVE  Abstract!Next
<1>1. PICK n \in 1 .. DequeueCount, o \in {"ok", "lost"} :
         /\ lastDelivered + n <= Len(stream) /\ lastDelivered' = lastDelivered + n
         /\ mode = "redis" /\ proc.pc = "poll"
         /\ proc' = IF o = "lost" THEN proc
                      ELSE [pc |-> "resolve", batch |-> Taken(n), found |-> proc.found]
         /\ UNCHANGED <<webhook, late, unanswered, stream, memq, identity_events>>
  BY DequeueRedisFacts DEF sends
<1>2. n \in Nat /\ lastDelivered \in Nat /\ Len(stream) \in Nat
  BY Sizes, Things
<1>3. Batch = {}
  BY <1>1, Blank DEF OrderInv, BatchOrder, Batch
<1>4. \A i \in Batch' : i \in 1 .. n /\ proc'.batch[i].d = stream[lastDelivered + i]
  <2>1. CASE o = "lost"
    BY <1>1, <1>3, <2>1 DEF Batch
  <2>2. CASE o # "lost"
    BY <1>1, <1>2, <2>2, TakenFacts DEF Batch, TypeInv
  <2>3. QED
    BY <2>1, <2>2
<1>5. ASSUME NEW d \in Deliveries, Queued(d)' PROVE Queued(d)
  <2>1. ASSUME NEW p \in lastDelivered' + 1 .. Len(stream'), stream'[p] = d PROVE Queued(d)
    BY <1>1, <1>2, <2>1 DEF Queued
  <2>2. ASSUME NEW i \in DOMAIN memq', memq'[i] = d PROVE Queued(d)
    BY <1>1, <2>2 DEF Queued
  <2>3. ASSUME NEW i \in Batch', proc'.batch[i].d = d PROVE Queued(d)
    <3>1. lastDelivered + i \in lastDelivered + 1 .. Len(stream) /\ stream[lastDelivered + i] = d
      BY <1>1, <1>2, <1>4, <2>3
    <3>2. QED
      BY <3>1 DEF Queued
  <2>4. QED
    BY <1>1, <1>5, <2>1, <2>2, <2>3 DEF Queued, Batch
<1>6. \A d \in Deliveries : /\ Received(d)' <=> Received(d)
                            /\ InFlight(d)' => InFlight(d)
  BY <1>1, <1>5 DEF InFlight, Todo, Received
<1>7. QED
  BY <1>1, <1>6, Losing, Answered

\* Reading the channel, ending a batch, looking up an identity, acknowledging
\* and resolving a user leave every fate as it is.
LEMMA OthersLeave ==
  ASSUME TypeInv, OrderInv,
         DequeueMemory \/ DequeueReturns \/ Resolve \/ Ack \/ \E u \in Users : SyncUser(u)
  PROVE  Abstract!Next
<1>1. UNCHANGED <<webhook, late, unanswered, stream, lastDelivered, identity_events>>
  BY DEF DequeueMemory, DequeueReturns, Resolve, Ack, SyncUser, queues, sends
<1>2. ASSUME \A d \in Deliveries : Queued(d)' => Queued(d) PROVE Abstract!Next
  <2>1. \A d \in Deliveries : /\ Received(d)' <=> Received(d)
                              /\ InFlight(d)' => InFlight(d)
    BY <1>1, <1>2 DEF InFlight, Todo, Received
  <2>2. QED
    BY <1>1, <2>1, Losing, Answered
<1>3. CASE DequeueReturns \/ Resolve \/ \E u \in Users : SyncUser(u)
  <2>1. proc'.batch = proc.batch /\ memq' = memq
    BY <1>3 DEF DequeueReturns, Resolve, SyncUser, queues, TypeInv, BatchOK, ProcOK
  <2>2. proc.pc = "ack" => proc'.pc = "ack"
    BY <1>3 DEF DequeueReturns, Resolve, SyncUser
  <2>3. \A d \in Deliveries : Queued(d)' => Queued(d)
    BY <1>1, <2>1, <2>2 DEF Queued
  <2>4. QED
    BY <1>2, <2>3
<1>4. CASE DequeueMemory
  <2>1. /\ proc.pc = "poll" /\ memq # <<>> /\ memq' = Tail(memq)
        /\ proc' = [proc EXCEPT !.batch = Append(@, [d |-> Head(memq), id |-> 0])]
    BY <1>4 DEF DequeueMemory
  <2>2. /\ Head(memq) = memq[1] /\ memq[1] \in Deliveries /\ 1 \in DOMAIN memq
        /\ \A p \in DOMAIN memq' : p + 1 \in DOMAIN memq /\ memq'[p] = memq[p + 1]
    BY <2>1, Dropped DEF TypeInv, QueuesOK
  <2>3. PICK e \in Entry : e = [d |-> Head(memq), id |-> 0]
    BY <2>2 DEF Entry
  <2>4. proc.batch \in Seq(Entry) /\ proc'.batch = Append(proc.batch, e)
    BY <2>1, <2>3 DEF TypeInv, BatchOK, ProcOK
  <2>5. /\ Len(proc.batch) \in Nat /\ Batch = 1 .. Len(proc.batch)
        /\ Batch' = 1 .. Len(proc.batch) + 1
        /\ \A i \in Batch : proc'.batch[i] = proc.batch[i]
        /\ proc'.batch[Len(proc.batch) + 1] = e
    BY <2>4, Grown DEF Batch
  <2>6. \A i \in Batch' : (i \in Batch /\ proc'.batch[i] = proc.batch[i])
                          \/ proc'.batch[i].d = memq[1]
    BY <2>2, <2>3, <2>5
  <2>7. \A d \in Deliveries : Queued(d)' => Queued(d)
    BY <1>1, <2>1, <2>2, <2>6 DEF Queued, Batch
  <2>8. QED
    BY <1>2, <2>7
<1>5. CASE Ack
  <2>1. proc.pc = "ack" /\ Advance /\ memq' = memq
    BY <1>5 DEF Ack
  <2>2. \A j \in Batch' : j + 1 \in Batch /\ j + 1 > 1 /\ proc'.batch[j] = proc.batch[j + 1]
    BY <2>1, AdvanceFacts
  <2>3. \A d \in Deliveries : Queued(d)' => Queued(d)
    BY <1>1, <2>1, <2>2 DEF Queued, Batch
  <2>4. QED
    BY <1>2, <2>3
<1>6. QED
  BY <1>3, <1>4, <1>5

\* An INSERT that takes effect stores the event in hand, and only that, once
\* more if an XADD of it was not answered; one that fails may lose it.
LEMMA InsertStores ==
  ASSUME TypeInv, OrderInv, Insert
  PROVE  Abstract!Next
<1>1. PICK o \in Outcomes, s \in {0, 1} :
        /\ proc.pc = "insert" /\ proc.batch # <<>>
        /\ UNCHANGED <<webhook, queues>>
        /\ o = "error" => identity_events' = identity_events
        /\ o # "error" => \E r \in Row :
             /\ r = [d |-> Current.d, id |-> Current.id, identity |-> proc.found]
             /\ identity_events' = Append(identity_events, r)
        /\ s = 0 => proc'.pc = "ack" /\ proc'.batch = proc.batch
        /\ s = 1 => Advance
        /\ \A j \in Batch' : /\ j + s \in Batch /\ proc'.batch[j] = proc.batch[j + s]
                             /\ Pending(j)' => j + s > 1
  BY InsertFacts
<1>2. UNCHANGED <<webhook, late, unanswered, stream, lastDelivered, memq>>
  BY <1>1 DEF queues
<1>3. \A d \in Deliveries : (Received(d)' <=> Received(d)) /\ (Todo(d)' <=> Todo(d))
  BY <1>2 DEF Received, Todo
<1>4. \A d \in Deliveries : Queued(d)' => Queued(d)
  BY <1>1, <1>2 DEF Queued, Batch, Pending
<1>5. CASE o = "error"
  <2>1. \A d \in Deliveries : /\ Received(d)' <=> Received(d)
                              /\ InFlight(d)' => InFlight(d)
    BY <1>3, <1>4 DEF InFlight
  <2>2. QED
    BY <1>1, <1>2, <1>5, <2>1, Losing, Answered
<1>6. CASE o # "error"
  <2>1. PICK r \in Row : r.d = Current.d /\ identity_events' = Append(identity_events, r)
    BY <1>1, <1>6
  <2>2. PICK n \in Nat : /\ Rows = 1 .. n /\ Rows' = 1 .. n + 1
                         /\ \A i \in Rows : identity_events'[i] = identity_events[i]
                         /\ identity_events'[n + 1] = r
    BY <2>1, RowAdded
  <2>3. PICK e \in Deliveries : e = Current.d
    BY <1>1, InHand
  <2>4. Current = proc.batch[1] /\ 1 \in Batch /\ e = proc.batch[1].d
    BY <1>1, <2>3, InHand
  <2>5. Stored(e)' /\ \A d \in Deliveries : d # e => (Stored(d)' <=> Stored(d))
    <3>1. \A i \in Rows' : (i \in Rows /\ identity_events'[i] = identity_events[i])
                            \/ identity_events'[i].d = e
      <4> SUFFICES ASSUME NEW i \in Rows', i \notin Rows PROVE identity_events'[i].d = e
        BY <2>2
      <4>1. i = n + 1
        BY <2>2
      <4>2. QED
        BY <2>1, <2>2, <2>3, <4>1
    <3>2. n + 1 \in Rows' /\ identity_events'[n + 1].d = e
      BY <2>1, <2>2, <2>3
    <3>3. \A i \in Rows : i \in Rows' /\ identity_events'[i] = identity_events[i]
      BY <2>2
    <3>4. Stored(e)'
      BY <3>2 DEF Stored
    <3>5. \A d \in Deliveries : d # e => (Stored(d)' <=> Stored(d))
      BY <3>1, <3>3 DEF Stored
    <3>6. QED
      BY <3>4, <3>5
  <2>d. /\ Duplicated(e)' <=> Stored(e)
        /\ \A d \in Deliveries : d # e => (Duplicated(d)' <=> Duplicated(d))
        /\ Duplicated(e) => Stored(e)
    <3>a. \A i \in Rows : i \in Rows' /\ i # n + 1
      BY <2>2
    <3>b. n + 1 \in Rows' /\ \A i \in Rows' : i \in Rows \/ i = n + 1
      BY <2>2
    <3>c. identity_events'[n + 1].d = e
      BY <2>1, <2>2, <2>3
    <3>1. /\ \A i \in Rows : i \in Rows' /\ identity_events'[i] = identity_events[i] /\ i # n + 1
          /\ n + 1 \in Rows' /\ identity_events'[n + 1].d = e
          /\ \A i \in Rows' : i \in Rows \/ i = n + 1
      BY <2>2, <3>a, <3>b, <3>c
    <3>2. Duplicated(e)' <=> Stored(e)
      BY <3>1 DEF Stored, Duplicated
    <3>3. \A d \in Deliveries : d # e => (Duplicated(d)' <=> Duplicated(d))
      BY <3>1 DEF Duplicated
    <3>4. QED
      BY <3>2, <3>3 DEF Stored, Duplicated
  <2>6. Received(e) /\ Queued(e) /\ (Stored(e) => e \in unanswered)
    <3>1. Sent(e)
      BY <2>4 DEF OrderInv, BatchOrder
    <3>2. Queued(e)
      BY <1>1, <2>4 DEF Queued, Batch
    <3>3. Stored(e) => e \in unanswered
      <4> SUFFICES ASSUME NEW i \in Rows, identity_events[i].d = e PROVE e \in unanswered
        BY DEF Stored
      <4>1. Before(e, e)
        BY <1>1, <2>4 DEF OrderInv, RowOrder, Pending
      <4>2. QED
        BY <4>1, DeliveryFacts DEF Before
    <3>4. QED
      BY <3>1, <3>2, <3>3, SentIsReceived
  <2>7. \A d \in Deliveries : d # e /\ Queued(d) => Queued(d)'
    <3> SUFFICES ASSUME NEW d \in Deliveries, d # e, Queued(d) PROVE Queued(d)'
      OBVIOUS
    <3>1. ASSUME NEW i \in Batch, proc.batch[i].d = d PROVE Queued(d)'
      <4>1. i # 1 /\ i > 1
        BY <2>4, <3>1, Things
      <4>2. CASE s = 0
        BY <1>1, <3>1, <4>1, <4>2 DEF Queued, Batch
      <4>3. CASE s = 1
        <5>1. i - 1 \in Batch' /\ proc'.batch[i - 1] = proc.batch[i] /\ proc'.pc # "ack"
          BY <1>1, <4>1, <4>3, AdvanceFacts
        <5>2. QED
          BY <3>1, <5>1 DEF Queued, Batch
      <4>4. QED
        BY <4>2, <4>3
    <3>2. QED
      BY <1>2, <3>1 DEF Queued, Batch
  <2>8. \A d \in Deliveries : d # e => ~Moves(d)
    BY <1>3, <1>4, <2>5, <2>d, <2>7 DEF FateOf, InFlight, Moves
  <2>9. CASE ~Stored(e)
    <3>1. FateOf(e) = "accepted" /\ FateOf(e)' = "stored"
      BY <1>3, <2>5, <2>d, <2>6, <2>9 DEF FateOf, InFlight
    <3>2. QED
      BY <1>2, <2>8, <3>1, Moved, Answered
  <2>10. CASE Stored(e)
    <3>1. FateOf(e) \in {"stored", "duplicated"} /\ FateOf(e)' = "duplicated"
      BY <1>3, <2>d, <2>6, <2>10 DEF FateOf
    <3>2. \A d \in Deliveries : Moves(d) =>
            d = e /\ FateOf(d) = "stored" /\ FateOf(d)' = "duplicated"
      BY <2>8, <3>1 DEF Moves
    <3>3. QED
      BY <1>2, <2>6, <2>10, <3>2, Moved, Answered
  <2>11. QED
    BY <2>9, <2>10
<1>7. QED
  BY <1>5, <1>6

\* A restart loses what is in the channel, in the processor's hands and in the
\* requests that are being served.
LEMMA RestartLoses ==
  ASSUME TypeInv, OrderInv, Restart
  PROVE  Abstract!Next
<1>1. /\ DOMAIN memq' = {} /\ DOMAIN proc'.batch = {}
      /\ UNCHANGED <<late, unanswered, stream, lastDelivered, identity_events>>
  BY Blank DEF Restart, Idle, sends
<1>2. ASSUME NEW d \in Deliveries
      PROVE  /\ Received(d)' <=> Received(d)
             /\ InFlight(d)' => InFlight(d)
  <2>1. d[1] \in Webhooks /\ webhook[d[1]] \in Webhook
    BY DeliveryFacts DEF TypeInv, RequestsOK
  <2>2. webhook'[d[1]] = IF webhook[d[1]].pc = "enqueue"
                           THEN [webhook[d[1]] EXCEPT !.pc = "dead"] ELSE webhook[d[1]]
    BY <2>1, RestartTypes
  <2>3. /\ webhook'[d[1]].size = webhook[d[1]].size
        /\ webhook'[d[1]].pc = IF webhook[d[1]].pc = "enqueue" THEN "dead" ELSE webhook[d[1]].pc
    BY <2>1, <2>2 DEF Webhook
  <2>4. Queued(d)' => Queued(d)
    BY <1>1 DEF Queued
  <2>5. QED
    BY <2>3, <2>4 DEF InFlight, Todo, Received
<1>3. QED
  BY <1>1, <1>2, Losing, Answered

LEMMA StepDelivers == TypeInv /\ OrderInv /\ [Next]_vars => Abstract!Next
<1> SUFFICES ASSUME TypeInv, OrderInv, [Next]_vars PROVE Abstract!Next
  OBVIOUS
<1>1. CASE UNCHANGED vars
  <2>1. \A d \in Deliveries : /\ Received(d)' <=> Received(d)
                              /\ InFlight(d)' => InFlight(d)
    BY <1>1 DEF vars, Received, InFlight, Todo, Queued
  <2>2. QED
    BY <1>1, <2>1, Losing, Answered DEF vars
<1>2. QED
  BY <1>1, ReceiveAccepts, EnqueueLoses, ArriveLeaves, DequeueLoses, OthersLeave, InsertStores,
    RestartLoses
  DEF Next, Process

LEMMA InitDelivers == Init => Abstract!Init
<1> SUFFICES ASSUME Init PROVE unanswered = {} /\ \A d \in Deliveries : FateOf(d) = "unseen"
  BY DEF Abstract!Init
<1>1. \A d \in Deliveries : ~Received(d)
  BY DeliveryFacts DEF Init, Received
<1>2. QED
  BY <1>1 DEF FateOf, Init

\* The pipeline, with either queue, through lost replies, XADDs that are sent
\* again or arrive late, and restarts: an event is stored after it was accepted
\* and never after it was lost, and stored again only if an XADD of it was not
\* answered (webhook_handlers.go, event_queue.go).
THEOREM PipelineDelivers == Spec => ImplementsEventDelivery
<1>1. Init => Abstract!Init
  BY InitDelivers
<1>2. TypeInv /\ OrderInv /\ [Next]_vars => [Abstract!Next]_<<Fate, unanswered>>
  BY StepDelivers
<1>3. QED
  BY <1>1, <1>2, TypeInvariant, OrderInvariant, PTL
  DEF Spec, ImplementsEventDelivery, Abstract!Spec, Fate

=============================================================================
