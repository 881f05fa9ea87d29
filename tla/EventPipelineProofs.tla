------------------------ MODULE EventPipelineProofs ------------------------
(***************************************************************************)
(* Safety of the event pipeline for any number of requests, events, faults *)
(* and restarts, and any capacity and batch size.                          *)
(***************************************************************************)
EXTENDS EventPipeline, SequenceTheorems, TLAPS

-----------------------------------------------------------------------------
(* Sequences and deliveries.                                               *)

LEMMA Appended ==
  ASSUME NEW S, NEW s \in Seq(S), NEW e \in S
  PROVE  /\ Append(s, e) \in Seq(S)
         /\ Len(s) \in Nat /\ DOMAIN s = 1 .. Len(s)
         /\ Len(Append(s, e)) = Len(s) + 1 /\ DOMAIN Append(s, e) = 1 .. Len(s) + 1
         /\ \A i \in DOMAIN s : Append(s, e)[i] = s[i] /\ s[i] \in S
         /\ Append(s, e)[Len(s) + 1] = e
BY AppendProperties, LenProperties, ElementOfSeq

LEMMA Grown ==
  ASSUME NEW S, NEW s \in Seq(S), NEW e \in S, NEW t, t = Append(s, e)
  PROVE  /\ t \in Seq(S) /\ Len(s) \in Nat /\ DOMAIN s = 1 .. Len(s)
         /\ Len(t) = Len(s) + 1 /\ DOMAIN t = 1 .. Len(s) + 1
         /\ \A i \in DOMAIN s : t[i] = s[i] /\ s[i] \in S
         /\ t[Len(s) + 1] = e
BY Appended

LEMMA Dropped ==
  ASSUME NEW S, NEW s \in Seq(S), s # <<>>
  PROVE  /\ Tail(s) \in Seq(S) /\ Head(s) = s[1] /\ s[1] \in S
         /\ Len(s) \in Nat \ {0} /\ DOMAIN s = 1 .. Len(s)
         /\ Len(Tail(s)) = Len(s) - 1 /\ DOMAIN Tail(s) = 1 .. Len(s) - 1
         /\ \A i \in DOMAIN Tail(s) : i + 1 \in DOMAIN s /\ Tail(s)[i] = s[i + 1]
<1>1. Len(s) \in Nat \ {0} /\ DOMAIN s = 1 .. Len(s)
  BY EmptySeq, LenProperties
<1>2. Tail(s) \in Seq(S) /\ Len(Tail(s)) = Len(s) - 1
  BY HeadTailProperties
<1>3. DOMAIN Tail(s) = 1 .. Len(s) - 1
  BY <1>2, LenProperties
<1>4. Head(s) = s[1]
  OBVIOUS
<1>5. s[1] \in S
  BY <1>1, ElementOfSeq
<1>6. \A i \in DOMAIN Tail(s) : i + 1 \in DOMAIN s /\ Tail(s)[i] = s[i + 1]
  BY <1>1, <1>2, <1>3, HeadTailProperties
<1>7. QED
  BY <1>1, <1>2, <1>3, <1>4, <1>5, <1>6

LEMMA Elements ==
  ASSUME NEW S, NEW s \in Seq(S)
  PROVE  /\ Len(s) \in Nat /\ DOMAIN s = 1 .. Len(s)
         /\ \A i \in DOMAIN s : s[i] \in S
BY LenProperties, ElementOfSeq

LEMMA Empty == ASSUME NEW S PROVE <<>> \in Seq(S) /\ Len(<<>>) = 0 /\ DOMAIN <<>> = {}
<1>1. <<>> \in Seq(S) /\ Len(<<>>) = 0
  BY EmptySeq
<1>2. DOMAIN <<>> = 1 .. Len(<<>>)
  BY <1>1, LenProperties
<1>3. QED
  BY <1>1, <1>2

LEMMA Blank == /\ <<>> \in Seq(Deliveries) /\ <<>> \in Seq(Entry) /\ <<>> \in Seq(Row)
               /\ Len(<<>>) = 0 /\ DOMAIN <<>> = {}
BY Empty

LEMMA NonEmpty == ASSUME NEW S, NEW s \in Seq(S) PROVE s # <<>> <=> Len(s) # 0
<1>1. CASE s # <<>>
  BY <1>1, EmptySeq
<1>2. CASE s = <<>>
  BY <1>2, EmptySeq
<1>3. QED
  BY <1>1, <1>2

LEMMA DeliveryFacts ==
  ASSUME NEW d \in Deliveries
  PROVE  /\ d[1] \in Webhooks /\ d[2] \in Nat /\ d[2] >= 1 /\ d[2] <= MaxEvents
         /\ d = <<d[1], d[2]>>
BY EventPipelineAssumption DEF Deliveries

LEMMA Sizes == /\ MaxEvents \in Nat \ {0} /\ QueueCap \in Nat \ {0}
               /\ DequeueCount \in Nat \ {0} /\ MaxFaults \in Nat
BY EventPipelineAssumption

-----------------------------------------------------------------------------
(* Types.                                                                  *)

\* The processor has a batch in hand unless it waits for one.
ProcOK == /\ proc \in [pc : {"poll", "resolve", "insert", "ack"}, batch : Seq(Entry),
                       found : Who]
          /\ proc.pc # "poll" => proc.batch # <<>>

\* How far a request has come.
WebhookOK ==
  \A w \in Webhooks :
    /\ webhook[w].pc \in {"none", "refused"} => webhook[w].next = 1
    /\ webhook[w].pc \in {"enqueue", "dead"} => webhook[w].next <= webhook[w].size
    /\ webhook[w].pc = "answered" => webhook[w].next = webhook[w].size + 1

QueuesOK == /\ mode \in {"redis", "memory"} /\ group \in BOOLEAN
            /\ stream \in Seq(Deliveries) /\ lastDelivered \in 0 .. Len(stream)
            /\ pel \subseteq 1 .. lastDelivered
            /\ memq \in Seq(Deliveries) /\ Len(memq) <= QueueCap

Webhook == [pc : {"none", "enqueue", "answered", "refused", "dead"},
            size : 0 .. MaxEvents, next : 1 .. MaxEvents + 1]

RequestsOK == webhook \in [Webhooks -> Webhook] /\ WebhookOK

BatchOK == ProcOK /\ Len(proc.batch) <= DequeueCount

RestOK == /\ user \in [Deliveries -> Who] /\ identity_events \in Seq(Row)
          /\ resolved \subseteq Users /\ knew \subseteq Deliveries /\ faults \in Nat

\* The handler has come to d, at least.
Tried(d) == /\ webhook[d[1]].pc \in {"enqueue", "answered", "dead"}
            /\ d[2] <= webhook[d[1]].size /\ d[2] <= webhook[d[1]].next

\* Only XADDs that were sent and not answered are on their way.
LateOK == /\ late \in [Deliveries -> Nat] /\ unanswered \subseteq Deliveries
          /\ \A d \in Deliveries : late[d] > 0 => d \in unanswered
          /\ \A d \in unanswered : Tried(d)

TypeInv == QueuesOK /\ RequestsOK /\ BatchOK /\ RestOK /\ LateOK

LEMMA TypesOf == TypeInv => TypeOK
BY DEF TypeInv, TypeOK, QueuesOK, RequestsOK, Webhook, BatchOK, ProcOK, RestOK, LateOK

LEMMA TypeInit == Init => TypeInv
<1> SUFFICES ASSUME Init PROVE TypeInv
  OBVIOUS
<1> USE Sizes DEF Init
<1>1. QueuesOK
  <2>1. stream \in Seq(Deliveries) /\ memq \in Seq(Deliveries)
    BY Blank
  <2>2. Len(stream) = 0 /\ Len(memq) = 0
    BY Blank
  <2>3. mode \in {"redis", "memory"} /\ group \in BOOLEAN /\ lastDelivered = 0 /\ pel = {}
    OBVIOUS
  <2>4. QED
    BY <2>1, <2>2, <2>3 DEF QueuesOK
<1>2. RequestsOK
  BY DEF RequestsOK, Webhook, WebhookOK
<1>3. BatchOK
  BY Blank DEF BatchOK, ProcOK, Idle, Who
<1>4. RestOK
  BY Blank DEF RestOK, Who
<1>5. LateOK
  BY DEF LateOK
<1>6. QED
  BY <1>1, <1>2, <1>3, <1>4, <1>5 DEF TypeInv

\* Nothing is sent, and the handlers only go on.
LEMMA LateKept ==
  ASSUME LateOK, UNCHANGED sends, \A d \in Deliveries : Tried(d) => Tried(d)'
  PROVE  LateOK'
BY DEF LateOK, sends

\* Nothing is sent, and the handlers stay where they are.
LEMMA LateSame ==
  ASSUME LateOK, UNCHANGED sends, UNCHANGED webhook
  PROVE  LateOK'
BY LateKept DEF Tried

LEMMA Charged == ASSUME faults \in Nat, NEW o, Charge(o) PROVE faults' \in Nat
BY DEF Charge

LEMMA PassOK ==
  ASSUME RequestsOK, NEW w \in Webhooks, webhook[w].pc = "enqueue", Pass(w)
  PROVE  /\ RequestsOK'
         /\ webhook'[w].next = webhook[w].next + 1 /\ webhook'[w].size = webhook[w].size
         /\ webhook'[w].pc = IF webhook[w].next = webhook[w].size THEN "answered" ELSE "enqueue"
         /\ \A v \in Webhooks : v # w => webhook'[v] = webhook[v]
<1> DEFINE x == webhook[w]
           y == [pc |-> IF x.next = x.size THEN "answered" ELSE "enqueue",
                 size |-> x.size, next |-> x.next + 1]
<1>1. x \in Webhook /\ x.next <= x.size
  BY DEF RequestsOK, WebhookOK
<1>2. y \in Webhook
  BY <1>1, Sizes DEF Webhook
<1>3. webhook'[w] = y
  BY <1>1 DEF Pass, RequestsOK, Webhook
<1>4. \A v \in Webhooks : v # w => webhook'[v] = webhook[v]
  BY DEF Pass, RequestsOK
<1>5. webhook' \in [Webhooks -> Webhook]
  BY <1>2, <1>3, <1>4 DEF Pass, RequestsOK
<1>6. WebhookOK'
  BY <1>1, <1>3, <1>4, Sizes DEF RequestsOK, WebhookOK, Webhook
<1>7. QED
  BY <1>3, <1>4, <1>5, <1>6 DEF RequestsOK

LEMMA ReceiveTypes ==
  ASSUME TypeInv, NEW w \in Webhooks, Receive(w)
  PROVE  TypeInv'
<1> USE Sizes DEF TypeInv
<1>1. QueuesOK' /\ BatchOK' /\ UNCHANGED sends
  BY DEF Receive, queues, sends, QueuesOK, BatchOK, ProcOK
<1>l. LateOK'
  <2>1. ASSUME NEW d \in Deliveries, Tried(d) PROVE Tried(d)'
    <3>1. d[1] \in Webhooks /\ d[1] # w
      BY <2>1, DeliveryFacts DEF Tried, Receive
    <3>2. webhook'[d[1]] = webhook[d[1]]
      BY <3>1 DEF Receive, RequestsOK
    <3>3. QED
      BY <2>1, <3>2 DEF Tried
  <2>2. QED
    BY <1>1, <2>1, LateKept
<1>2. CASE webhook' = [webhook EXCEPT ![w].pc = "refused", ![w].size = 1]
           /\ UNCHANGED <<user, knew>>
  <2>1. webhook[w] \in Webhook /\ webhook[w].pc = "none"
    BY DEF Receive, RequestsOK
  <2>2. webhook'[w] = [pc |-> "refused", size |-> 1, next |-> webhook[w].next]
    BY <1>2, <2>1 DEF RequestsOK, Webhook
  <2>3. RequestsOK'
    BY <1>2, <2>1, <2>2 DEF RequestsOK, WebhookOK, Webhook
  <2>4. RestOK'
    BY <1>2 DEF Receive, RestOK
  <2>5. QED
    BY <1>1, <1>l, <2>3, <2>4
<1>3. CASE \E n \in 1 .. MaxEvents, us \in [1 .. MaxEvents -> Who] :
             /\ webhook' = [webhook EXCEPT ![w] = [pc |-> "enqueue", size |-> n, next |-> 1]]
             /\ user' = [d \in Deliveries |-> IF d[1] = w THEN us[d[2]] ELSE user[d]]
             /\ knew' = knew \cup {d \in Deliveries : d[1] = w /\ us[d[2]] \in resolved}
  <2>1. RequestsOK'
    BY <1>3 DEF RequestsOK, WebhookOK, Webhook
  <2>2. RestOK'
    BY <1>3, DeliveryFacts DEF Receive, RestOK
  <2>3. QED
    BY <1>1, <1>l, <2>1, <2>2
<1>4. QED
  BY <1>2, <1>3 DEF Receive

LEMMA EnqueueTypes ==
  ASSUME TypeInv, NEW w \in Webhooks, Enqueue(w)
  PROVE  TypeInv' /\ <<w, webhook[w].next>> \in Deliveries
<1> USE DEF TypeInv
<1>1. /\ webhook[w].pc = "enqueue" /\ (Pass(w) \/ UNCHANGED webhook)
      /\ UNCHANGED <<proc, user, identity_events, resolved, knew>> /\ faults' \in Nat
  BY Charged DEF Enqueue, EnqueueRedis, EnqueueMemory, RestOK
<1>2. RequestsOK' /\ RestOK' /\ BatchOK'
  <2>1. CASE Pass(w)
    BY <1>1, <2>1, PassOK DEF RestOK, BatchOK, ProcOK
  <2>2. CASE UNCHANGED webhook
    BY <1>1, <2>2 DEF RequestsOK, WebhookOK, RestOK, BatchOK, ProcOK
  <2>3. QED
    BY <1>1, <2>1, <2>2
<1>3. <<w, webhook[w].next>> \in Deliveries
  BY <1>1, Sizes DEF RequestsOK, WebhookOK, Webhook, Deliveries
<1>e. PICK e \in Deliveries : e = <<w, webhook[w].next>>
  BY <1>3
<1>t. Tried(e)' /\ \A d \in Deliveries : Tried(d) => Tried(d)'
  <2>1. /\ webhook[w] \in Webhook /\ webhook[w].next <= webhook[w].size
        /\ e[1] = w /\ e[2] = webhook[w].next
    BY <1>1, <1>e DEF RequestsOK, WebhookOK
  <2>2. CASE Pass(w)
    <3>1. /\ webhook'[w].next = webhook[w].next + 1 /\ webhook'[w].size = webhook[w].size
          /\ webhook'[w].pc \in {"answered", "enqueue"}
          /\ \A v \in Webhooks : v # w => webhook'[v] = webhook[v]
      BY <1>1, <2>2, PassOK
    <3>2. Tried(e)'
      BY <2>1, <3>1, Sizes DEF Tried, Webhook
    <3>3. ASSUME NEW d \in Deliveries, Tried(d) PROVE Tried(d)'
      <4>1. CASE d[1] = w
        BY <2>1, <3>1, <3>3, <4>1, Sizes, DeliveryFacts DEF Tried, Webhook
      <4>2. CASE d[1] # w
        BY <3>1, <3>3, <4>2, DeliveryFacts DEF Tried
      <4>3. QED
        BY <4>1, <4>2
    <3>4. QED
      BY <3>2, <3>3
  <2>3. CASE UNCHANGED webhook
    BY <1>1, <2>1, <2>3, Sizes DEF Tried, Webhook
  <2>4. QED
    BY <1>1, <2>2, <2>3
<1>l. LateOK'
  <2>1. CASE UNCHANGED sends
    BY <1>t, <2>1, LateKept
  <2>2. CASE Unanswered(e)
    BY <1>t, <2>2 DEF Unanswered, LateOK
  <2>3. QED
    BY <1>e, <2>1, <2>2 DEF Enqueue, EnqueueRedis, EnqueueMemory
<1>4. CASE EnqueueRedis(w)
  <2>1. stream' = stream \/ stream' = Append(stream, <<w, webhook[w].next>>)
    BY <1>4 DEF EnqueueRedis
  <2>2. /\ stream' \in Seq(Deliveries) /\ Len(stream) \in Nat
        /\ Len(stream') = Len(stream) \/ Len(stream') = Len(stream) + 1
    <3>1. CASE stream' = stream
      BY <3>1, Elements DEF QueuesOK
    <3>2. CASE stream' = Append(stream, <<w, webhook[w].next>>)
      <4>1. stream \in Seq(Deliveries)
        BY DEF QueuesOK
      <4>2. QED
        BY <1>3, <3>2, <4>1, Grown
    <3>3. QED
      BY <2>1, <3>1, <3>2
  <2>3. QueuesOK'
    BY <1>4, <2>2 DEF EnqueueRedis, QueuesOK
  <2>4. QED
    BY <1>2, <1>3, <1>l, <2>3
<1>5. CASE EnqueueMemory(w)
  <2>1. \/ memq' = memq
        \/ Len(memq) < QueueCap /\ memq' = Append(memq, <<w, webhook[w].next>>)
    BY <1>5 DEF EnqueueMemory
  <2>2. /\ memq' \in Seq(Deliveries) /\ Len(memq) \in Nat
        /\ \/ Len(memq') = Len(memq)
           \/ Len(memq') = Len(memq) + 1 /\ Len(memq) < QueueCap
    <3>1. CASE memq' = memq
      BY <3>1, Elements DEF QueuesOK
    <3>2. CASE Len(memq) < QueueCap /\ memq' = Append(memq, <<w, webhook[w].next>>)
      <4>1. memq \in Seq(Deliveries)
        BY DEF QueuesOK
      <4>2. QED
        BY <1>3, <3>2, <4>1, Grown
    <3>3. QED
      BY <2>1, <3>1, <3>2
  <2>3. QueuesOK'
    BY <1>5, <2>2, Sizes DEF EnqueueMemory, QueuesOK
  <2>4. QED
    BY <1>2, <1>3, <1>l, <2>3
<1>6. QED
  BY <1>4, <1>5 DEF Enqueue

\* The stream after an XADD that arrives late.
LEMMA ArriveFacts ==
  ASSUME TypeInv, NEW d \in Deliveries, Arrive(d)
  PROVE  /\ d \in unanswered /\ stream' = Append(stream, d)
         /\ stream' \in Seq(Deliveries)
         /\ Len(stream) \in Nat /\ DOMAIN stream = 1 .. Len(stream)
         /\ Len(stream') = Len(stream) + 1 /\ DOMAIN stream' = 1 .. Len(stream) + 1
         /\ \A p \in DOMAIN stream : stream'[p] = stream[p] /\ stream[p] \in Deliveries
         /\ stream'[Len(stream) + 1] = d
         /\ UNCHANGED <<webhook, user, mode, group, unanswered, lastDelivered, pel, memq,
                        proc, identity_events, resolved, knew, faults>>
<1>1. d \in unanswered /\ stream' = Append(stream, d)
  BY DEF Arrive, TypeInv, LateOK
<1>2. stream \in Seq(Deliveries)
  BY DEF TypeInv, QueuesOK
<1>3. QED
  BY <1>1, <1>2, Grown DEF Arrive

LEMMA ArriveTypes ==
  ASSUME TypeInv, NEW d \in Deliveries, Arrive(d)
  PROVE  TypeInv'
<1>1. /\ stream' \in Seq(Deliveries) /\ Len(stream') = Len(stream) + 1 /\ Len(stream) \in Nat
      /\ UNCHANGED <<webhook, user, mode, group, unanswered, lastDelivered, pel, memq,
                     proc, identity_events, resolved, knew, faults>>
  BY ArriveFacts
<1>2. QueuesOK'
  BY <1>1 DEF TypeInv, QueuesOK
<1>3. LateOK'
  BY <1>1 DEF Arrive, TypeInv, LateOK, Tried
<1>4. RequestsOK' /\ BatchOK' /\ RestOK'
  BY <1>1 DEF TypeInv, RequestsOK, WebhookOK, BatchOK, ProcOK, RestOK
<1>5. QED
  BY <1>2, <1>3, <1>4 DEF TypeInv

-----------------------------------------------------------------------------
(* The processor.                                                          *)

\* The batch that n entries of the stream make.
Taken(n) == [i \in 1 .. n |-> [d |-> stream[lastDelivered + i], id |-> lastDelivered + i]]

LEMMA TakenFacts ==
  ASSUME QueuesOK, NEW n \in Nat, lastDelivered + n <= Len(stream)
  PROVE  /\ Taken(n) \in Seq(Entry) /\ Len(Taken(n)) = n /\ DOMAIN Taken(n) = 1 .. n
         /\ \A i \in 1 .. n : /\ Taken(n)[i].d = stream[lastDelivered + i]
                              /\ Taken(n)[i].id = lastDelivered + i
                              /\ lastDelivered + i \in DOMAIN stream
<1>1. \A i \in 1 .. n : lastDelivered + i \in DOMAIN stream /\ lastDelivered + i \in Nat
  BY Elements DEF QueuesOK
<1>2. \A i \in 1 .. n : [d |-> stream[lastDelivered + i], id |-> lastDelivered + i] \in Entry
  BY <1>1, Elements DEF QueuesOK, Entry
<1>3. Taken(n) \in [1 .. n -> Entry]
  BY <1>2 DEF Taken
<1>4. Taken(n) \in Seq(Entry)
  BY <1>3, SeqDef
<1>5. DOMAIN Taken(n) = 1 .. n
  BY <1>3
<1>6. Len(Taken(n)) = n
  BY <1>4, <1>5, LenProperties
<1>7. QED
  BY <1>1, <1>4, <1>5, <1>6 DEF Taken

LEMMA DequeueRedisFacts ==
  ASSUME TypeInv, DequeueRedis
  PROVE  \E n \in 1 .. DequeueCount, o \in {"ok", "lost"} :
           /\ lastDelivered + n <= Len(stream) /\ lastDelivered' = lastDelivered + n
           /\ mode = "redis" /\ group /\ proc.pc = "poll" /\ Charge(o)
           /\ pel' = pel \cup (lastDelivered + 1 .. lastDelivered + n)
           /\ proc' = IF o = "lost" THEN proc
                        ELSE [pc |-> "resolve", batch |-> Taken(n), found |-> proc.found]
           /\ UNCHANGED <<webhook, user, mode, group, sends, stream, memq,
                          identity_events, resolved, knew>>
<1> DEFINE n == Min2(DequeueCount, Len(stream) - lastDelivered)
<1>1. PICK o \in {"ok", "lost"} :
        /\ mode = "redis" /\ group /\ proc.pc = "poll" /\ n > 0
        /\ lastDelivered' = lastDelivered + n
        /\ pel' = pel \cup (lastDelivered + 1 .. lastDelivered + n)
        /\ proc' = IF o = "lost" THEN proc
                     ELSE [proc EXCEPT !.pc = "resolve", !.batch = Taken(n)]
        /\ Charge(o)
        /\ UNCHANGED <<webhook, user, mode, group, sends, stream, memq, identity_events,
                       resolved, knew>>
  BY DEF DequeueRedis, Taken
<1>2. n \in 1 .. DequeueCount /\ lastDelivered + n <= Len(stream)
  BY <1>1, Sizes, Elements DEF Min2, TypeInv, QueuesOK
<1> HIDE DEF n
<1>3. [proc EXCEPT !.pc = "resolve", !.batch = Taken(n)]
        = [pc |-> "resolve", batch |-> Taken(n), found |-> proc.found]
  <2> DEFINE p == [proc EXCEPT !.pc = "resolve"]
  <2>1. p = [pc |-> "resolve", batch |-> proc.batch, found |-> proc.found]
    BY DEF TypeInv, BatchOK, ProcOK
  <2> HIDE DEF p
  <2>2. [p EXCEPT !.batch = Taken(n)]
          = [pc |-> "resolve", batch |-> Taken(n), found |-> proc.found]
    BY <2>1
  <2>3. QED
    BY <2>2 DEF p
<1>4. QED
  BY <1>1, <1>2, <1>3

LEMMA AdvanceOK ==
  ASSUME BatchOK, proc.pc # "poll", Advance
  PROVE  /\ BatchOK'
         /\ proc'.pc = IF Len(proc.batch) = 1 THEN "poll" ELSE "resolve"
         /\ proc'.batch = Tail(proc.batch) /\ proc'.found = "none"
<1>1. Tail(proc.batch) \in Seq(Entry) /\ Len(Tail(proc.batch)) = Len(proc.batch) - 1
      /\ Len(proc.batch) \in Nat \ {0}
  BY Dropped DEF BatchOK, ProcOK
<1>2. Len(proc.batch) # 1 => Tail(proc.batch) # <<>>
  <2>1. Tail(proc.batch) # <<>> <=> Len(Tail(proc.batch)) # 0
    BY <1>1, NonEmpty
  <2>2. QED
    BY <1>1, <2>1
<1>3. /\ proc'.pc = IF Len(proc.batch) = 1 THEN "poll" ELSE "resolve"
      /\ proc'.batch = Tail(proc.batch) /\ proc'.found = "none"
  BY DEF Advance
<1>4. Len(proc'.batch) <= DequeueCount
  BY <1>1, <1>3, Sizes DEF BatchOK
<1>5. ProcOK'
  BY <1>1, <1>2, <1>3 DEF Advance, ProcOK, Who
<1>6. QED
  BY <1>3, <1>4, <1>5 DEF BatchOK

\* The events of the batch.
Batch == DOMAIN proc.batch

LEMMA InHand ==
  ASSUME TypeInv, proc.batch # <<>>
  PROVE  /\ Current = proc.batch[1] /\ Current \in Entry /\ 1 \in Batch
         /\ Current.d \in Deliveries /\ Current.id \in Nat
<1>1. /\ Head(proc.batch) = proc.batch[1] /\ proc.batch[1] \in Entry
      /\ Len(proc.batch) \in Nat \ {0} /\ DOMAIN proc.batch = 1 .. Len(proc.batch)
  BY Dropped DEF TypeInv, BatchOK, ProcOK
<1>2. 1 \in DOMAIN proc.batch
  BY <1>1
<1>3. QED
  BY <1>1, <1>2 DEF Current, Batch, Entry

LEMMA ProcessTypes ==
  ASSUME TypeInv, Process
  PROVE  TypeInv'
<1> USE Sizes DEF TypeInv
<1>l. LateOK'
  BY LateSame
  DEF Process, DequeueRedis, DequeueMemory, DequeueReturns, Resolve, Insert, Ack, queues, sends
<1>1. CASE DequeueRedis
  <2>1. PICK n \in 1 .. DequeueCount, o \in {"ok", "lost"} :
           /\ lastDelivered + n <= Len(stream) /\ lastDelivered' = lastDelivered + n
           /\ Charge(o)
           /\ pel' = pel \cup (lastDelivered + 1 .. lastDelivered + n)
           /\ proc' = IF o = "lost" THEN proc
                        ELSE [pc |-> "resolve", batch |-> Taken(n), found |-> proc.found]
           /\ UNCHANGED <<webhook, user, mode, group, sends, stream, memq,
                          identity_events, resolved, knew>>
    BY <1>1, DequeueRedisFacts
  <2>2. QueuesOK'
    BY <2>1, Elements DEF QueuesOK
  <2>3. Taken(n) \in Seq(Entry) /\ Len(Taken(n)) = n
    BY <2>1, TakenFacts
  <2>4. Taken(n) # <<>>
    BY <2>3, NonEmpty
  <2>5. BatchOK'
    BY <2>1, <2>3, <2>4 DEF BatchOK, ProcOK
  <2>6. RequestsOK' /\ RestOK'
    BY <2>1, Charged DEF RequestsOK, WebhookOK, RestOK
  <2>7. QED
    BY <1>l, <2>2, <2>5, <2>6
<1>2. CASE DequeueMemory
  <2>1. Tail(memq) \in Seq(Deliveries) /\ Len(Tail(memq)) = Len(memq) - 1
        /\ Len(memq) \in Nat /\ Head(memq) \in Deliveries
    BY <1>2, Dropped DEF DequeueMemory, QueuesOK
  <2>2. [d |-> Head(memq), id |-> 0] \in Entry
    BY <2>1 DEF Entry
  <2> DEFINE b == Append(proc.batch, [d |-> Head(memq), id |-> 0])
  <2>3. b \in Seq(Entry) /\ Len(b) = Len(proc.batch) + 1 /\ Len(proc.batch) \in Nat
    BY <2>2, Appended DEF BatchOK, ProcOK
  <2>b. proc' = [proc EXCEPT !.batch = b] /\ Len(proc.batch) < DequeueCount
        /\ proc.pc = "poll"
    BY <1>2 DEF DequeueMemory
  <2> HIDE DEF b
  <2>4. QueuesOK'
    BY <1>2, <2>1 DEF DequeueMemory, QueuesOK
  <2>5. BatchOK'
    BY <2>3, <2>b, Sizes DEF BatchOK, ProcOK
  <2>6. RequestsOK' /\ RestOK'
    BY <1>2 DEF DequeueMemory, RequestsOK, WebhookOK, RestOK
  <2>7. QED
    BY <1>l, <2>4, <2>5, <2>6
<1>3. CASE DequeueReturns
  BY <1>l, <1>3 DEF DequeueReturns, queues, QueuesOK, BatchOK, ProcOK, RequestsOK, WebhookOK, RestOK
<1>4. CASE Resolve
  <2>1. QueuesOK' /\ RequestsOK' /\ RestOK'
    BY <1>4, Charged DEF Resolve, queues, QueuesOK, RequestsOK, WebhookOK, RestOK
  <2>2. user[Current.d] \in Who
    BY <1>4, InHand DEF Resolve, BatchOK, ProcOK, RestOK
  <2>3. BatchOK'
    BY <1>4, <2>2 DEF Resolve, BatchOK, ProcOK, Who
  <2>4. QED
    BY <1>l, <2>1, <2>3
<1>5. CASE Insert
  <2>1. proc.pc = "insert" /\ UNCHANGED <<webhook, user, queues, resolved, knew>>
        /\ faults' \in Nat
    BY <1>5, Charged DEF Insert, RestOK
  <2>2. [d |-> Current.d, id |-> Current.id, identity |-> proc.found] \in Row
    BY <2>1, InHand DEF BatchOK, ProcOK, Row
  <2>3. identity_events' \in Seq(Row)
    BY <1>5, <2>2, Appended DEF Insert, RestOK
  <2>4. BatchOK'
    BY <1>5, <2>1, AdvanceOK DEF Insert, BatchOK, ProcOK
  <2>5. QueuesOK' /\ RequestsOK' /\ RestOK'
    BY <2>1, <2>3 DEF queues, QueuesOK, RequestsOK, WebhookOK, RestOK
  <2>6. QED
    BY <1>l, <2>4, <2>5
<1>6. CASE Ack
  <2>1. proc.pc = "ack" /\ Advance /\ pel' \subseteq pel /\ faults' \in Nat
        /\ UNCHANGED <<webhook, user, mode, group, stream, lastDelivered, memq,
                       identity_events, resolved, knew>>
    BY <1>6, Charged DEF Ack, RestOK
  <2>2. BatchOK'
    BY <2>1, AdvanceOK
  <2>3. QueuesOK' /\ RequestsOK' /\ RestOK'
    BY <2>1 DEF QueuesOK, RequestsOK, WebhookOK, RestOK
  <2>4. QED
    BY <1>l, <2>2, <2>3
<1>7. QED
  BY <1>1, <1>2, <1>3, <1>4, <1>5, <1>6 DEF Process

LEMMA RestartTypes ==
  ASSUME TypeInv, Restart
  PROVE  /\ TypeInv'
         /\ \A w \in Webhooks :
              webhook'[w] = IF webhook[w].pc = "enqueue" THEN [webhook[w] EXCEPT !.pc = "dead"]
                            ELSE webhook[w]
<1> USE DEF TypeInv
<1>1. QueuesOK'
  BY Blank, Sizes DEF Restart, QueuesOK
<1>2. BatchOK'
  BY Blank, Sizes DEF Restart, BatchOK, ProcOK, Idle, Who
<1>3. RestOK'
  BY DEF Restart, RestOK
<1>4. \A w \in Webhooks : webhook'[w] = IF webhook[w].pc = "enqueue"
                             THEN [webhook[w] EXCEPT !.pc = "dead"] ELSE webhook[w]
  BY DEF Restart
<1>5. ASSUME NEW w \in Webhooks PROVE [webhook[w] EXCEPT !.pc = "dead"] \in Webhook
  <2>1. webhook[w] \in Webhook
    BY DEF RequestsOK
  <2>2. QED
    BY <2>1 DEF Webhook
<1>6. webhook' \in [Webhooks -> Webhook]
  BY <1>5 DEF Restart, RequestsOK
<1>7. WebhookOK'
  BY <1>4 DEF RequestsOK, WebhookOK, Webhook
<1>8. LateOK'
  <2>1. ASSUME NEW d \in Deliveries, Tried(d) PROVE Tried(d)'
    <3>1. d[1] \in Webhooks /\ webhook[d[1]] \in Webhook
      BY DeliveryFacts DEF RequestsOK
    <3>2. /\ webhook'[d[1]].size = webhook[d[1]].size /\ webhook'[d[1]].next = webhook[d[1]].next
          /\ webhook'[d[1]].pc \in {webhook[d[1]].pc, "dead"}
      BY <1>4, <3>1 DEF Webhook
    <3>3. QED
      BY <2>1, <3>2 DEF Tried
  <2>2. QED
    BY <2>1, LateKept DEF Restart
<1>9. QED
  BY <1>1, <1>2, <1>3, <1>4, <1>6, <1>7, <1>8 DEF RequestsOK

LEMMA TypeStep == TypeInv /\ [Next]_vars => TypeInv'
<1> SUFFICES ASSUME TypeInv, [Next]_vars PROVE TypeInv'
  OBVIOUS
<1>1. ASSUME NEW u \in Users, SyncUser(u) PROVE TypeInv'
  BY <1>1 DEF SyncUser, TypeInv, queues, QueuesOK, RequestsOK, WebhookOK, BatchOK, ProcOK,
    RestOK, LateOK, Tried
<1>2. CASE UNCHANGED vars
  BY <1>2 DEF vars, TypeInv, QueuesOK, RequestsOK, WebhookOK, BatchOK, ProcOK, RestOK, LateOK,
    Tried
<1>3. QED
  BY <1>1, <1>2, ReceiveTypes, EnqueueTypes, ArriveTypes, ProcessTypes, RestartTypes DEF Next

LEMMA TypeInvariant == Spec => []TypeInv
BY TypeInit, TypeStep, PTL DEF Spec

\* Requests, queues, the processor and identity_events are well typed: the
\* channel and the batch never exceed their capacity, and what is pending in
\* Redis has been delivered (webhook_handlers.go, event_queue.go).
THEOREM TypesHold == Spec => []TypeOK
BY TypeInvariant, TypesOf, PTL

-----------------------------------------------------------------------------
(* Order.                                                                  *)

\* The handler has tried to enqueue d.
Sent(d) == d[2] < webhook[d[1]].next \/ d \in unanswered

\* The request of d has nothing in the stream and nothing on its way to it.
ByChannel(d) == /\ \A p \in DOMAIN stream : stream[p][1] # d[1]
                /\ \A u \in unanswered : u[1] # d[1]

\* d comes before e when they are of one request and e was answered.
Before(d, e) == d[1] = e[1] => d[2] < e[2] \/ e \in unanswered

\* The i-th event of the batch has not been inserted.
Pending(i) == i > 1 \/ proc.pc # "ack"

\* The stream holds what was sent, each request in its order.
StreamOrder ==
  /\ \A p \in DOMAIN stream : Sent(stream[p])
  /\ \A p, q \in DOMAIN stream : p < q => Before(stream[p], stream[q])

\* So does the channel, which is only used without Redis.
ChannelOrder ==
  /\ mode = "redis" => memq = <<>>
  /\ \A p \in DOMAIN memq : Sent(memq[p]) /\ ByChannel(memq[p])
  /\ \A p, q \in DOMAIN memq : p < q => Before(memq[p], memq[q])

\* The batch comes from the queue in use, before what that queue still holds.
BatchOrder ==
  /\ mode = "redis" /\ proc.pc = "poll" => proc.batch = <<>>
  /\ \A i \in Batch :
       /\ Sent(proc.batch[i].d)
       /\ mode = "redis" => /\ proc.batch[i].id \in 1 .. lastDelivered
                            /\ stream[proc.batch[i].id] = proc.batch[i].d
       /\ mode = "memory" => proc.batch[i].id = 0 /\ ByChannel(proc.batch[i].d)
       /\ \A p \in DOMAIN memq : Before(proc.batch[i].d, memq[p])
  /\ \A i, j \in Batch :
       i < j => /\ Before(proc.batch[i].d, proc.batch[j].d)
                /\ mode = "redis" => proc.batch[i].id < proc.batch[j].id

\* A row comes before what is in the processor's hands and in the channel.
RowOrder ==
  /\ \A i \in Rows :
       /\ Sent(identity_events[i].d)
       /\ identity_events[i].id # 0 =>
            /\ identity_events[i].id \in 1 .. lastDelivered
            /\ stream[identity_events[i].id] = identity_events[i].d
       /\ identity_events[i].id = 0 => ByChannel(identity_events[i].d)
       /\ \A j \in Batch : Pending(j) =>
            /\ Before(identity_events[i].d, proc.batch[j].d)
            /\ identity_events[i].id # 0 /\ proc.batch[j].id # 0 =>
                 identity_events[i].id < proc.batch[j].id
       /\ \A p \in DOMAIN memq : Before(identity_events[i].d, memq[p])
  /\ StoredInOrder

\* A request that is being served has used one queue only.
OneQueue ==
  \A w \in Webhooks : webhook[w].pc = "enqueue" =>
    /\ mode = "memory" => /\ \A p \in DOMAIN stream : stream[p][1] # w
                          /\ \A u \in unanswered : u[1] # w
    /\ mode = "redis" => \A i \in Rows : identity_events[i].d[1] = w => identity_events[i].id # 0

OrderInv == StreamOrder /\ ChannelOrder /\ BatchOrder /\ RowOrder /\ OneQueue


LEMMA Things ==
  ASSUME TypeInv
  PROVE  /\ \A p \in DOMAIN stream : stream[p] \in Deliveries
         /\ \A p \in DOMAIN memq : memq[p] \in Deliveries
         /\ \A i \in Batch : /\ proc.batch[i] \in Entry /\ proc.batch[i].d \in Deliveries
                             /\ proc.batch[i].id \in Nat
         /\ \A i \in Rows : /\ identity_events[i] \in Row /\ identity_events[i].d \in Deliveries
                            /\ identity_events[i].id \in Nat
                            /\ identity_events[i].identity \in Who
         /\ DOMAIN stream = 1 .. Len(stream) /\ DOMAIN memq = 1 .. Len(memq)
         /\ Batch = 1 .. Len(proc.batch) /\ Rows = 1 .. Len(identity_events)
         /\ Len(stream) \in Nat /\ Len(memq) \in Nat /\ Len(proc.batch) \in Nat
         /\ Len(identity_events) \in Nat
         /\ lastDelivered \in Nat /\ 1 .. lastDelivered \subseteq DOMAIN stream
<1> USE DEF TypeInv
<1>1. /\ DOMAIN stream = 1 .. Len(stream) /\ Len(stream) \in Nat
      /\ \A p \in DOMAIN stream : stream[p] \in Deliveries
  BY Elements DEF QueuesOK
<1>2. /\ DOMAIN memq = 1 .. Len(memq) /\ Len(memq) \in Nat
      /\ \A p \in DOMAIN memq : memq[p] \in Deliveries
  BY Elements DEF QueuesOK
<1>3. /\ Batch = 1 .. Len(proc.batch) /\ Len(proc.batch) \in Nat
      /\ \A i \in Batch : proc.batch[i] \in Entry
  BY Elements DEF BatchOK, ProcOK, Batch
<1>4. /\ Rows = 1 .. Len(identity_events) /\ Len(identity_events) \in Nat
      /\ \A i \in Rows : identity_events[i] \in Row
  BY Elements DEF RestOK, Rows
<1>5. lastDelivered \in Nat /\ lastDelivered <= Len(stream)
  BY <1>1 DEF QueuesOK
<1>6. 1 .. lastDelivered \subseteq DOMAIN stream
  BY <1>1, <1>5
<1>7. \A e \in Entry : e.d \in Deliveries /\ e.id \in Nat
  BY DEF Entry
<1>8. \A r \in Row : r.d \in Deliveries /\ r.id \in Nat /\ r.identity \in Who
  BY DEF Row
<1>9. QED
  BY <1>1, <1>2, <1>3, <1>4, <1>5, <1>6, <1>7, <1>8

\* What is unanswered stays so, and only XADDs of the handler's next event are
\* added.
LEMMA UnansweredGrows ==
  ASSUME [Next]_vars
  PROVE  /\ unanswered \subseteq unanswered'
         /\ \A u \in unanswered' : u \notin unanswered =>
              \E w \in Webhooks : /\ EnqueueRedis(w) /\ mode = "redis"
                                  /\ webhook[w].pc = "enqueue" /\ u = <<w, webhook[w].next>>
<1>1. ASSUME NEW w \in Webhooks, EnqueueRedis(w)
      PROVE  /\ mode = "redis" /\ webhook[w].pc = "enqueue"
             /\ \/ unanswered' = unanswered
                \/ unanswered' = unanswered \cup {<<w, webhook[w].next>>}
  BY <1>1 DEF EnqueueRedis, Unanswered, sends
<1>2. ASSUME NEW w \in Webhooks, Receive(w) \/ EnqueueMemory(w) PROVE unanswered' = unanswered
  BY <1>2 DEF Receive, EnqueueMemory, queues, sends
<1>3. ASSUME NEW d \in Deliveries, Arrive(d) PROVE unanswered' = unanswered
  BY <1>3 DEF Arrive
<1>4. Process => unanswered' = unanswered
  BY DEF Process, DequeueRedis, DequeueMemory, DequeueReturns, Resolve, Insert, Ack, queues,
    sends
<1>5. UNCHANGED vars \/ Restart \/ (\E u \in Users : SyncUser(u)) => unanswered' = unanswered
  BY DEF vars, Restart, SyncUser, queues, sends
<1>6. QED
  BY <1>1, <1>2, <1>3, <1>4, <1>5 DEF Next, Enqueue

LEMMA SentStays ==
  ASSUME TypeInv, [Next]_vars, NEW d \in Deliveries, Sent(d)
  PROVE  Sent(d)'
<1> DEFINE v == d[1]
<1>1. v \in Webhooks /\ d[2] \in Nat /\ d[2] >= 1
  BY DeliveryFacts
<1>2. webhook[v] \in Webhook /\ webhook[v].next \in Nat
  BY <1>1, Sizes DEF TypeInv, RequestsOK, Webhook
<1>3. CASE d \in unanswered
  BY <1>3, UnansweredGrows DEF Sent
<1>4. CASE d[2] < webhook[v].next
  <2>1. ASSUME webhook'[v] = webhook[v] PROVE Sent(d)'
    BY <1>4, <2>1 DEF Sent
  <2>2. ASSUME NEW w \in Webhooks, Receive(w) PROVE Sent(d)'
    <3>1. CASE v = w
      <4>1. webhook[v].next = 1
        BY <2>2, <3>1 DEF Receive, TypeInv, RequestsOK, WebhookOK
      <4>2. QED
        BY <1>1, <1>4, <4>1
    <3>2. CASE v # w
      BY <1>1, <2>1, <2>2, <3>2 DEF Receive, TypeInv, RequestsOK
    <3>3. QED
      BY <3>1, <3>2
  <2>3. ASSUME NEW w \in Webhooks, Enqueue(w) PROVE Sent(d)'
    <3>1. (Pass(w) \/ UNCHANGED webhook) /\ webhook[w].pc = "enqueue"
      BY <2>3 DEF Enqueue, EnqueueRedis, EnqueueMemory
    <3>2. CASE Pass(w)
      <4>1. /\ webhook'[w].next = webhook[w].next + 1
            /\ \A x \in Webhooks : x # w => webhook'[x] = webhook[x]
        BY <3>1, <3>2, PassOK DEF TypeInv
      <4>2. CASE v = w
        BY <1>1, <1>2, <1>4, <4>1, <4>2 DEF Sent
      <4>3. CASE v # w
        BY <1>1, <2>1, <4>1, <4>3
      <4>4. QED
        BY <4>2, <4>3
    <3>3. QED
      BY <2>1, <3>1, <3>2
  <2>4. CASE Restart
    <3>1. webhook'[v] = IF webhook[v].pc = "enqueue" THEN [webhook[v] EXCEPT !.pc = "dead"]
                        ELSE webhook[v]
      BY <1>1, <2>4, RestartTypes
    <3>2. webhook'[v].next = webhook[v].next
      BY <1>2, <3>1 DEF Webhook
    <3>3. QED
      BY <1>4, <3>2 DEF Sent
  <2>5. CASE Process
    BY <2>1, <2>5
    DEF Process, DequeueRedis, DequeueMemory, DequeueReturns, Resolve, Insert, Ack
  <2>6. CASE UNCHANGED vars \/ (\E u \in Users : SyncUser(u)) \/ (\E e \in Deliveries : Arrive(e))
    BY <2>1, <2>6 DEF vars, SyncUser, Arrive
  <2>7. QED
    BY <2>2, <2>3, <2>4, <2>5, <2>6 DEF Next
<1>5. QED
  BY <1>3, <1>4 DEF Sent

\* What Sent(d) means while d is of a request that is being served.
LEMMA NextIsLater ==
  ASSUME TypeInv, NEW w \in Webhooks, webhook[w].pc = "enqueue", NEW d \in Deliveries, Sent(d)
  PROVE  Before(d, <<w, webhook[w].next>>)
<1> SUFFICES ASSUME d[1] = w, ~(d[2] < webhook[w].next)
             PROVE  <<w, webhook[w].next>> \in unanswered
  BY DEF Before
<1>1. d \in unanswered /\ d[2] <= webhook[w].next
  BY DEF Sent, TypeInv, LateOK, Tried
<1>2. d[2] = webhook[w].next
  BY <1>1, Sizes, DeliveryFacts DEF TypeInv, RequestsOK, Webhook
<1>3. QED
  BY <1>1, <1>2, DeliveryFacts

\* A request that has not arrived has sent nothing.
LEMMA NoneSent ==
  ASSUME TypeInv, NEW w \in Webhooks, webhook[w].pc = "none"
  PROVE  /\ \A d \in Deliveries : Sent(d) => d[1] # w
         /\ \A u \in unanswered : u[1] # w
<1>1. webhook[w].next = 1
  BY DEF TypeInv, RequestsOK, WebhookOK
<1>2. \A u \in unanswered : u[1] # w
  BY DEF TypeInv, LateOK, Tried
<1>3. \A d \in Deliveries : d[1] = w => ~(d[2] < webhook[d[1]].next)
  BY <1>1, DeliveryFacts
<1>4. QED
  BY <1>2, <1>3 DEF Sent

\* The processor goes on with what it has, or drops its first event; the
\* queues and the table stay.  A handler may have got no answer from Redis.
LEMMA OrderSame ==
  ASSUME TypeInv, TypeInv', OrderInv, NEW s \in {0, 1},
         \A d \in Deliveries : Sent(d) => Sent(d)',
         unanswered \subseteq unanswered',
         \A u \in unanswered' : u \notin unanswered =>
           mode = "redis" /\ u[1] \in Webhooks /\ webhook[u[1]].pc = "enqueue",
         UNCHANGED <<mode, stream, lastDelivered, memq, identity_events>>,
         \A j \in Batch' : /\ j + s \in Batch /\ proc'.batch[j] = proc.batch[j + s]
                           /\ Pending(j)' => Pending(j + s),
         mode = "redis" /\ proc'.pc = "poll" => proc'.batch = <<>>,
         \A w \in Webhooks : webhook'[w].pc = "enqueue" => webhook[w].pc \in {"enqueue", "none"}
  PROVE  OrderInv'
<1> USE DEF OrderInv
<1>b. \A d, e : Before(d, e) => Before(d, e)'
  BY DEF Before
<1>s. \A d \in Deliveries : Sent(d) => d[2] < webhook'[d[1]].next \/ d \in unanswered'
  BY DEF Sent
<1>c. \A d : /\ mode = "memory" /\ ByChannel(d) => ByChannel(d)'
             /\ ByChannel(d) /\ (\A w \in Webhooks : d[1] = w => webhook[w].pc # "enqueue") =>
                  ByChannel(d)'
  BY DEF ByChannel
<1>1. StreamOrder'
  <2>1. \A p \in DOMAIN stream : stream[p] \in Deliveries
    BY Things
  <2>2. QED
    BY <1>b, <1>s, <2>1 DEF StreamOrder, Sent, Before
<1>2. ChannelOrder'
  <2>1. \A p \in DOMAIN memq : memq[p] \in Deliveries
    BY Things
  <2>2. memq # <<>> => mode = "memory"
    BY DEF ChannelOrder, TypeInv, QueuesOK
  <2>3. memq = <<>> => DOMAIN memq = {}
    BY Blank
  <2>4. QED
    BY <1>b, <1>c, <1>s, <2>1, <2>2, <2>3 DEF ChannelOrder, Sent, Before, ByChannel
<1>3. BatchOrder'
  <2>1. \A i \in Batch' : i \in Nat
    BY Elements DEF TypeInv, BatchOK, ProcOK, Batch
  <2>2. ASSUME NEW i \in Batch'
        PROVE  /\ Sent(proc.batch[i].d)'
               /\ mode = "redis" => /\ proc'.batch[i].id \in 1 .. lastDelivered
                                    /\ stream[proc'.batch[i].id] = proc'.batch[i].d
               /\ mode = "memory" => proc'.batch[i].id = 0 /\ ByChannel(proc.batch[i].d)'
               /\ \A p \in DOMAIN memq : Before(proc.batch[i].d, memq[p])'
    <3>1. i + s \in Batch /\ proc'.batch[i] = proc.batch[i + s]
      OBVIOUS
    <3>2. PICK d \in Deliveries : d = proc.batch[i + s].d
      BY <3>1, Things
    <3>3. Sent(d)'
      BY <3>1, <3>2 DEF BatchOrder
    <3>4. Sent(proc.batch[i].d)'
      BY <3>1, <3>2, <3>3 DEF Sent
    <3>5. QED
      BY <1>b, <1>c, <3>1, <3>4 DEF BatchOrder
  <2>3. ASSUME NEW i \in Batch', NEW j \in Batch', i < j
        PROVE  /\ Before(proc.batch[i].d, proc.batch[j].d)'
               /\ mode' = "redis" => proc'.batch[i].id < proc'.batch[j].id
    <3>1. i + s \in Batch /\ j + s \in Batch /\ i + s < j + s
      BY <2>1, <2>3
    <3>2. proc'.batch[i] = proc.batch[i + s] /\ proc'.batch[j] = proc.batch[j + s]
      OBVIOUS
    <3>3. QED
      BY <1>b, <3>1, <3>2 DEF BatchOrder
  <2>4. (mode = "redis" /\ proc.pc = "poll" => proc.batch = <<>>)'
    OBVIOUS
  <2>5. QED
    BY <2>2, <2>3, <2>4 DEF BatchOrder, Before, ByChannel
<1>4. RowOrder'
  <2>1. StoredInOrder'
    <3>1. \A i, j \in Rows : i < j =>
            /\ Before(identity_events[i].d, identity_events[j].d)
            /\ identity_events[i].id # 0 /\ identity_events[j].id # 0 =>
                 identity_events[i].id < identity_events[j].id
      BY DEF RowOrder, StoredInOrder, Before
    <3>2. QED
      BY <1>b, <3>1 DEF StoredInOrder, Before, Rows
  <2>2. ASSUME NEW i \in Rows'
        PROVE  /\ Sent(identity_events[i].d)'
               /\ identity_events'[i].id # 0 =>
                    /\ identity_events'[i].id \in 1 .. lastDelivered'
                    /\ stream'[identity_events'[i].id] = identity_events'[i].d
               /\ identity_events'[i].id = 0 => ByChannel(identity_events[i].d)'
               /\ \A j \in Batch' : Pending(j)' =>
                    /\ Before(identity_events[i].d, proc.batch[j].d)'
                    /\ identity_events'[i].id # 0 /\ proc'.batch[j].id # 0 =>
                         identity_events'[i].id < proc'.batch[j].id
               /\ \A p \in DOMAIN memq' : Before(identity_events[i].d, memq[p])'
    <3>1. i \in Rows /\ identity_events[i].d \in Deliveries
      BY Things DEF Rows
    <3>2. Sent(identity_events[i].d)'
      BY <3>1 DEF RowOrder
    <3>3. ASSUME NEW j \in Batch', Pending(j)'
          PROVE  /\ Before(identity_events[i].d, proc.batch[j].d)'
                 /\ identity_events[i].id # 0 /\ proc'.batch[j].id # 0 =>
                      identity_events[i].id < proc'.batch[j].id
      <4>1. j + s \in Batch /\ proc'.batch[j] = proc.batch[j + s] /\ Pending(j + s)
        BY <3>3
      <4>2. QED
        BY <1>b, <3>1, <4>1 DEF RowOrder
    <3>4. identity_events[i].id = 0 => ByChannel(identity_events[i].d)'
      <4>1. mode \in {"redis", "memory"}
        BY DEF TypeInv, QueuesOK
      <4>2. QED
        BY <1>c, <3>1, <4>1 DEF RowOrder, OneQueue
    <3>5. QED
      BY <1>b, <3>1, <3>2, <3>3, <3>4 DEF RowOrder
  <2>3. QED
    BY <2>1, <2>2 DEF RowOrder, Before
<1>5. OneQueue'
  <2> SUFFICES ASSUME NEW w \in Webhooks, webhook'[w].pc = "enqueue"
               PROVE  /\ mode = "memory" => /\ \A p \in DOMAIN stream : stream[p][1] # w
                                            /\ \A u \in unanswered' : u[1] # w
                      /\ mode = "redis" => \A i \in Rows : identity_events[i].d[1] = w =>
                                              identity_events[i].id # 0
    BY DEF OneQueue, Rows
  <2>1. CASE webhook[w].pc = "enqueue"
    BY <2>1 DEF OneQueue
  <2>2. CASE webhook[w].pc = "none"
    <3>1. /\ \A d \in Deliveries : Sent(d) => d[1] # w
          /\ \A u \in unanswered : u[1] # w
      BY <2>2, NoneSent
    <3>2. QED
      BY <3>1, Things DEF StreamOrder, RowOrder
  <2>3. QED
    BY <2>1, <2>2
<1>6. QED
  BY <1>1, <1>2, <1>3, <1>4, <1>5

\* An entry is added to the stream, by the handler of its request or late.
LEMMA OrderAppend ==
  ASSUME TypeInv, TypeInv', OrderInv, NEW e \in Deliveries,
         \A d \in Deliveries : Sent(d) => Sent(d)',
         stream' = Append(stream, e), Sent(e)',
         \A p \in DOMAIN stream : Before(stream[p], e),
         UNCHANGED <<mode, unanswered, lastDelivered, memq, proc, identity_events>>,
         e \in unanswered \/ (mode = "redis" /\ webhook[e[1]].pc = "enqueue"),
         \A w \in Webhooks : webhook'[w].pc = "enqueue" => webhook[w].pc = "enqueue"
  PROVE  OrderInv'
<1> USE DEF OrderInv
<1>1. /\ Len(stream) \in Nat /\ DOMAIN stream = 1 .. Len(stream)
      /\ DOMAIN stream' = 1 .. Len(stream) + 1
      /\ \A p \in DOMAIN stream : stream'[p] = stream[p] /\ stream[p] \in Deliveries
      /\ stream'[Len(stream) + 1] = e
  <2>1. stream \in Seq(Deliveries)
    BY DEF TypeInv, QueuesOK
  <2>2. QED
    BY <2>1, Grown
<1>b. \A d, f : Before(d, f)' <=> Before(d, f)
  BY DEF Before
<1>c. \A d : ByChannel(d) /\ d[1] # e[1] => ByChannel(d)'
  BY <1>1 DEF ByChannel
<1>u. \A d : ByChannel(d) /\ e \in unanswered => d[1] # e[1]
  BY DEF ByChannel
<1>m. mode = "redis" => memq = <<>> /\ DOMAIN memq = {}
  BY Blank DEF ChannelOrder
<1>2. StreamOrder'
  <2>1. ASSUME NEW p \in DOMAIN stream' PROVE Sent(stream[p])'
    <3>1. CASE p \in DOMAIN stream
      <4>1. PICK d \in Deliveries : d = stream[p] /\ Sent(d)'
        BY <1>1, <3>1 DEF StreamOrder
      <4>2. QED
        BY <1>1, <3>1, <4>1 DEF Sent
    <3>2. CASE p = Len(stream) + 1
      BY <1>1, <3>2 DEF Sent
    <3>3. QED
      BY <1>1, <3>1, <3>2
  <2>2. ASSUME NEW p \in DOMAIN stream', NEW q \in DOMAIN stream', p < q
        PROVE  Before(stream'[p], stream'[q])
    BY <1>1, <2>2 DEF StreamOrder
  <2>3. QED
    BY <1>b, <2>1, <2>2 DEF StreamOrder, Before
<1>3. ASSUME NEW p \in DOMAIN memq
      PROVE  Sent(memq[p])' /\ ByChannel(memq[p])'
  <2>1. PICK d \in Deliveries : d = memq[p]
    BY Things
  <2>2. Sent(d)' /\ ByChannel(d) /\ d[1] # e[1]
    BY <1>m, <1>u, <2>1 DEF ChannelOrder
  <2>3. QED
    BY <1>c, <2>1, <2>2
<1>4. ChannelOrder'
  BY <1>b, <1>3 DEF ChannelOrder, Sent, ByChannel, Before
<1>5. \A p \in 1 .. lastDelivered : p \in DOMAIN stream /\ stream'[p] = stream[p]
  BY <1>1, Things
<1>6. BatchOrder'
  <2>1. ASSUME NEW i \in Batch
        PROVE  /\ Sent(proc.batch[i].d)'
               /\ mode = "memory" => ByChannel(proc.batch[i].d)'
    <3>1. PICK d \in Deliveries : d = proc.batch[i].d /\ Sent(d)'
      BY Things DEF BatchOrder
    <3>2. mode = "memory" => ByChannel(d) /\ d[1] # e[1]
      BY <1>u, <3>1 DEF BatchOrder
    <3>3. mode = "memory" => ByChannel(d)'
      BY <1>c, <3>2
    <3>4. QED
      BY <3>1, <3>3 DEF Sent, ByChannel
  <2>2. QED
    BY <1>b, <1>5, <2>1 DEF BatchOrder, Batch, Before
<1>7. RowOrder'
  <2>1. ASSUME NEW i \in Rows
        PROVE  /\ Sent(identity_events[i].d)'
               /\ identity_events[i].id = 0 => ByChannel(identity_events[i].d)'
    <3>1. PICK d \in Deliveries : d = identity_events[i].d /\ Sent(d)'
      BY Things DEF RowOrder
    <3>2. identity_events[i].id = 0 => ByChannel(d) /\ d[1] # e[1]
      BY <1>u, <3>1, DeliveryFacts DEF RowOrder, OneQueue
    <3>3. identity_events[i].id = 0 => ByChannel(d)'
      BY <1>c, <3>2
    <3>4. QED
      BY <3>1, <3>3 DEF Sent, ByChannel
  <2>2. StoredInOrder'
    BY DEF RowOrder, StoredInOrder, Rows
  <2>3. QED
    BY <1>b, <1>5, <2>1, <2>2 DEF RowOrder, Rows, Batch, Before, Pending
<1>8. OneQueue'
  <2> SUFFICES ASSUME NEW w \in Webhooks, webhook'[w].pc = "enqueue"
               PROVE  /\ mode = "memory" => /\ \A p \in DOMAIN stream' : stream'[p][1] # w
                                            /\ \A u \in unanswered : u[1] # w
                      /\ mode = "redis" => \A i \in Rows : identity_events[i].d[1] = w =>
                                              identity_events[i].id # 0
    BY DEF OneQueue, Rows
  <2>1. QED
    BY <1>1 DEF OneQueue
<1>9. QED
  BY <1>2, <1>4, <1>6, <1>7, <1>8

LEMMA OrderEnqueueRedis ==
  ASSUME TypeInv, TypeInv', OrderInv, [Next]_vars, NEW w \in Webhooks, EnqueueRedis(w),
         \A d \in Deliveries : Sent(d) => Sent(d)',
         <<w, webhook[w].next>> \in Deliveries
  PROVE  OrderInv'
<1>e. PICK e \in Deliveries : e = <<w, webhook[w].next>>
  OBVIOUS
<1>1. /\ mode = "redis" /\ webhook[w].pc = "enqueue"
      /\ UNCHANGED <<mode, lastDelivered, memq, proc, identity_events>>
      /\ \/ stream' = Append(stream, e) /\ Pass(w) /\ UNCHANGED unanswered
         \/ stream' = stream /\ (Pass(w) \/ UNCHANGED webhook)
  BY <1>e DEF EnqueueRedis, sends
<1>2. \A v \in Webhooks : webhook'[v].pc = "enqueue" => webhook[v].pc = "enqueue"
  <2>1. CASE Pass(w)
    <3>1. \A v \in Webhooks : v # w => webhook'[v] = webhook[v]
      BY <1>1, <2>1, PassOK DEF TypeInv
    <3>2. QED
      BY <1>1, <3>1
  <2>2. QED
    BY <1>1, <2>1
<1>3. CASE stream' = stream
  <2>1. \A j \in Batch' : j + 0 \in Batch /\ proc'.batch[j] = proc.batch[j + 0]
                          /\ (Pending(j)' => Pending(j + 0))
    <3>1. \A j \in Batch : j + 0 = j
      BY Things
    <3>2. QED
      BY <1>1, <3>1 DEF Batch, Pending
  <2>2. mode = "redis" /\ proc'.pc = "poll" => proc'.batch = <<>>
    BY <1>1 DEF OrderInv, BatchOrder
  <2>3. UNCHANGED <<mode, stream, lastDelivered, memq, identity_events>>
    BY <1>1, <1>3
  <2>4. \A v \in Webhooks : webhook'[v].pc = "enqueue" => webhook[v].pc \in {"enqueue", "none"}
    BY <1>2
  <2>5. 0 \in {0, 1}
    OBVIOUS
  <2>6. /\ unanswered \subseteq unanswered'
        /\ \A u \in unanswered' : u \notin unanswered =>
             mode = "redis" /\ u[1] \in Webhooks /\ webhook[u[1]].pc = "enqueue"
    BY UnansweredGrows
  <2>7. QED
    BY <2>1, <2>2, <2>3, <2>4, <2>5, <2>6, OrderSame
<1>4. CASE stream' = Append(stream, e) /\ Pass(w) /\ UNCHANGED unanswered
  <2>1. \A p \in DOMAIN stream : Before(stream[p], e)
    BY <1>1, <1>e, NextIsLater, Things DEF OrderInv, StreamOrder
  <2>2. Sent(e)'
    <3>1. webhook'[w].next = webhook[w].next + 1 /\ webhook[w].next \in Nat
      BY <1>1, <1>4, PassOK, Sizes DEF TypeInv, RequestsOK, Webhook
    <3>2. e[1] = w /\ e[2] < webhook'[w].next
      BY <1>e, <3>1, DeliveryFacts
    <3>3. QED
      BY <3>2 DEF Sent
  <2>3. webhook[e[1]].pc = "enqueue"
    BY <1>1, <1>e
  <2>4. QED
    BY <1>1, <1>2, <1>4, <2>1, <2>2, <2>3, OrderAppend
<1>5. QED
  BY <1>1, <1>3, <1>4

LEMMA OrderArrive ==
  ASSUME TypeInv, TypeInv', OrderInv, NEW e \in Deliveries, Arrive(e),
         \A d \in Deliveries : Sent(d) => Sent(d)'
  PROVE  OrderInv'
<1>1. /\ e \in unanswered /\ stream' = Append(stream, e)
      /\ UNCHANGED <<webhook, mode, unanswered, lastDelivered, memq, proc, identity_events>>
  BY ArriveFacts
<1>2. Sent(e)' /\ \A p \in DOMAIN stream : Before(stream[p], e)
  BY <1>1 DEF Sent, Before
<1>3. QED
  BY <1>1, <1>2, OrderAppend

\* What Sent(d)' says, for steps that leave the queues.
SentThen(d) == d[2] < webhook'[d[1]].next \/ d \in unanswered'

LEMMA StillSent ==
  ASSUME TypeInv, OrderInv, \A d \in Deliveries : Sent(d) => Sent(d)'
  PROVE  /\ \A p \in DOMAIN stream : SentThen(stream[p])
         /\ \A p \in DOMAIN memq : SentThen(memq[p])
         /\ \A i \in Batch : SentThen(proc.batch[i].d)
         /\ \A i \in Rows : SentThen(identity_events[i].d)
<1>1. \A d \in Deliveries : Sent(d) => SentThen(d)
  BY DEF Sent, SentThen
<1>2. QED
  BY <1>1, Things DEF OrderInv, StreamOrder, ChannelOrder, BatchOrder, RowOrder

LEMMA OrderEnqueueMemory ==
  ASSUME TypeInv, TypeInv', OrderInv, NEW w \in Webhooks, EnqueueMemory(w),
         \A d \in Deliveries : Sent(d) => Sent(d)',
         <<w, webhook[w].next>> \in Deliveries
  PROVE  OrderInv'
<1>e. PICK e \in Deliveries : e = <<w, webhook[w].next>>
  OBVIOUS
<1>1. /\ mode = "memory" /\ webhook[w].pc = "enqueue" /\ Pass(w)
      /\ UNCHANGED <<mode, unanswered, stream, lastDelivered, proc, identity_events>>
      /\ memq' = memq \/ memq' = Append(memq, e)
  BY <1>e DEF EnqueueMemory, sends
<1>2. /\ webhook'[w].next = webhook[w].next + 1
      /\ \A v \in Webhooks : webhook'[v].pc = "enqueue" => webhook[v].pc = "enqueue"
  <2>1. /\ webhook'[w].next = webhook[w].next + 1
        /\ \A v \in Webhooks : v # w => webhook'[v] = webhook[v]
    BY <1>1, PassOK DEF TypeInv
  <2>2. QED
    BY <1>1, <2>1
<1>3. CASE memq' = memq
  <2>1. \A j \in Batch' : j + 0 \in Batch /\ proc'.batch[j] = proc.batch[j + 0]
                          /\ (Pending(j)' => Pending(j + 0))
    <3>1. \A j \in Batch : j + 0 = j
      BY Things
    <3>2. QED
      BY <1>1, <3>1 DEF Batch, Pending
  <2>2. mode = "redis" /\ proc'.pc = "poll" => proc'.batch = <<>>
    BY <1>1
  <2>3. UNCHANGED <<mode, stream, lastDelivered, memq, identity_events>>
    BY <1>1, <1>3
  <2>4. /\ \A v \in Webhooks : webhook'[v].pc = "enqueue" => webhook[v].pc \in {"enqueue", "none"}
        /\ unanswered' = unanswered
    BY <1>1, <1>2
  <2>5. 0 \in {0, 1}
    OBVIOUS
  <2>6. QED
    BY <2>1, <2>2, <2>3, <2>4, <2>5, OrderSame
<1>4. CASE memq' = Append(memq, e)
  <2>1. /\ Len(memq) \in Nat /\ DOMAIN memq = 1 .. Len(memq)
        /\ DOMAIN memq' = 1 .. Len(memq) + 1
        /\ \A p \in DOMAIN memq : memq'[p] = memq[p] /\ memq[p] \in Deliveries
        /\ memq'[Len(memq) + 1] = e
    <3>1. memq \in Seq(Deliveries)
      BY DEF TypeInv, QueuesOK
    <3>2. QED
      BY <1>e, <1>4, <3>1, Grown
  <2>2. /\ \A p \in DOMAIN memq : Before(memq[p], e)
        /\ \A i \in Batch : Before(proc.batch[i].d, e)
        /\ \A i \in Rows : Before(identity_events[i].d, e)
    BY <1>1, <1>e, NextIsLater, Things DEF OrderInv, ChannelOrder, BatchOrder, RowOrder
  <2>3. e[1] = w /\ SentThen(e)
    <3>1. webhook[w].next \in Nat
      BY Sizes DEF TypeInv, RequestsOK, Webhook
    <3>2. QED
      BY <1>e, <1>2, <3>1, DeliveryFacts DEF SentThen
  <2>4. /\ \A p \in DOMAIN stream : SentThen(stream[p])
        /\ \A p \in DOMAIN memq : SentThen(memq[p])
        /\ \A i \in Batch : SentThen(proc.batch[i].d)
        /\ \A i \in Rows : SentThen(identity_events[i].d)
    BY StillSent
  <2>5. (\A p \in DOMAIN stream : stream[p][1] # w) /\ \A u \in unanswered : u[1] # w
    BY <1>1 DEF OrderInv, OneQueue
  <2>6. StreamOrder'
    BY <1>1, <2>4 DEF OrderInv, StreamOrder, Sent, SentThen, Before
  <2>7. ChannelOrder'
    <3>1. ASSUME NEW p \in DOMAIN memq'
          PROVE  SentThen(memq'[p]) /\ ByChannel(memq'[p])
      <4>1. CASE p \in DOMAIN memq
        BY <2>1, <2>4, <4>1 DEF OrderInv, ChannelOrder
      <4>2. CASE p = Len(memq) + 1
        BY <2>1, <2>3, <2>5, <4>2 DEF ByChannel
      <4>3. QED
        BY <2>1, <4>1, <4>2
    <3>2. ASSUME NEW p \in DOMAIN memq', NEW q \in DOMAIN memq', p < q
          PROVE  Before(memq'[p], memq'[q])
      BY <2>1, <2>2, <3>2 DEF OrderInv, ChannelOrder
    <3>3. QED
      BY <1>1, <3>1, <3>2 DEF ChannelOrder, Sent, SentThen, ByChannel, Before
  <2>8. ASSUME NEW p \in DOMAIN memq'
        PROVE  /\ \A i \in Batch : Before(proc.batch[i].d, memq'[p])
               /\ \A i \in Rows : Before(identity_events[i].d, memq'[p])
    <3>1. CASE p \in DOMAIN memq
      BY <2>1, <3>1 DEF OrderInv, BatchOrder, RowOrder
    <3>2. CASE p = Len(memq) + 1
      BY <2>1, <2>2, <3>2
    <3>3. QED
      BY <2>1, <3>1, <3>2
  <2>9. BatchOrder'
    BY <1>1, <2>4, <2>8 DEF OrderInv, BatchOrder, Batch, Sent, SentThen,
      ByChannel, Before
  <2>10. RowOrder'
    <3>1. StoredInOrder'
      BY <1>1 DEF OrderInv, RowOrder, StoredInOrder, Rows
    <3>2. QED
      BY <1>1, <2>4, <2>8, <3>1
      DEF OrderInv, RowOrder, Rows, Batch, Sent, SentThen, ByChannel, Before, Pending
  <2>11. OneQueue'
    BY <1>1, <1>2 DEF OrderInv, OneQueue, Rows
  <2>12. QED
    BY <2>6, <2>7, <2>9, <2>10, <2>11 DEF OrderInv
<1>5. QED
  BY <1>1, <1>3, <1>4

LEMMA OrderDequeueRedis ==
  ASSUME TypeInv, TypeInv', OrderInv, DequeueRedis
  PROVE  OrderInv'
<1>1. PICK n \in 1 .. DequeueCount, o \in {"ok", "lost"} :
         /\ lastDelivered + n <= Len(stream) /\ lastDelivered' = lastDelivered + n
         /\ mode = "redis" /\ proc.pc = "poll"
         /\ proc' = IF o = "lost" THEN proc
                      ELSE [pc |-> "resolve", batch |-> Taken(n), found |-> proc.found]
         /\ UNCHANGED <<webhook, mode, unanswered, stream, memq, identity_events>>
  BY DequeueRedisFacts DEF sends
<1>2. n \in Nat /\ lastDelivered \in Nat /\ Len(stream) \in Nat
      /\ DOMAIN stream = 1 .. Len(stream)
  BY Sizes, Things
<1>3. memq = <<>> /\ DOMAIN memq = {} /\ proc.batch = <<>> /\ Batch = {}
  BY <1>1, Blank DEF OrderInv, ChannelOrder, BatchOrder, Batch
<1>4. \/ Batch' = {} /\ proc' = proc
      \/ /\ Batch' = 1 .. n /\ proc'.pc = "resolve"
         /\ \A i \in 1 .. n : /\ proc'.batch[i].d = stream[lastDelivered + i]
                              /\ proc'.batch[i].id = lastDelivered + i
  <2>1. CASE o = "lost"
    BY <1>1, <1>3, <2>1 DEF Batch
  <2>2. CASE o # "lost"
    BY <1>1, <1>2, <2>2, TakenFacts DEF Batch, TypeInv
  <2>3. QED
    BY <2>1, <2>2
<1>5. StreamOrder' /\ OneQueue' /\ ChannelOrder'
  BY <1>1, <1>3 DEF OrderInv, StreamOrder, OneQueue, ChannelOrder, Rows, Sent, Before
<1>6. ASSUME NEW i \in Batch'
      PROVE  \E p \in DOMAIN stream :
               /\ p = lastDelivered + i /\ p \in 1 .. lastDelivered'
               /\ proc'.batch[i].id = p /\ proc'.batch[i].d = stream[p] /\ Sent(stream[p])
  BY <1>1, <1>2, <1>4 DEF OrderInv, StreamOrder
<1>7. BatchOrder'
  <2>1. proc'.pc = "poll" => proc'.batch = <<>>
    BY <1>3, <1>4
  <2>2. ASSUME NEW i \in Batch'
        PROVE  /\ Sent(proc'.batch[i].d)
               /\ proc'.batch[i].id \in 1 .. lastDelivered'
               /\ stream[proc'.batch[i].id] = proc'.batch[i].d
    BY <1>6
  <2>3. ASSUME NEW i \in Batch', NEW j \in Batch', i < j
        PROVE  /\ Before(proc'.batch[i].d, proc'.batch[j].d)
               /\ proc'.batch[i].id < proc'.batch[j].id
    <3>1. i \in Nat /\ j \in Nat /\ lastDelivered + i < lastDelivered + j
      BY <1>2, <1>4, <2>3
    <3>2. QED
      BY <1>6, <3>1 DEF OrderInv, StreamOrder
  <2>4. QED
    BY <1>1, <1>3, <2>1, <2>2, <2>3 DEF BatchOrder, Sent, Before
<1>8. RowOrder'
  <2>1. StoredInOrder'
    BY <1>1 DEF OrderInv, RowOrder, StoredInOrder, Rows
  <2>2. ASSUME NEW i \in Rows, NEW j \in Batch'
        PROVE  /\ Before(identity_events[i].d, proc'.batch[j].d)
               /\ identity_events[i].id # 0 => identity_events[i].id < proc'.batch[j].id
    <3>1. PICK p \in DOMAIN stream :
            p > lastDelivered /\ proc'.batch[j].id = p /\ proc'.batch[j].d = stream[p]
      BY <1>2, <1>4, <1>6
    <3>2. CASE identity_events[i].id = 0
      BY <3>1, <3>2 DEF OrderInv, RowOrder, ByChannel, Before
    <3>3. CASE identity_events[i].id # 0
      <4>1. PICK q \in 1 .. lastDelivered :
              identity_events[i].id = q /\ stream[q] = identity_events[i].d
        BY <3>3 DEF OrderInv, RowOrder
      <4>2. q \in DOMAIN stream /\ q < p
        BY <1>2, <3>1, Things
      <4>3. QED
        BY <3>1, <4>1, <4>2 DEF OrderInv, StreamOrder
    <3>4. QED
      BY <3>2, <3>3
  <2>3. 1 .. lastDelivered \subseteq 1 .. lastDelivered'
    BY <1>1, <1>2
  <2>4. QED
    BY <1>1, <1>3, <2>1, <2>2, <2>3 DEF OrderInv, RowOrder, Rows, Sent, ByChannel, Before
<1>9. QED
  BY <1>5, <1>7, <1>8 DEF OrderInv

LEMMA OrderDequeueMemory ==
  ASSUME TypeInv, TypeInv', OrderInv, DequeueMemory
  PROVE  OrderInv'
<1>1. /\ mode = "memory" /\ proc.pc = "poll" /\ memq # <<>> /\ memq' = Tail(memq)
      /\ proc' = [proc EXCEPT !.batch = Append(@, [d |-> Head(memq), id |-> 0])]
      /\ UNCHANGED <<webhook, mode, unanswered, stream, lastDelivered, identity_events>>
  BY DEF DequeueMemory, sends
<1>2. /\ Head(memq) = memq[1] /\ memq[1] \in Deliveries /\ 1 \in DOMAIN memq
      /\ \A p \in DOMAIN memq' : p + 1 \in DOMAIN memq /\ memq'[p] = memq[p + 1] /\ p \in Nat
                                 /\ p >= 1
  BY <1>1, Dropped DEF TypeInv, QueuesOK
<1>3. PICK e \in Entry : e = [d |-> Head(memq), id |-> 0]
  BY <1>2 DEF Entry
<1>4. e.d = memq[1] /\ e.id = 0
  BY <1>2, <1>3
<1>5. /\ proc'.pc = "poll" /\ proc.batch \in Seq(Entry)
      /\ proc'.batch = Append(proc.batch, e)
  BY <1>1, <1>3 DEF TypeInv, BatchOK, ProcOK
<1>6. /\ Len(proc.batch) \in Nat /\ Batch = 1 .. Len(proc.batch)
      /\ Batch' = 1 .. Len(proc.batch) + 1
      /\ \A i \in Batch : proc'.batch[i] = proc.batch[i]
      /\ proc'.batch[Len(proc.batch) + 1] = e
  BY <1>5, Grown DEF Batch
<1>7. StreamOrder' /\ OneQueue'
  BY <1>1 DEF OrderInv, StreamOrder, OneQueue, Rows, Sent, Before
<1>8. ChannelOrder'
  <2>1. ASSUME NEW p \in DOMAIN memq' PROVE Sent(memq'[p]) /\ ByChannel(memq'[p])
    BY <1>2 DEF OrderInv, ChannelOrder
  <2>2. ASSUME NEW p \in DOMAIN memq', NEW q \in DOMAIN memq', p < q
        PROVE  Before(memq'[p], memq'[q])
    <3>1. p + 1 \in DOMAIN memq /\ q + 1 \in DOMAIN memq /\ p + 1 < q + 1
      BY <1>2, <2>2
    <3>2. QED
      BY <1>2, <3>1 DEF OrderInv, ChannelOrder
  <2>3. QED
    BY <1>1, <2>1, <2>2 DEF ChannelOrder, Sent, ByChannel, Before
<1>9. /\ Sent(e.d) /\ ByChannel(e.d)
      /\ \A p \in DOMAIN memq' : Before(e.d, memq'[p])
      /\ \A i \in Batch : Before(proc.batch[i].d, e.d)
      /\ \A i \in Rows : Before(identity_events[i].d, e.d)
  <2>1. \A p \in DOMAIN memq' : 1 < p + 1
    BY <1>2
  <2>2. QED
    BY <1>2, <1>4, <2>1 DEF OrderInv, ChannelOrder, BatchOrder, RowOrder
<1>10. BatchOrder'
  <2>1. ASSUME NEW i \in Batch'
        PROVE  /\ Sent(proc'.batch[i].d)
               /\ proc'.batch[i].id = 0 /\ ByChannel(proc'.batch[i].d)
               /\ \A p \in DOMAIN memq' : Before(proc'.batch[i].d, memq'[p])
    <3>1. CASE i \in Batch
      BY <1>1, <1>2, <1>6, <3>1 DEF OrderInv, BatchOrder
    <3>2. CASE i = Len(proc.batch) + 1
      BY <1>4, <1>6, <1>9, <3>2
    <3>3. QED
      BY <1>6, <3>1, <3>2
  <2>2. ASSUME NEW i \in Batch', NEW j \in Batch', i < j
        PROVE  Before(proc'.batch[i].d, proc'.batch[j].d)
    <3>1. i \in Batch
      BY <1>6, <2>2
    <3>2. CASE j \in Batch
      BY <1>6, <2>2, <3>1, <3>2 DEF OrderInv, BatchOrder
    <3>3. CASE j = Len(proc.batch) + 1
      BY <1>6, <1>9, <3>1, <3>3
    <3>4. QED
      BY <1>6, <3>2, <3>3
  <2>3. QED
    BY <1>1, <2>1, <2>2 DEF BatchOrder, Sent, ByChannel, Before
<1>11. RowOrder'
  <2>1. StoredInOrder'
    BY <1>1 DEF OrderInv, RowOrder, StoredInOrder, Rows
  <2>2. ASSUME NEW i \in Rows, NEW j \in Batch'
        PROVE  /\ Before(identity_events[i].d, proc'.batch[j].d)
               /\ proc'.batch[j].id = 0
    <3>1. CASE j \in Batch
      BY <1>1, <1>6, <3>1 DEF OrderInv, RowOrder, BatchOrder, Pending
    <3>2. CASE j = Len(proc.batch) + 1
      BY <1>4, <1>6, <1>9, <3>2
    <3>3. QED
      BY <1>6, <3>1, <3>2
  <2>3. \A i \in Rows, p \in DOMAIN memq' : Before(identity_events[i].d, memq'[p])
    BY <1>2 DEF OrderInv, RowOrder
  <2>4. QED
    BY <1>1, <2>1, <2>2, <2>3 DEF OrderInv, RowOrder, Rows, Sent, ByChannel, Before
<1>12. QED
  BY <1>7, <1>8, <1>10, <1>11 DEF OrderInv

\* The first event is dropped from the batch, and the others move up.
LEMMA AdvanceFacts ==
  ASSUME TypeInv, proc.pc # "poll", Advance
  PROVE  /\ \A j \in Batch' : j + 1 \in Batch /\ j + 1 > 1 /\ proc'.batch[j] = proc.batch[j + 1]
         /\ \A j \in Batch : j # 1 => j - 1 \in Batch' /\ proc'.batch[j - 1] = proc.batch[j]
         /\ proc'.pc \in {"poll", "resolve"} /\ proc'.found = "none"
         /\ proc'.pc = "poll" => proc'.batch = <<>>
<1>1. proc.batch \in Seq(Entry) /\ proc.batch # <<>>
  BY DEF TypeInv, BatchOK, ProcOK
<1>2. /\ proc'.batch = Tail(proc.batch) /\ proc'.found = "none"
      /\ proc'.pc = IF Len(proc.batch) = 1 THEN "poll" ELSE "resolve"
  BY DEF Advance
<1>3. /\ Len(proc.batch) \in Nat \ {0} /\ DOMAIN proc.batch = 1 .. Len(proc.batch)
      /\ Tail(proc.batch) \in Seq(Entry)
      /\ Len(Tail(proc.batch)) = Len(proc.batch) - 1
      /\ DOMAIN Tail(proc.batch) = 1 .. Len(proc.batch) - 1
      /\ \A i \in DOMAIN Tail(proc.batch) :
           i + 1 \in DOMAIN proc.batch /\ Tail(proc.batch)[i] = proc.batch[i + 1]
  BY <1>1, Dropped
<1>4. Len(proc.batch) = 1 => Tail(proc.batch) = <<>>
  <2>1. Tail(proc.batch) # <<>> <=> Len(Tail(proc.batch)) # 0
    BY <1>3, NonEmpty
  <2>2. QED
    BY <1>3, <2>1
<1>5. Batch = 1 .. Len(proc.batch) /\ Batch' = 1 .. Len(proc.batch) - 1
  BY <1>2, <1>3 DEF Batch
<1>6. \A j \in Batch' : j + 1 \in Batch /\ j + 1 > 1 /\ proc'.batch[j] = proc.batch[j + 1]
  BY <1>2, <1>3, <1>5
<1>7. ASSUME NEW j \in Batch, j # 1
      PROVE  j - 1 \in Batch' /\ proc'.batch[j - 1] = proc.batch[j]
  <2>1. j - 1 \in Batch' /\ (j - 1) + 1 = j
    BY <1>3, <1>5, <1>7
  <2>2. QED
    BY <1>6, <2>1
<1>8. QED
  BY <1>2, <1>4, <1>6, <1>7

\* What the INSERT makes of the table and of the batch: s events of the batch
\* are done with, none when the event has to be acknowledged.
LEMMA InsertFacts ==
  ASSUME TypeInv, Insert
  PROVE  \E o \in Outcomes, s \in {0, 1} :
           /\ proc.pc = "insert" /\ proc.batch # <<>> /\ Charge(o)
           /\ UNCHANGED <<webhook, user, queues, resolved, knew>>
           /\ o = "error" => identity_events' = identity_events
           /\ o # "error" => \E r \in Row :
                /\ r = [d |-> Current.d, id |-> Current.id, identity |-> proc.found]
                /\ identity_events' = Append(identity_events, r)
           /\ s = 0 => /\ o = "ok" /\ Current.id # 0
                       /\ proc'.pc = "ack" /\ proc'.batch = proc.batch
                       /\ proc'.found = proc.found
           /\ s = 1 => Advance
           /\ proc'.pc = "poll" => proc'.batch = <<>>
           /\ \A j \in Batch' : /\ j + s \in Batch /\ proc'.batch[j] = proc.batch[j + s]
                                /\ Pending(j)' => j + s > 1
<1>1. PICK o \in Outcomes :
        /\ proc.pc = "insert"
        /\ identity_events' = IF Applied(o)
             THEN Append(identity_events,
                         [d |-> Current.d, id |-> Current.id, identity |-> proc.found])
             ELSE identity_events
        /\ IF o = "ok" /\ Current.id # 0
             THEN proc' = [proc EXCEPT !.pc = "ack"] ELSE Advance
        /\ Charge(o)
        /\ UNCHANGED <<webhook, user, queues, resolved, knew>>
  BY DEF Insert
<1>2. proc.batch # <<>> /\ proc.pc = "insert"
  BY <1>1 DEF TypeInv, BatchOK, ProcOK
<1>3. [d |-> Current.d, id |-> Current.id, identity |-> proc.found] \in Row
  BY <1>2, InHand DEF TypeInv, BatchOK, ProcOK, Row
<1>4. PICK r \in Row : r = [d |-> Current.d, id |-> Current.id, identity |-> proc.found]
  BY <1>3
<1>5. /\ o = "error" => identity_events' = identity_events
      /\ o # "error" => identity_events' = Append(identity_events, r)
  BY <1>1, <1>4 DEF Applied
<1>6. CASE o = "ok" /\ Current.id # 0
  <2>1. proc' = [proc EXCEPT !.pc = "ack"]
    BY <1>1, <1>6
  <2>2. proc'.pc = "ack" /\ proc'.batch = proc.batch /\ proc'.found = proc.found
    BY <2>1 DEF TypeInv, BatchOK, ProcOK
  <2>3. \A j \in Batch' : /\ j + 0 \in Batch /\ proc'.batch[j] = proc.batch[j + 0]
                          /\ Pending(j)' => j + 0 > 1
    <3>1. \A j \in Batch : j + 0 = j
      BY Things
    <3>2. QED
      BY <2>2, <3>1 DEF Batch, Pending
  <2> DEFINE s == 0
  <2>4. s \in {0, 1}
    OBVIOUS
  <2>5. QED
    BY <1>1, <1>2, <1>4, <1>5, <1>6, <2>2, <2>3, <2>4
<1>7. CASE ~(o = "ok" /\ Current.id # 0)
  <2>1. Advance
    BY <1>1, <1>7
  <2>2. /\ proc'.pc = "poll" => proc'.batch = <<>>
        /\ \A j \in Batch' : j + 1 \in Batch /\ proc'.batch[j] = proc.batch[j + 1] /\ j + 1 > 1
    BY <1>2, <2>1, AdvanceFacts
  <2> DEFINE s == 1
  <2>3. s \in {0, 1} /\ s # 0
    OBVIOUS
  <2>4. QED
    BY <1>1, <1>2, <1>4, <1>5, <2>1, <2>2, <2>3
<1>8. QED
  BY <1>6, <1>7

LEMMA OrderInsert ==
  ASSUME TypeInv, TypeInv', OrderInv, Insert
  PROVE  OrderInv'
<1>1. PICK o \in Outcomes, s \in {0, 1} :
        /\ proc.pc = "insert" /\ proc.batch # <<>>
        /\ UNCHANGED <<webhook, user, queues, resolved, knew>>
        /\ o = "error" => identity_events' = identity_events
        /\ o # "error" => \E r \in Row :
             /\ r = [d |-> Current.d, id |-> Current.id, identity |-> proc.found]
             /\ identity_events' = Append(identity_events, r)
        /\ proc'.pc = "poll" => proc'.batch = <<>>
        /\ \A j \in Batch' : /\ j + s \in Batch /\ proc'.batch[j] = proc.batch[j + s]
                             /\ Pending(j)' => j + s > 1
  BY InsertFacts
<1>q. UNCHANGED <<webhook, mode, unanswered, stream, lastDelivered, memq>>
  BY <1>1 DEF queues
<1>2. ASSUME identity_events' = identity_events PROVE OrderInv'
  <2>1. \A j \in Batch' : /\ j + s \in Batch /\ proc'.batch[j] = proc.batch[j + s]
                          /\ Pending(j)' => Pending(j + s)
    BY <1>1 DEF Pending
  <2>2. \A d \in Deliveries : Sent(d) => Sent(d)'
    BY <1>q DEF Sent
  <2>3. UNCHANGED <<mode, unanswered, stream, lastDelivered, memq, identity_events>>
    BY <1>2, <1>q
  <2>4. mode = "redis" /\ proc'.pc = "poll" => proc'.batch = <<>>
    BY <1>1
  <2>5. \A v \in Webhooks : webhook'[v].pc = "enqueue" => webhook[v].pc \in {"enqueue", "none"}
    BY <1>q
  <2>6. s \in {0, 1}
    OBVIOUS
  <2>7. QED
    BY <2>1, <2>2, <2>3, <2>4, <2>5, <2>6, OrderSame
<1>3. ASSUME NEW r \in Row,
             r = [d |-> Current.d, id |-> Current.id, identity |-> proc.found],
             identity_events' = Append(identity_events, r)
      PROVE  OrderInv'
  <2>n. PICK n \in Nat : n = Len(identity_events)
    BY Things
  <2>1. /\ Rows = 1 .. n /\ Rows' = 1 .. n + 1
        /\ \A i \in Rows : identity_events'[i] = identity_events[i]
        /\ identity_events'[n + 1] = r
    <3>1. identity_events \in Seq(Row)
      BY DEF TypeInv, RestOK
    <3>2. /\ Len(identity_events) \in Nat /\ DOMAIN identity_events = 1 .. Len(identity_events)
          /\ DOMAIN identity_events' = 1 .. Len(identity_events) + 1
          /\ \A i \in DOMAIN identity_events : identity_events'[i] = identity_events[i]
          /\ identity_events'[Len(identity_events) + 1] = r
      BY <1>3, <3>1, Grown
    <3>3. QED
      BY <2>n, <3>2 DEF Rows
  <2>2. /\ 1 \in Batch /\ r.d = proc.batch[1].d /\ r.id = proc.batch[1].id
        /\ proc.batch[1] \in Entry /\ Pending(1)
    BY <1>1, <1>3, InHand DEF Pending
  <2>3. /\ Sent(r.d)
        /\ mode = "redis" => r.id \in 1 .. lastDelivered /\ stream[r.id] = r.d
        /\ mode = "memory" => r.id = 0 /\ ByChannel(r.d)
        /\ \A p \in DOMAIN memq : Before(r.d, memq[p])
        /\ \A i \in Batch : i > 1 => Before(r.d, proc.batch[i].d)
                                     /\ (mode = "redis" => r.id < proc.batch[i].id)
        /\ \A i \in Rows : Before(identity_events[i].d, r.d)
                           /\ (identity_events[i].id # 0 /\ r.id # 0 => identity_events[i].id < r.id)
    <3>1. \A i \in Batch : 1 < i <=> i > 1
      BY Things
    <3>2. QED
      BY <2>2, <3>1 DEF OrderInv, BatchOrder, RowOrder
  <2>4. mode \in {"redis", "memory"}
    BY DEF TypeInv, QueuesOK
  <2>5. StreamOrder' /\ ChannelOrder'
    BY <1>q DEF OrderInv, StreamOrder, ChannelOrder, Sent, ByChannel, Before
  <2>6. BatchOrder'
    <3>1. ASSUME NEW i \in Batch', NEW j \in Batch', i < j
          PROVE  /\ Before(proc'.batch[i].d, proc'.batch[j].d)
                 /\ mode = "redis" => proc'.batch[i].id < proc'.batch[j].id
      <4>1. i \in Nat /\ j \in Nat
        BY Elements DEF TypeInv, BatchOK, ProcOK, Batch
      <4>2. i + s \in Batch /\ j + s \in Batch /\ i + s < j + s
        BY <1>1, <3>1, <4>1
      <4>3. QED
        BY <1>1, <4>2 DEF OrderInv, BatchOrder
    <3>2. ASSUME NEW i \in Batch'
          PROVE  /\ Sent(proc'.batch[i].d)
                 /\ mode = "redis" => /\ proc'.batch[i].id \in 1 .. lastDelivered
                                      /\ stream[proc'.batch[i].id] = proc'.batch[i].d
                 /\ mode = "memory" => proc'.batch[i].id = 0 /\ ByChannel(proc'.batch[i].d)
                 /\ \A p \in DOMAIN memq : Before(proc'.batch[i].d, memq[p])
      BY <1>1 DEF OrderInv, BatchOrder
    <3>3. QED
      BY <1>1, <1>q, <3>1, <3>2 DEF BatchOrder, Sent, ByChannel, Before
  <2>7. OneQueue'
    <3> SUFFICES ASSUME NEW w \in Webhooks, webhook[w].pc = "enqueue", mode = "redis",
                        NEW i \in Rows', identity_events'[i].d[1] = w
                 PROVE  identity_events'[i].id # 0
      BY <1>q DEF OrderInv, OneQueue
    <3>1. CASE i \in Rows
      BY <2>1, <3>1 DEF OrderInv, OneQueue
    <3>2. CASE i = n + 1
      BY <2>1, <2>3, <3>2, Things
    <3>3. QED
      BY <2>1, <3>1, <3>2
  <2>8. RowOrder'
    <3>1. \A j \in Batch' : Pending(j)' => j + s \in Batch /\ j + s > 1
                                           /\ proc'.batch[j] = proc.batch[j + s]
      BY <1>1
    <3>2. ASSUME NEW i \in Rows'
          PROVE  /\ Sent(identity_events'[i].d)
                 /\ identity_events'[i].id # 0 =>
                      /\ identity_events'[i].id \in 1 .. lastDelivered
                      /\ stream[identity_events'[i].id] = identity_events'[i].d
                 /\ identity_events'[i].id = 0 => ByChannel(identity_events'[i].d)
                 /\ \A p \in DOMAIN memq : Before(identity_events'[i].d, memq[p])
      <4>1. CASE i \in Rows
        BY <2>1, <4>1 DEF OrderInv, RowOrder
      <4>2. CASE i = n + 1
        <5>1. r.id = 0 => mode = "memory"
          BY <2>3, <2>4, Things
        <5>2. QED
          BY <2>1, <2>3, <2>4, <4>2, <5>1
      <4>3. QED
        BY <2>1, <4>1, <4>2
    <3>3. ASSUME NEW i \in Rows', NEW j \in Batch', Pending(j)'
          PROVE  /\ Before(identity_events'[i].d, proc'.batch[j].d)
                 /\ identity_events'[i].id # 0 /\ proc'.batch[j].id # 0 =>
                      identity_events'[i].id < proc'.batch[j].id
      <4>1. j + s \in Batch /\ j + s > 1 /\ proc'.batch[j] = proc.batch[j + s] /\ Pending(j + s)
        BY <3>1, <3>3 DEF Pending
      <4>2. CASE i \in Rows
        BY <2>1, <4>1, <4>2 DEF OrderInv, RowOrder
      <4>3. CASE i = n + 1
        BY <2>1, <2>3, <2>4, <4>1, <4>3
      <4>4. QED
        BY <2>1, <4>2, <4>3
    <3>4. StoredInOrder'
      <4> SUFFICES ASSUME NEW i \in Rows', NEW j \in Rows', i < j
                   PROVE  /\ Before(identity_events'[i].d, identity_events'[j].d)
                          /\ identity_events'[i].id # 0 /\ identity_events'[j].id # 0 =>
                               identity_events'[i].id < identity_events'[j].id
        BY <1>q DEF StoredInOrder, Rows, Before
      <4>1. i \in Rows
        BY <2>1
      <4>2. CASE j \in Rows
        BY <2>1, <4>1, <4>2 DEF OrderInv, RowOrder, StoredInOrder, Rows, Before
      <4>3. CASE j = n + 1
        BY <2>1, <2>3, <4>1, <4>3
      <4>4. QED
        BY <2>1, <4>2, <4>3
    <3>5. QED
      BY <1>q, <3>2, <3>3, <3>4 DEF RowOrder, Sent, ByChannel, Before
  <2>9. QED
    BY <2>5, <2>6, <2>7, <2>8 DEF OrderInv
<1>4. QED
  BY <1>1, <1>2, <1>3

LEMMA OrderRestart ==
  ASSUME TypeInv, TypeInv', OrderInv, Restart,
         \A d \in Deliveries : Sent(d) => Sent(d)'
  PROVE  OrderInv'
<1>1. /\ memq' = <<>> /\ proc'.pc = "poll" /\ proc'.batch = <<>>
      /\ DOMAIN memq' = {} /\ Batch' = {}
      /\ UNCHANGED <<unanswered, stream, lastDelivered, identity_events>>
  BY Blank DEF Restart, Idle, Batch, sends
<1>2. \A w \in Webhooks : webhook'[w].pc # "enqueue"
  <2> SUFFICES ASSUME NEW w \in Webhooks PROVE webhook'[w].pc # "enqueue"
    OBVIOUS
  <2>1. webhook[w] \in Webhook
    BY DEF TypeInv, RequestsOK
  <2>2. webhook'[w] = IF webhook[w].pc = "enqueue" THEN [webhook[w] EXCEPT !.pc = "dead"]
                      ELSE webhook[w]
    BY RestartTypes
  <2>3. QED
    BY <2>1, <2>2 DEF Webhook
<1>3. /\ \A p \in DOMAIN stream : SentThen(stream[p])
      /\ \A i \in Rows : SentThen(identity_events[i].d)
  BY StillSent
<1>4. StreamOrder' /\ ChannelOrder' /\ BatchOrder' /\ OneQueue'
  BY <1>1, <1>2, <1>3
  DEF OrderInv, StreamOrder, ChannelOrder, BatchOrder, OneQueue, Sent, SentThen, Before
<1>5. StoredInOrder'
  BY <1>1 DEF OrderInv, RowOrder, StoredInOrder, Rows
<1>6. RowOrder'
  BY <1>1, <1>3, <1>5 DEF OrderInv, RowOrder, Rows, Sent, SentThen, ByChannel
<1>7. QED
  BY <1>4, <1>6 DEF OrderInv

\* The other steps leave the queues, the table and the batch.
LEMMA OrderQuiet ==
  ASSUME TypeInv, TypeInv', OrderInv,
         \A d \in Deliveries : Sent(d) => Sent(d)',
         UNCHANGED <<mode, unanswered, stream, lastDelivered, memq, identity_events>>,
         proc'.batch = proc.batch,
         proc'.pc = "ack" <=> proc.pc = "ack",
         proc'.pc = "poll" => proc.pc = "poll",
         \A w \in Webhooks : webhook'[w].pc = "enqueue" =>
           webhook[w].pc \in {"enqueue", "none"}
  PROVE  OrderInv'
<1>1. \A j \in Batch' : /\ j + 0 \in Batch /\ proc'.batch[j] = proc.batch[j + 0]
                        /\ Pending(j)' => Pending(j + 0)
  <2>1. \A j \in Batch : j + 0 = j
    BY Things
  <2>2. QED
    BY <2>1 DEF Batch, Pending
<1>2. mode = "redis" /\ proc'.pc = "poll" => proc'.batch = <<>>
  BY DEF OrderInv, BatchOrder
<1>3. 0 \in {0, 1}
  OBVIOUS
<1>4. QED
  BY <1>1, <1>2, <1>3, OrderSame

LEMMA OrderAck ==
  ASSUME TypeInv, TypeInv', OrderInv, Ack
  PROVE  OrderInv'
<1>1. /\ proc.pc = "ack" /\ Advance
      /\ UNCHANGED <<webhook, mode, unanswered, stream, lastDelivered, memq, identity_events>>
  BY DEF Ack, sends
<1>2. /\ \A j \in Batch' : /\ j + 1 \in Batch /\ proc'.batch[j] = proc.batch[j + 1]
                           /\ Pending(j)' => Pending(j + 1)
      /\ mode = "redis" /\ proc'.pc = "poll" => proc'.batch = <<>>
  BY <1>1, AdvanceFacts DEF Pending
<1>3. /\ \A d \in Deliveries : Sent(d) => Sent(d)'
      /\ \A w \in Webhooks : webhook'[w].pc = "enqueue" =>
           webhook[w].pc \in {"enqueue", "none"}
      /\ 1 \in {0, 1}
  BY <1>1 DEF Sent
<1>4. QED
  BY <1>1, <1>2, <1>3, OrderSame

LEMMA OrderInit == Init => OrderInv
<1> SUFFICES ASSUME Init PROVE OrderInv
  OBVIOUS
<1>1. DOMAIN stream = {} /\ memq = <<>> /\ DOMAIN memq = {}
  BY Blank DEF Init
<1>2. proc.batch = <<>> /\ Batch = {} /\ Rows = {}
  BY Blank DEF Init, Idle, Batch, Rows
<1>3. \A w \in Webhooks : webhook[w].pc # "enqueue"
  BY DEF Init
<1>4. QED
  BY <1>1, <1>2, <1>3 DEF OrderInv, StreamOrder, ChannelOrder, BatchOrder, RowOrder, OneQueue,
    Rows, StoredInOrder

LEMMA OrderStep == TypeInv /\ OrderInv /\ [Next]_vars => OrderInv'
<1> SUFFICES ASSUME TypeInv, OrderInv, [Next]_vars PROVE OrderInv'
  OBVIOUS
<1>1. TypeInv' /\ \A d \in Deliveries : Sent(d) => Sent(d)'
  BY TypeStep, SentStays
<1>2. ASSUME NEW w \in Webhooks, Receive(w) PROVE OrderInv'
  <2>1. UNCHANGED <<proc, mode, unanswered, stream, lastDelivered, memq, identity_events>>
    BY <1>2 DEF Receive, queues
  <2>2. \A v \in Webhooks : webhook'[v].pc = "enqueue" =>
          webhook[v].pc \in {"enqueue", "none"}
    <3> SUFFICES ASSUME NEW v \in Webhooks, webhook'[v].pc = "enqueue"
                 PROVE  webhook[v].pc \in {"enqueue", "none"}
      OBVIOUS
    <3>1. CASE v = w
      BY <1>2, <3>1 DEF Receive
    <3>2. CASE v # w
      BY <1>2, <3>2 DEF Receive, TypeInv, RequestsOK
    <3>3. QED
      BY <3>1, <3>2
  <2>3. QED
    BY <1>1, <2>1, <2>2, OrderQuiet
<1>3. ASSUME NEW w \in Webhooks, Enqueue(w) PROVE OrderInv'
  BY <1>1, <1>3, EnqueueTypes, OrderEnqueueRedis, OrderEnqueueMemory DEF Enqueue
<1>a. ASSUME NEW d \in Deliveries, Arrive(d) PROVE OrderInv'
  BY <1>1, <1>a, OrderArrive
<1>4. CASE DequeueReturns \/ Resolve
  <2>1. /\ UNCHANGED <<webhook, mode, unanswered, stream, lastDelivered, memq, identity_events>>
        /\ proc.pc \in {"poll", "resolve"} /\ proc'.pc \in {"resolve", "insert"}
        /\ proc'.batch = proc.batch
    BY <1>4 DEF DequeueReturns, Resolve, queues, TypeInv, BatchOK, ProcOK
  <2>2. QED
    BY <1>1, <2>1, OrderQuiet
<1>5. CASE UNCHANGED vars \/ \E u \in Users : SyncUser(u)
  <2>1. UNCHANGED <<webhook, proc, mode, unanswered, stream, lastDelivered, memq, identity_events>>
    BY <1>5 DEF vars, SyncUser, queues
  <2>2. QED
    BY <1>1, <2>1, OrderQuiet
<1>6. CASE Process
  BY <1>1, <1>4, <1>6, OrderDequeueRedis, OrderDequeueMemory, OrderInsert, OrderAck DEF Process
<1>7. CASE Restart
  BY <1>1, <1>7, OrderRestart
<1>8. QED
  BY <1>2, <1>3, <1>a, <1>5, <1>6, <1>7 DEF Next

LEMMA OrderInvariant == Spec => []OrderInv
<1>1. Init => OrderInv
  BY OrderInit
<1>2. TypeInv /\ OrderInv /\ [Next]_vars => OrderInv'
  BY OrderStep
<1>3. QED
  BY <1>1, <1>2, TypeInvariant, PTL DEF Spec

\* Rows are in the order of their request, except those of events with an XADD
\* that was not answered, and in the order of the stream when they came through
\* Redis; an event whose XADDs were answered has one row at most (processEvent,
\* RedisEventQueue, InMemoryEventQueue).
THEOREM OrderKept == Spec => []StoredInOrder
<1>1. OrderInv => StoredInOrder
  BY DEF OrderInv, RowOrder
<1>2. QED
  BY <1>1, OrderInvariant, PTL

-----------------------------------------------------------------------------
(* Acknowledgement.                                                        *)

\* The entry p of the stream, event d, has a row of its own.
HasRow(p, d) == \E i \in Rows : identity_events[i].id = p /\ identity_events[i].d = d

\* What is acknowledged has a row, and what is about to be acknowledged too.
AckInv ==
  /\ proc.pc = "ack" => Current.id # 0 /\ HasRow(Current.id, Current.d)
  /\ \A p \in 1 .. lastDelivered : p \notin pel => HasRow(p, stream[p])

\* The rows after an INSERT that took effect.
LEMMA RowAdded ==
  ASSUME TypeInv, NEW r \in Row, identity_events' = Append(identity_events, r)
  PROVE  \E n \in Nat : /\ n = Len(identity_events) /\ Rows = 1 .. n /\ Rows' = 1 .. n + 1
                        /\ \A i \in Rows : identity_events'[i] = identity_events[i]
                        /\ identity_events'[n + 1] = r
<1>1. PICK n \in Nat : n = Len(identity_events)
  BY Things
<1>2. identity_events \in Seq(Row)
  BY DEF TypeInv, RestOK
<1>3. /\ DOMAIN identity_events = 1 .. Len(identity_events)
      /\ DOMAIN identity_events' = 1 .. Len(identity_events) + 1
      /\ \A i \in DOMAIN identity_events : identity_events'[i] = identity_events[i]
      /\ identity_events'[Len(identity_events) + 1] = r
  BY <1>2, Grown
<1>4. QED
  BY <1>1, <1>3 DEF Rows

\* Only Insert adds rows, and none is removed.
LEMMA RowsStay ==
  ASSUME TypeInv, [Next]_vars
  PROVE  \A i \in Rows : i \in Rows' /\ identity_events'[i] = identity_events[i]
<1> DEFINE P == \A i \in Rows : i \in Rows' /\ identity_events'[i] = identity_events[i]
<1>1. ASSUME identity_events' = identity_events PROVE P
  BY <1>1 DEF Rows
<1>2. ASSUME NEW r \in Row, identity_events' = Append(identity_events, r) PROVE P
  <2>1. PICK n \in Nat : /\ Rows = 1 .. n /\ Rows' = 1 .. n + 1
                         /\ \A i \in Rows : identity_events'[i] = identity_events[i]
    BY <1>2, RowAdded
  <2>2. QED
    BY <2>1
<1>3. CASE Insert
  BY <1>1, <1>2, <1>3, InsertFacts
<1>4. CASE Process
  BY <1>1, <1>3, <1>4
  DEF Process, DequeueRedis, DequeueMemory, DequeueReturns, Resolve, Ack
<1>5. ASSUME NEW w \in Webhooks, Receive(w) \/ Enqueue(w) PROVE P
  BY <1>1, <1>5 DEF Receive, Enqueue, EnqueueRedis, EnqueueMemory
<1>6. ASSUME NEW e \in Deliveries, Arrive(e) PROVE P
  BY <1>1, <1>6 DEF Arrive
<1>7. CASE UNCHANGED vars \/ Restart \/ \E u \in Users : SyncUser(u)
  BY <1>1, <1>7 DEF vars, Restart, SyncUser
<1>8. QED
  BY <1>4, <1>5, <1>6, <1>7 DEF Next

LEMMA StoredStays ==
  ASSUME TypeInv, [Next]_vars, NEW d
  PROVE  /\ Stored(d) => Stored(d)'
         /\ \A p : HasRow(p, d) => \E i \in Rows' : /\ identity_events'[i].id = p
                                                   /\ identity_events'[i].d = d
BY RowsStay DEF Stored, HasRow

\* What has been delivered stays where it is in the stream.
LEMMA StreamStays ==
  ASSUME TypeInv, [Next]_vars
  PROVE  \A p \in DOMAIN stream : p \in DOMAIN stream' /\ stream'[p] = stream[p]
<1>1. ASSUME stream' = stream
      PROVE  \A p \in DOMAIN stream : p \in DOMAIN stream' /\ stream'[p] = stream[p]
  BY <1>1
<1>2. ASSUME NEW w \in Webhooks, EnqueueRedis(w)
      PROVE  \A p \in DOMAIN stream : p \in DOMAIN stream' /\ stream'[p] = stream[p]
  <2>1. PICK e \in Deliveries : e = <<w, webhook[w].next>>
    BY <1>2, EnqueueTypes DEF Enqueue
  <2>2. stream' = stream \/ stream' = Append(stream, e)
    BY <1>2, <2>1 DEF EnqueueRedis
  <2>3. CASE stream' = Append(stream, e)
    <3>1. stream \in Seq(Deliveries)
      BY DEF TypeInv, QueuesOK
    <3>2. /\ Len(stream) \in Nat /\ DOMAIN stream = 1 .. Len(stream)
          /\ DOMAIN stream' = 1 .. Len(stream) + 1
          /\ \A p \in DOMAIN stream : stream'[p] = stream[p]
      BY <2>3, <3>1, Grown
    <3>3. QED
      BY <3>2
  <2>4. QED
    BY <1>1, <2>2, <2>3
<1>a. ASSUME NEW d \in Deliveries, Arrive(d)
      PROVE  \A p \in DOMAIN stream : p \in DOMAIN stream' /\ stream'[p] = stream[p]
  BY <1>a, ArriveFacts
<1>3. ASSUME NEW w \in Webhooks, Receive(w) \/ EnqueueMemory(w) PROVE stream' = stream
  BY <1>3 DEF Receive, queues, EnqueueMemory
<1>4. Process => stream' = stream
  BY DEF Process, DequeueRedis, DequeueMemory, DequeueReturns, Resolve, Insert, Ack, queues
<1>5. UNCHANGED vars \/ Restart \/ (\E u \in Users : SyncUser(u)) => stream' = stream
  BY DEF vars, Restart, SyncUser, queues
<1>6. QED
  BY <1>1, <1>2, <1>a, <1>3, <1>4, <1>5 DEF Next, Enqueue

LEMMA AckInit == Init => AckInv
<1>1. Init => lastDelivered = 0 /\ proc.pc = "poll"
  BY DEF Init, Idle
<1>2. QED
  BY <1>1 DEF AckInv

LEMMA AckStep == TypeInv /\ OrderInv /\ AckInv /\ [Next]_vars => AckInv'
<1> SUFFICES ASSUME TypeInv, OrderInv, AckInv, [Next]_vars PROVE AckInv'
  OBVIOUS
<1>1. \A p \in 1 .. lastDelivered : stream'[p] = stream[p]
  BY StreamStays, Things
<1> DEFINE Owned(p, d) == \E i \in Rows' : identity_events'[i].id = p /\ identity_events'[i].d = d
<1>2. \A p, d : HasRow(p, d) => Owned(p, d)
  BY StoredStays
<1>3. ASSUME \A p \in 1 .. lastDelivered' : p \notin pel' => p \in 1 .. lastDelivered /\ p \notin pel
      PROVE  \A p \in 1 .. lastDelivered' : p \notin pel' => Owned(p, stream'[p])
  BY <1>1, <1>2, <1>3 DEF AckInv
<1>4. ASSUME UNCHANGED <<lastDelivered, pel>>,
             proc'.pc = "ack" => proc.pc = "ack" /\ proc'.batch = proc.batch
      PROVE  AckInv'
  <2>1. proc'.pc = "ack" => Current'.id # 0 /\ Owned(Current'.id, Current'.d)
    BY <1>2, <1>4 DEF AckInv, Current
  <2>2. QED
    BY <1>3, <1>4, <2>1 DEF AckInv, HasRow
<1>5. ASSUME NEW w \in Webhooks, Receive(w) \/ Enqueue(w) PROVE AckInv'
  BY <1>4, <1>5 DEF Receive, Enqueue, EnqueueRedis, EnqueueMemory, queues
<1>a. ASSUME NEW d \in Deliveries, Arrive(d) PROVE AckInv'
  BY <1>4, <1>a DEF Arrive
<1>6. CASE UNCHANGED vars \/ Restart \/ \E u \in Users : SyncUser(u)
  BY <1>4, <1>6 DEF vars, Restart, SyncUser, queues, Idle
<1>7. CASE DequeueReturns \/ Resolve \/ DequeueMemory
  <2>1. UNCHANGED <<lastDelivered, pel>> /\ proc'.pc # "ack"
    BY <1>7 DEF DequeueReturns, Resolve, DequeueMemory, queues, TypeInv, BatchOK, ProcOK
  <2>2. QED
    BY <1>4, <2>1
<1>8. CASE DequeueRedis
  <2>1. PICK n \in Nat : /\ lastDelivered' = lastDelivered + n
                         /\ pel' = pel \cup (lastDelivered + 1 .. lastDelivered + n)
                         /\ proc'.pc # "ack"
    BY <1>8, Sizes, DequeueRedisFacts
  <2>2. \A p \in 1 .. lastDelivered' : p \notin pel' => p \in 1 .. lastDelivered /\ p \notin pel
    BY <2>1, Things
  <2>3. QED
    BY <1>3, <2>1, <2>2 DEF AckInv, HasRow
<1>9. CASE Insert
  <2>1. PICK o \in Outcomes, s \in {0, 1} :
          /\ proc.pc = "insert" /\ UNCHANGED queues
          /\ o # "error" => \E r \in Row :
               /\ r = [d |-> Current.d, id |-> Current.id, identity |-> proc.found]
               /\ identity_events' = Append(identity_events, r)
          /\ s = 0 => /\ o = "ok" /\ Current.id # 0 /\ proc'.batch = proc.batch
          /\ s = 1 => proc'.pc # "ack"
    BY <1>9, InsertFacts, AdvanceFacts
  <2>2. UNCHANGED <<lastDelivered, pel>>
    BY <2>1 DEF queues
  <2>3. CASE s = 1
    BY <1>4, <2>1, <2>2, <2>3
  <2>4. CASE s = 0
    <3>1. PICK r \in Row : /\ r.d = Current.d /\ r.id = Current.id
                           /\ identity_events' = Append(identity_events, r)
      BY <2>1, <2>4
    <3>2. PICK n \in Nat : Rows' = 1 .. n + 1 /\ identity_events'[n + 1] = r
      BY <3>1, RowAdded
    <3>3. Owned(Current.id, Current.d)
      BY <3>1, <3>2
    <3>4. Current' = Current /\ Current.id # 0
      BY <2>1, <2>4 DEF Current
    <3>5. QED
      BY <1>3, <2>2, <3>3, <3>4 DEF AckInv, HasRow
  <2>5. QED
    BY <2>3, <2>4
<1>10. CASE Ack
  <2>1. /\ proc.pc = "ack" /\ Advance /\ proc.batch # <<>> /\ lastDelivered' = lastDelivered
        /\ pel' = pel \/ pel' = pel \ {Current.id}
    BY <1>10 DEF Ack, TypeInv, BatchOK, ProcOK
  <2>2. proc'.pc # "ack"
    BY <2>1, AdvanceFacts
  <2>3. /\ Current = proc.batch[1] /\ 1 \in Batch /\ Current.id # 0
        /\ HasRow(Current.id, Current.d)
    BY <2>1, InHand DEF AckInv
  <2>4. stream[Current.id] = Current.d
    BY <2>3 DEF OrderInv, BatchOrder, TypeInv, QueuesOK
  <2>5. \A p \in 1 .. lastDelivered : p \notin pel' => HasRow(p, stream[p])
    BY <2>1, <2>3, <2>4 DEF AckInv
  <2>6. \A p \in 1 .. lastDelivered : p \notin pel' => Owned(p, stream'[p])
    BY <1>1, <1>2, <2>5
  <2>7. QED
    BY <2>1, <2>2, <2>6 DEF AckInv, HasRow
<1>11. QED
  BY <1>5, <1>a, <1>6, <1>7, <1>8, <1>9, <1>10 DEF Next, Process

LEMMA AckInvariant == Spec => []AckInv
BY AckInit, AckStep, TypeInvariant, OrderInvariant, PTL DEF Spec

\* An entry of the stream that is neither undelivered nor pending has a row of
\* its own: RedisEventQueue.Acknowledge only follows a successful INSERT.
THEOREM AcksAreEarned == Spec => []AckedIsStored
<1>1. AckInv => AckedIsStored
  BY DEF AckInv, AckedIsStored, HasRow
<1>2. QED
  BY <1>1, AckInvariant, PTL

-----------------------------------------------------------------------------
(* Identities.                                                             *)

\* Whoever was resolved when an event arrived stays resolved, a request that
\* has not arrived has no events, and the processor has found the identity of
\* the event in hand, or none, which takes a fault if it was there to find.
FreshInv ==
  /\ \A d \in knew : user[d] \in resolved
  /\ \A d \in knew : webhook[d[1]].pc # "none"
  /\ proc.pc = "insert" =>
       /\ proc.found \in {"none", user[Current.d]}
       /\ Current.d \in knew /\ proc.found = "none" => faults > 0
  /\ FreshResolution

LEMMA Outcome ==
  ASSUME faults \in Nat, NEW o, Charge(o)
  PROVE  faults' \in Nat /\ faults' >= faults /\ (o # "ok" => faults' > 0)
         /\ (o = "ok" => faults' = faults)
BY DEF Charge

LEMMA FaultsGrow ==
  ASSUME TypeInv, [Next]_vars
  PROVE  faults' >= faults /\ (Restart => faults' > 0)
<1>1. faults \in Nat
  BY DEF TypeInv, RestOK
<1>2. ASSUME NEW w \in Webhooks, Receive(w) \/ Enqueue(w) PROVE faults' >= faults
  BY <1>1, <1>2, Outcome DEF Receive, Enqueue, EnqueueRedis, EnqueueMemory
<1>3. Process => faults' >= faults
  BY <1>1, Outcome
  DEF Process, DequeueRedis, DequeueMemory, DequeueReturns, Resolve, Insert, Ack
<1>4. UNCHANGED vars \/ (\E u \in Users : SyncUser(u)) \/ (\E d \in Deliveries : Arrive(d)) =>
        faults' >= faults
  BY <1>1 DEF vars, SyncUser, Arrive
<1>5. Restart => faults' >= faults /\ faults' > 0
  BY <1>1 DEF Restart
<1>6. QED
  BY <1>2, <1>3, <1>4, <1>5 DEF Next

LEMMA FreshInit == Init => FreshInv
<1> SUFFICES ASSUME Init PROVE FreshInv
  OBVIOUS
<1>1. DOMAIN identity_events = {} /\ knew = {} /\ proc.pc = "poll"
  BY Blank DEF Init, Idle
<1>2. QED
  BY <1>1 DEF FreshInv, FreshResolution, Rows

\* A step that leaves users, rows and what the processor has found.
LEMMA FreshSame ==
  ASSUME TypeInv, FreshInv, [Next]_vars,
         UNCHANGED <<user, knew, identity_events>>, resolved \subseteq resolved',
         \A w \in Webhooks : webhook[w].pc # "none" => webhook'[w].pc # "none",
         proc'.pc = "insert" => proc' = proc
  PROVE  FreshInv'
<1>1. faults' >= faults /\ faults \in Nat /\ faults' \in Nat
  BY FaultsGrow, TypeStep DEF TypeInv, RestOK
<1>2. FreshResolution'
  BY <1>1 DEF FreshInv, FreshResolution, Rows
<1>3. \A d \in knew : d[1] \in Webhooks
  BY DeliveryFacts DEF TypeInv, RestOK
<1>4. QED
  BY <1>1, <1>2, <1>3 DEF FreshInv, Current

LEMMA FreshReceive ==
  ASSUME TypeInv, OrderInv, FreshInv, [Next]_vars, NEW w \in Webhooks, Receive(w)
  PROVE  FreshInv'
<1>1. /\ webhook[w].pc = "none" /\ webhook[w].next = 1
      /\ UNCHANGED <<queues, proc, identity_events, resolved, faults>>
  BY DEF Receive, TypeInv, RequestsOK, WebhookOK
<1>2. webhook'[w].pc # "none" /\ \A v \in Webhooks : v # w => webhook'[v] = webhook[v]
  BY DEF Receive, TypeInv, RequestsOK, Webhook
<1>3. CASE UNCHANGED <<user, knew>>
  <2>1. UNCHANGED <<user, knew, identity_events>> /\ resolved \subseteq resolved'
        /\ (proc'.pc = "insert" => proc' = proc)
    BY <1>1, <1>3
  <2>2. \A v \in Webhooks : webhook[v].pc # "none" => webhook'[v].pc # "none"
    BY <1>2
  <2>3. QED
    BY <2>1, <2>2, FreshSame
<1>4. CASE \E us \in [1 .. MaxEvents -> Who] :
             /\ user' = [d \in Deliveries |-> IF d[1] = w THEN us[d[2]] ELSE user[d]]
             /\ knew' = knew \cup {d \in Deliveries : d[1] = w /\ us[d[2]] \in resolved}
  <2>1. PICK us \in [1 .. MaxEvents -> Who] :
             /\ user' = [d \in Deliveries |-> IF d[1] = w THEN us[d[2]] ELSE user[d]]
             /\ knew' = knew \cup {d \in Deliveries : d[1] = w /\ us[d[2]] \in resolved}
    BY <1>4
  <2>2. /\ \A d \in Deliveries : d[1] = w => user'[d] = us[d[2]] /\ d \notin knew
        /\ \A d \in Deliveries : d[1] # w => user'[d] = user[d] /\ (d \in knew' <=> d \in knew)
        /\ knew \subseteq Deliveries
    BY <1>1, <2>1 DEF FreshInv, TypeInv, RestOK
  <2>3. \A d \in Deliveries : Sent(d) => d[1] # w
    BY <1>1, NoneSent
  <2>4. \A d \in knew' : user'[d] \in resolved /\ webhook'[d[1]].pc # "none"
    <3> SUFFICES ASSUME NEW d \in knew' PROVE user'[d] \in resolved /\ webhook'[d[1]].pc # "none"
      OBVIOUS
    <3>1. d \in Deliveries /\ d[1] \in Webhooks
      BY <2>1, <2>2, DeliveryFacts
    <3>2. CASE d[1] = w
      BY <1>2, <2>1, <2>2, <3>1, <3>2
    <3>3. CASE d[1] # w
      BY <1>2, <2>2, <3>1, <3>3 DEF FreshInv
    <3>4. QED
      BY <3>2, <3>3
  <2>5. FreshResolution'
    <3>1. \A i \in Rows : identity_events[i].d \in Deliveries /\ identity_events[i].d[1] # w
      BY <2>3, Things DEF OrderInv, RowOrder
    <3>2. QED
      BY <1>1, <2>2, <3>1 DEF FreshInv, FreshResolution, Rows
  <2>6. proc.pc = "insert" => Current.d \in Deliveries /\ Current.d[1] # w
    <3> SUFFICES ASSUME proc.pc = "insert" PROVE Current.d \in Deliveries /\ Current.d[1] # w
      OBVIOUS
    <3>1. Current = proc.batch[1] /\ 1 \in Batch /\ Current.d \in Deliveries
      BY InHand DEF TypeInv, BatchOK, ProcOK
    <3>2. QED
      BY <2>3, <3>1 DEF OrderInv, BatchOrder
  <2>7. Current' = Current
    BY <1>1 DEF Current
  <2>8. QED
    BY <1>1, <2>2, <2>4, <2>5, <2>6, <2>7 DEF FreshInv
<1>5. QED
  BY <1>3, <1>4 DEF Receive

LEMMA FreshResolve ==
  ASSUME TypeInv, FreshInv, [Next]_vars, Resolve
  PROVE  FreshInv'
<1>1. PICK o \in {"ok", "error"} :
        /\ proc' = [proc EXCEPT !.pc = "insert", !.found =
             IF o = "ok" /\ user[Current.d] \in resolved THEN user[Current.d] ELSE "none"]
        /\ Charge(o) /\ UNCHANGED <<webhook, user, identity_events, resolved, knew>>
  BY DEF Resolve
<1>2. /\ proc'.found = IF o = "ok" /\ user[Current.d] \in resolved
                         THEN user[Current.d] ELSE "none"
      /\ proc'.batch = proc.batch
  BY <1>1 DEF TypeInv, BatchOK, ProcOK
<1>3. Current' = Current
  BY <1>2 DEF Current
<1>4. faults \in Nat /\ faults' \in Nat /\ faults' >= faults /\ (o # "ok" => faults' > 0)
  BY <1>1, Outcome DEF TypeInv, RestOK
<1>5. "none" \notin resolved
  BY EventPipelineAssumption DEF TypeInv, RestOK
<1>6. Current.d \in knew /\ proc'.found = "none" => faults' > 0
  BY <1>2, <1>4, <1>5 DEF FreshInv
<1>7. FreshResolution'
  BY <1>1, <1>4 DEF FreshInv, FreshResolution, Rows
<1>8. QED
  BY <1>1, <1>2, <1>3, <1>6, <1>7 DEF FreshInv

LEMMA FreshInsert ==
  ASSUME TypeInv, FreshInv, [Next]_vars, Insert
  PROVE  FreshInv'
<1>1. PICK o \in Outcomes, s \in {0, 1} :
        /\ proc.pc = "insert"
        /\ UNCHANGED <<webhook, user, queues, resolved, knew>>
        /\ o = "error" => identity_events' = identity_events
        /\ o # "error" => \E r \in Row :
             /\ r = [d |-> Current.d, id |-> Current.id, identity |-> proc.found]
             /\ identity_events' = Append(identity_events, r)
        /\ s = 0 => proc'.pc = "ack"
        /\ s = 1 => Advance
  BY InsertFacts
<1>2. proc'.pc # "insert"
  BY <1>1, AdvanceFacts
<1>3. faults' >= faults /\ faults \in Nat /\ faults' \in Nat
  BY FaultsGrow, TypeStep DEF TypeInv, RestOK
<1>4. FreshResolution'
  <2>1. CASE identity_events' = identity_events
    BY <1>1, <1>3, <2>1 DEF FreshInv, FreshResolution, Rows
  <2>2. ASSUME NEW r \in Row, identity_events' = Append(identity_events, r),
               r = [d |-> Current.d, id |-> Current.id, identity |-> proc.found]
        PROVE  FreshResolution'
    <3>1. PICK n \in Nat : /\ Rows = 1 .. n /\ Rows' = 1 .. n + 1
                           /\ \A i \in Rows : identity_events'[i] = identity_events[i]
                           /\ identity_events'[n + 1] = r
      BY <2>2, RowAdded
    <3>2. /\ r.identity \in {"none", user[r.d]}
          /\ r.d \in knew /\ r.identity = "none" => faults > 0
      BY <1>1, <2>2 DEF FreshInv
    <3> SUFFICES ASSUME NEW i \in Rows'
                 PROVE  /\ identity_events'[i].identity \in {"none", user'[identity_events'[i].d]}
                        /\ identity_events'[i].d \in knew' /\ identity_events'[i].identity = "none" =>
                             faults' > 0
      BY DEF FreshResolution, Rows
    <3>3. CASE i \in Rows
      BY <1>1, <1>3, <3>1, <3>3 DEF FreshInv, FreshResolution, Rows
    <3>4. CASE i = n + 1
      BY <1>1, <1>3, <3>1, <3>2, <3>4
    <3>5. QED
      BY <3>1, <3>3, <3>4
  <2>3. QED
    BY <1>1, <2>1, <2>2
<1>5. QED
  BY <1>1, <1>2, <1>4 DEF FreshInv

LEMMA FreshStep == TypeInv /\ OrderInv /\ FreshInv /\ [Next]_vars => FreshInv'
<1> SUFFICES ASSUME TypeInv, OrderInv, FreshInv, [Next]_vars PROVE FreshInv'
  OBVIOUS
<1>1. ASSUME NEW w \in Webhooks, Enqueue(w) PROVE FreshInv'
  <2>1. /\ webhook[w].pc = "enqueue" /\ (Pass(w) \/ UNCHANGED webhook)
        /\ UNCHANGED <<user, knew, identity_events, resolved, proc>>
    BY <1>1 DEF Enqueue, EnqueueRedis, EnqueueMemory
  <2>2. \A v \in Webhooks : webhook[v].pc # "none" => webhook'[v].pc # "none"
    <3>1. Pass(w) => /\ webhook'[w].pc # "none"
                     /\ \A v \in Webhooks : v # w => webhook'[v] = webhook[v]
      BY <2>1, PassOK DEF TypeInv
    <3>2. QED
      BY <2>1, <3>1
  <2>3. QED
    BY <2>1, <2>2, FreshSame
<1>2. CASE Restart
  <2>1. proc'.pc # "insert" /\ UNCHANGED <<user, knew, identity_events, resolved>>
    BY <1>2 DEF Restart, Idle
  <2>2. \A v \in Webhooks : webhook[v].pc # "none" => webhook'[v].pc # "none"
    <3> SUFFICES ASSUME NEW v \in Webhooks, webhook[v].pc # "none" PROVE webhook'[v].pc # "none"
      OBVIOUS
    <3>1. webhook[v] \in Webhook
      BY DEF TypeInv, RequestsOK
    <3>2. webhook'[v] = IF webhook[v].pc = "enqueue" THEN [webhook[v] EXCEPT !.pc = "dead"]
                        ELSE webhook[v]
      BY <1>2, RestartTypes
    <3>3. QED
      BY <3>1, <3>2 DEF Webhook
  <2>3. QED
    BY <2>1, <2>2, FreshSame
<1>3. CASE DequeueRedis \/ DequeueMemory \/ DequeueReturns \/ Ack
  <2>1. UNCHANGED <<webhook, user, knew, identity_events, resolved>>
    BY <1>3 DEF DequeueRedis, DequeueMemory, DequeueReturns, Ack
  <2>2. proc'.pc # "insert"
    <3>1. CASE DequeueRedis
      BY <3>1, DequeueRedisFacts
    <3>2. CASE DequeueMemory \/ DequeueReturns
      BY <3>2 DEF DequeueMemory, DequeueReturns, TypeInv, BatchOK, ProcOK
    <3>3. CASE Ack
      BY <3>3, AdvanceFacts DEF Ack
    <3>4. QED
      BY <1>3, <3>1, <3>2, <3>3
  <2>3. QED
    BY <2>1, <2>2, FreshSame
<1>4. CASE UNCHANGED vars \/ (\E u \in Users : SyncUser(u)) \/ \E d \in Deliveries : Arrive(d)
  BY <1>4, FreshSame DEF vars, SyncUser, Arrive
<1>5. QED
  BY <1>1, <1>2, <1>3, <1>4, FreshReceive, FreshResolve, FreshInsert DEF Next, Process

LEMMA FreshInvariant == Spec => []FreshInv
BY FreshInit, FreshStep, TypeInvariant, OrderInvariant, PTL DEF Spec

\* A row carries the identity of its event's own user or none, and none only
\* after a fault when that user was resolved before the event arrived
\* (processEvent's lookup in identity_sources).
THEOREM IdentitiesAreFresh == Spec => []FreshResolution
<1>1. FreshInv => FreshResolution
  BY DEF FreshInv
<1>2. QED
  BY <1>1, FreshInvariant, PTL

-----------------------------------------------------------------------------
(* No loss without a fault.                                                *)

\* The handler is done with d.
Passed(d) == d[2] < webhook[d[1]].next

\* While nothing has failed with Redis: what was sent is in the stream, and
\* what was delivered has a row or is in the processor's hands.
KeptInv ==
  faults = 0 /\ mode = "redis" =>
    /\ \A w \in Webhooks : webhook[w].pc # "dead"
    /\ \A d \in Deliveries : Received(d) /\ Passed(d) => \E p \in DOMAIN stream : stream[p] = d
    /\ \A p \in 1 .. lastDelivered :
         Stored(stream[p]) \/ \E i \in Batch : Pending(i) /\ proc.batch[i].d = stream[p]

LEMMA KeptInit == Init => KeptInv
<1> SUFFICES ASSUME Init PROVE KeptInv
  OBVIOUS
<1>1. \A w \in Webhooks : webhook[w].pc = "none"
  BY DEF Init
<1>2. \A d \in Deliveries : ~Received(d)
  BY <1>1, DeliveryFacts DEF Received
<1>3. lastDelivered = 0
  BY DEF Init
<1>4. QED
  BY <1>1, <1>2, <1>3 DEF KeptInv

\* Requests and queues are left alone; what the processor has in hand stays
\* in hand or gets its row.
LEMMA KeptSame ==
  ASSUME TypeInv, KeptInv, [Next]_vars, faults' = 0 => faults = 0,
         UNCHANGED <<webhook, mode, stream, lastDelivered>>,
         faults' = 0 /\ mode = "redis" => \A i \in Batch : Pending(i) =>
           \/ \E r \in Rows' : identity_events'[r].d = proc.batch[i].d
           \/ \E j \in Batch' : Pending(j)' /\ proc'.batch[j] = proc.batch[i]
  PROVE  KeptInv'
<1> SUFFICES ASSUME faults' = 0, mode = "redis"
             PROVE  /\ \A w \in Webhooks : webhook[w].pc # "dead"
                    /\ \A d \in Deliveries : Received(d) /\ Passed(d) =>
                         \E p \in DOMAIN stream : stream[p] = d
                    /\ \A p \in 1 .. lastDelivered :
                         \/ \E r \in Rows' : identity_events'[r].d = stream[p]
                         \/ \E i \in Batch' : Pending(i)' /\ proc'.batch[i].d = stream[p]
  BY DEF KeptInv, Received, Passed, Stored
<1>1. \A d : Stored(d) => \E r \in Rows' : identity_events'[r].d = d
  BY StoredStays DEF Stored
<1>2. QED
  BY <1>1 DEF KeptInv

LEMMA KeptReceive ==
  ASSUME TypeInv, KeptInv, [Next]_vars, NEW w \in Webhooks, Receive(w)
  PROVE  KeptInv'
<1>1. /\ webhook[w].pc = "none" /\ webhook[w].next = 1
      /\ UNCHANGED <<mode, stream, lastDelivered, proc, identity_events, faults>>
  BY DEF Receive, TypeInv, RequestsOK, WebhookOK, queues
<1>2. /\ webhook'[w].pc # "dead" /\ webhook'[w].next = 1
      /\ \A v \in Webhooks : v # w => webhook'[v] = webhook[v]
  BY DEF Receive, TypeInv, RequestsOK, RequestsOK, WebhookOK, Webhook
<1> SUFFICES ASSUME faults = 0, mode = "redis"
             PROVE  /\ \A v \in Webhooks : webhook'[v].pc # "dead"
                    /\ \A d \in Deliveries : Received(d)' /\ Passed(d)' =>
                         \E p \in DOMAIN stream : stream[p] = d
  BY <1>1 DEF KeptInv, Stored, Rows, Batch, Pending
<1>3. ASSUME NEW d \in Deliveries, Received(d)', Passed(d)'
      PROVE  \E p \in DOMAIN stream : stream[p] = d
  <2>1. d[1] # w
    BY <1>2, <1>3, DeliveryFacts DEF Passed
  <2>2. Received(d) /\ Passed(d)
    BY <1>2, <1>3, <2>1, DeliveryFacts DEF Received, Passed
  <2>3. QED
    BY <2>2 DEF KeptInv
<1>4. QED
  BY <1>2, <1>3 DEF KeptInv

LEMMA KeptEnqueue ==
  ASSUME TypeInv, KeptInv, [Next]_vars, NEW w \in Webhooks, Enqueue(w)
  PROVE  KeptInv'
<1> SUFFICES ASSUME faults' = 0, mode' = "redis"
             PROVE  KeptInv'
  BY DEF KeptInv
<1>e. PICK e \in Deliveries : e = <<w, webhook[w].next>>
  BY EnqueueTypes
<1>1. EnqueueRedis(w)
  BY DEF Enqueue, EnqueueMemory
<1>2. PICK o \in {"ok", "error", "lost", "again"} :
        /\ mode = "redis" /\ webhook[w].pc = "enqueue" /\ Charge(o)
        /\ o = "ok" => Pass(w) /\ stream' = Append(stream, e)
        /\ UNCHANGED <<mode, lastDelivered, proc, identity_events>>
  BY <1>1, <1>e DEF EnqueueRedis
<1>3. faults = 0 /\ o = "ok"
  BY <1>2, Outcome DEF TypeInv, RestOK
<1>4. stream' = Append(stream, e) /\ stream \in Seq(Deliveries)
  BY <1>2, <1>3 DEF TypeInv, QueuesOK
<1>5. /\ Len(stream) \in Nat /\ DOMAIN stream = 1 .. Len(stream)
      /\ DOMAIN stream' = 1 .. Len(stream) + 1
      /\ \A p \in DOMAIN stream : stream'[p] = stream[p]
      /\ stream'[Len(stream) + 1] = e
  BY <1>4, Grown
<1>6. /\ webhook'[w].next = webhook[w].next + 1 /\ webhook'[w].size = webhook[w].size
      /\ webhook'[w].pc # "dead"
      /\ \A v \in Webhooks : v # w => webhook'[v] = webhook[v]
  BY <1>2, <1>3, PassOK DEF TypeInv
<1>7. \A v \in Webhooks : webhook'[v].pc # "dead"
  BY <1>2, <1>3, <1>6 DEF KeptInv
<1>8. ASSUME NEW d \in Deliveries, Received(d)', Passed(d)'
      PROVE  \E p \in DOMAIN stream' : stream'[p] = d
  <2>1. CASE d = e
    BY <1>5, <2>1
  <2>2. CASE d # e
    <3>1. Received(d)
      BY <1>2, <1>6, <1>8, DeliveryFacts DEF Received
    <3>2. Passed(d)
      <4>1. CASE d[1] = w
        <5>1. d[2] # webhook[w].next
          BY <1>e, <2>2, <4>1, DeliveryFacts
        <5>2. webhook[w].next \in Nat /\ d[2] \in Nat /\ d[2] < webhook[w].next + 1
          BY <1>6, <1>8, <4>1, Sizes, DeliveryFacts DEF Passed, TypeInv, RequestsOK, Webhook
        <5>3. QED
          BY <4>1, <5>1, <5>2 DEF Passed
      <4>2. CASE d[1] # w
        BY <1>6, <1>8, <4>2, DeliveryFacts DEF Passed
      <4>3. QED
        BY <4>1, <4>2
    <3>3. PICK p \in DOMAIN stream : stream[p] = d
      BY <1>2, <1>3, <3>1, <3>2 DEF KeptInv
    <3>4. p \in DOMAIN stream' /\ stream'[p] = d
      BY <1>5, <3>3
    <3>5. QED
      BY <3>4
  <2>3. QED
    BY <2>1, <2>2
<1>9. ASSUME NEW p \in 1 .. lastDelivered'
      PROVE  \/ \E r \in Rows' : identity_events'[r].d = stream'[p]
             \/ \E i \in Batch' : Pending(i)' /\ proc'.batch[i].d = stream'[p]
  <2>1. p \in 1 .. lastDelivered /\ stream'[p] = stream[p]
    BY <1>2, <1>5, Things
  <2>2. QED
    BY <1>2, <1>3, <2>1 DEF KeptInv, Stored, Rows, Batch, Pending
<1>10. QED
  BY <1>7, <1>8, <1>9 DEF KeptInv, Stored

LEMMA KeptDequeue ==
  ASSUME TypeInv, OrderInv, KeptInv, [Next]_vars, DequeueRedis
  PROVE  KeptInv'
<1> SUFFICES ASSUME faults' = 0
             PROVE  KeptInv'
  BY DEF KeptInv
<1>1. PICK n \in 1 .. DequeueCount, o \in {"ok", "lost"} :
         /\ lastDelivered + n <= Len(stream) /\ lastDelivered' = lastDelivered + n
         /\ mode = "redis" /\ proc.pc = "poll" /\ Charge(o)
         /\ proc' = IF o = "lost" THEN proc
                      ELSE [pc |-> "resolve", batch |-> Taken(n), found |-> proc.found]
         /\ UNCHANGED <<webhook, mode, stream, identity_events>>
  BY DequeueRedisFacts
<1>2. faults = 0 /\ o = "ok"
  BY <1>1, Outcome DEF TypeInv, RestOK
<1>3. n \in Nat /\ lastDelivered \in Nat
  BY Sizes, Things
<1>4. Batch = {}
  BY <1>1, Blank DEF OrderInv, BatchOrder, Batch
<1>5. proc'.pc = "resolve" /\ proc'.batch = Taken(n)
  BY <1>1, <1>2
<1>6. /\ DOMAIN Taken(n) = 1 .. n
      /\ \A i \in 1 .. n : Taken(n)[i].d = stream[lastDelivered + i]
  BY <1>1, <1>3, TakenFacts DEF TypeInv
<1>7. Batch' = 1 .. n /\ \A i \in 1 .. n : proc'.batch[i].d = stream[lastDelivered + i]
  BY <1>5, <1>6 DEF Batch
<1>8. ASSUME NEW p \in 1 .. lastDelivered'
      PROVE  \/ \E r \in Rows' : identity_events'[r].d = stream'[p]
             \/ \E i \in Batch' : Pending(i)' /\ proc'.batch[i].d = stream'[p]
  <2>1. CASE p \in 1 .. lastDelivered
    BY <1>1, <1>2, <1>4, <2>1 DEF KeptInv, Stored, Rows
  <2>2. CASE p \notin 1 .. lastDelivered
    <3>1. PICK i \in 1 .. n : p = lastDelivered + i
      <4>1. p - lastDelivered \in 1 .. n /\ p = lastDelivered + (p - lastDelivered)
        BY <1>1, <1>3, <2>2
      <4>2. QED
        BY <4>1
    <3>2. i \in Batch' /\ proc'.batch[i].d = stream'[p] /\ Pending(i)'
      BY <1>1, <1>5, <1>7, <3>1 DEF Pending
    <3>3. QED
      BY <3>2
  <2>3. QED
    BY <2>1, <2>2
<1>9. /\ \A w \in Webhooks : webhook'[w].pc # "dead"
      /\ \A d \in Deliveries : Received(d)' /\ Passed(d)' => \E p \in DOMAIN stream' : stream'[p] = d
  BY <1>1, <1>2 DEF KeptInv, Received, Passed
<1>10. QED
  BY <1>8, <1>9 DEF KeptInv, Stored

LEMMA KeptInsert ==
  ASSUME TypeInv, KeptInv, [Next]_vars, Insert
  PROVE  KeptInv'
<1>1. PICK o \in Outcomes, s \in {0, 1} :
        /\ proc.pc = "insert" /\ proc.batch # <<>> /\ Charge(o)
        /\ UNCHANGED <<webhook, queues>>
        /\ o # "error" => \E r \in Row :
             /\ r = [d |-> Current.d, id |-> Current.id, identity |-> proc.found]
             /\ identity_events' = Append(identity_events, r)
        /\ s = 0 => proc'.pc = "ack" /\ proc'.batch = proc.batch
        /\ s = 1 => Advance
  BY InsertFacts
<1>2. faults' = 0 => faults = 0 /\ o = "ok"
  BY <1>1, Outcome DEF TypeInv, RestOK
<1>3. ASSUME faults' = 0, NEW i \in Batch
      PROVE  \/ \E r \in Rows' : identity_events'[r].d = proc.batch[i].d
             \/ \E j \in Batch' : Pending(j)' /\ proc'.batch[j] = proc.batch[i]
  <2>1. CASE i = 1
    <3>1. Current = proc.batch[1]
      BY <1>1, InHand
    <3>2. PICK r \in Row : r.d = Current.d /\ identity_events' = Append(identity_events, r)
      BY <1>1, <1>2, <1>3
    <3>3. PICK n \in Nat : Rows' = 1 .. n + 1 /\ identity_events'[n + 1] = r
      BY <3>2, RowAdded
    <3>4. n + 1 \in Rows' /\ identity_events'[n + 1].d = proc.batch[i].d
      BY <2>1, <3>1, <3>2, <3>3
    <3>5. QED
      BY <3>4
  <2>2. CASE i # 1
    <3>1. i > 1
      BY <2>2, Things
    <3>2. CASE s = 0
      BY <1>1, <3>1, <3>2 DEF Pending, Batch
    <3>3. CASE s = 1
      BY <1>1, <2>2, <3>3, AdvanceFacts DEF Pending
    <3>4. QED
      BY <3>2, <3>3
  <2>3. QED
    BY <2>1, <2>2
<1>4. UNCHANGED <<webhook, mode, stream, lastDelivered>>
  BY <1>1 DEF queues
<1>5. QED
  BY <1>2, <1>3, <1>4, KeptSame

LEMMA KeptStep == TypeInv /\ OrderInv /\ KeptInv /\ [Next]_vars => KeptInv'
<1> SUFFICES ASSUME TypeInv, OrderInv, KeptInv, [Next]_vars PROVE KeptInv'
  OBVIOUS
<1>1. faults' = 0 => faults = 0
  BY FaultsGrow DEF TypeInv, RestOK
<1>2. CASE Restart
  BY <1>2, FaultsGrow DEF KeptInv
<1>3. CASE DequeueMemory
  <2>1. mode' # "redis"
    BY <1>3 DEF DequeueMemory
  <2>2. QED
    BY <2>1 DEF KeptInv
<1>4. CASE DequeueReturns \/ Resolve
  <2>1. /\ UNCHANGED <<webhook, mode, stream, lastDelivered>>
        /\ proc'.batch = proc.batch /\ proc'.pc # "ack"
    BY <1>4 DEF DequeueReturns, Resolve, queues, TypeInv, BatchOK, ProcOK
  <2>2. \A i \in Batch : i \in Batch' /\ Pending(i)' /\ proc'.batch[i] = proc.batch[i]
    BY <2>1 DEF Batch, Pending
  <2>3. QED
    BY <1>1, <2>1, <2>2, KeptSame
<1>5. CASE Ack
  <2>1. /\ UNCHANGED <<webhook, mode, stream, lastDelivered>>
        /\ proc.pc = "ack" /\ Advance
    BY <1>5 DEF Ack
  <2>2. \A i \in Batch : Pending(i) =>
          \E j \in Batch' : Pending(j)' /\ proc'.batch[j] = proc.batch[i]
    <3> SUFFICES ASSUME NEW i \in Batch, Pending(i)
                 PROVE  \E j \in Batch' : Pending(j)' /\ proc'.batch[j] = proc.batch[i]
      OBVIOUS
    <3>1. i # 1
      BY <2>1 DEF Pending
    <3>2. i - 1 \in Batch' /\ proc'.batch[i - 1] = proc.batch[i] /\ proc'.pc # "ack"
      BY <2>1, <3>1, AdvanceFacts
    <3>3. QED
      BY <3>2 DEF Pending
  <2>3. QED
    BY <1>1, <2>1, <2>2, KeptSame
<1>6. CASE UNCHANGED vars \/ \E u \in Users : SyncUser(u)
  <2>1. UNCHANGED <<webhook, mode, stream, lastDelivered, proc>>
    BY <1>6 DEF vars, SyncUser, queues
  <2>2. \A i \in Batch : Pending(i) => i \in Batch' /\ Pending(i)' /\ proc'.batch[i] = proc.batch[i]
    BY <2>1 DEF Batch, Pending
  <2>3. QED
    BY <1>1, <2>1, <2>2, KeptSame
<1>a. ASSUME NEW d \in Deliveries, Arrive(d) PROVE KeptInv'
  <2> SUFFICES ASSUME faults' = 0, mode' = "redis" PROVE KeptInv'
    BY DEF KeptInv
  <2>1. /\ \A p \in DOMAIN stream : p \in DOMAIN stream' /\ stream'[p] = stream[p]
        /\ UNCHANGED <<webhook, mode, lastDelivered, proc, identity_events, faults>>
    BY <1>a, ArriveFacts
  <2>2. \A p \in 1 .. lastDelivered : stream'[p] = stream[p]
    BY <2>1, Things
  <2>3. \A e : Received(e)' /\ Passed(e)' => Received(e) /\ Passed(e)
    BY <2>1 DEF Received, Passed
  <2>4. QED
    BY <2>1, <2>2, <2>3 DEF KeptInv, Stored, Rows, Batch, Pending
<1>7. QED
  BY <1>2, <1>3, <1>4, <1>5, <1>6, <1>a, KeptReceive, KeptEnqueue, KeptDequeue, KeptInsert
  DEF Next, Process

LEMMA KeptInvariant == Spec => []KeptInv
BY KeptInit, KeptStep, TypeInvariant, OrderInvariant, PTL DEF Spec

\* Without a fault, an event sent to a backend that uses Redis is not lost;
\* the channel drops events when it is full, and the webhook is told that
\* they are accepted all the same.
NoLossWithoutFault ==
  faults = 0 /\ mode = "redis" => \A d \in Deliveries : FateOf(d) # "lost"

\* Without a fault nothing that a backend with Redis accepted is lost: it is
\* still to be enqueued, in the stream, in the processor's hands or has its row.
THEOREM NothingIsLost == Spec => []NoLossWithoutFault
<1>1. ASSUME TypeInv, KeptInv, faults = 0, mode = "redis",
             NEW d \in Deliveries, FateOf(d) = "lost"
      PROVE  FALSE
  <2>2. /\ Received(d) /\ ~Stored(d) /\ ~Queued(d)
        /\ ~(webhook[d[1]].pc = "enqueue" /\ d[2] >= webhook[d[1]].next)
    BY <1>1 DEF FateOf, InFlight, Todo
  <2>3. ~Stored(d)
    BY <2>2
  <2>4. d[1] \in Webhooks /\ d[2] \in Nat /\ webhook[d[1]] \in Webhook
        /\ webhook[d[1]].next \in Nat /\ webhook[d[1]].size \in Nat
    BY <1>1, DeliveryFacts, Sizes DEF TypeInv, RequestsOK, Webhook
  <2>5. Passed(d)
    BY <1>1, <2>2, <2>4 DEF Received, Passed, KeptInv, TypeInv, RequestsOK, WebhookOK
  <2>6. PICK p \in DOMAIN stream : stream[p] = d
    BY <1>1, <2>2, <2>5 DEF KeptInv
  <2>7. CASE p \in 1 .. lastDelivered
    BY <1>1, <2>2, <2>3, <2>6, <2>7 DEF KeptInv, Queued, Batch, Pending
  <2>8. CASE p \notin 1 .. lastDelivered
    BY <1>1, <2>2, <2>6, <2>8, Things DEF Queued
  <2>9. QED
    BY <2>7, <2>8
<1>2. TypeInv /\ KeptInv => NoLossWithoutFault
  BY <1>1 DEF NoLossWithoutFault
<1>3. QED
  BY <1>2, TypeInvariant, KeptInvariant, PTL

=============================================================================
