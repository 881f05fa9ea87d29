-------------------------- MODULE ApiListingProofs --------------------------
(***************************************************************************)
(* No connector sends more requests than its provider allows and one, and  *)
(* a list that ends has all that was there from beginning to end, with the *)
(* exceptions that the properties name, for any items and any throttle,    *)
(* limit, window, backoff, page size and number of retries and lists that  *)
(* keep the assumptions.                                                   *)
(*                                                                         *)
(* The argument for the rate: the time a request is sent is at most one    *)
(* throttle short of what its place among the requests asks for.  The      *)
(* request after it waits for a throttle since the limiter let the first   *)
(* one go; a retry waits for two, which pays for itself and for the next   *)
(* request, that need not wait at all.  Lists follow each other behind one *)
(* limiter, and nothing of this is said of a list.  After a signal only    *)
(* GCP's connector sends requests.                                         *)
(*                                                                         *)
(* For the list: what lies before the cursor or the offset is listed.  A   *)
(* page that is shorter than asked for has all the rest, because the first *)
(* n of a list are n unless it has no more; an item that comes moves none  *)
(* forward, one that goes may, past an offset.                             *)
(***************************************************************************)
EXTENDS ApiListing, TLAPS, FiniteSetTheorems, WellFoundedInduction

\* a throttles.  The proofs only use the three facts below.
Slots == [a \in Int |-> a * Throttle]

\* Throttling sets a positive pause.
LEMMA ThrottleFact == Throttle \in Nat /\ Throttle > 0
BY LimiterAssumption

\* Slots are one throttle apart.
LEMMA SlotFacts == /\ Slots \in [Int -> Int]
                   /\ \A a \in Int : Slots[a + 1] = Slots[a] + Throttle
                   /\ Slots[0] = 0
<1>1. Throttle \in Int
  BY ThrottleFact
<1>2. \A a \in Int : a * Throttle \in Int
  BY <1>1
<1>3. \A a \in Int : (a + 1) * Throttle = a * Throttle + Throttle
  BY <1>1, Z3
<1>4. 0 * Throttle = 0
  BY <1>1
<1> QED
  BY <1>1, <1>2, <1>3, <1>4 DEF Slots

\* Any two requests are as far apart as all but one between them ask for.
Spread(s) == \A m, n \in 1 .. Len(s) : m <= n => Slots[n - m - 1] <= s[n] - s[m]

Past(s, t) == \A m \in 1 .. Len(s) : s[m] <= t

\* A request may go at t, when the limiter let it or its first attempt go at l.
Ready(s, l, t) ==
    \A m \in 1 .. Len(s) : \/ Slots[Len(s) - m] <= l - s[m]
                           \/ Slots[Len(s) - m + 1] <= t - s[m]

\* After a request: the throttle since l, or the pause of a retry, pays.
Rested(s, l) ==
    \A m \in 1 .. Len(s) : \/ Slots[Len(s) - m] <= l + Throttle - s[m]
                           \/ Slots[Len(s) - m] <= s[Len(s)] - s[m]

\* A request that keeps its slot keeps the spread of the requests sent.
LEMMA Sending ==
    ASSUME NEW s \in Seq(Nat), NEW l \in Nat, NEW t \in Nat,
           Spread(s), Past(s, t), l <= t, Ready(s, l, t)
    PROVE  LET u == Append(s, t)
           IN /\ u \in Seq(Nat)
              /\ Len(u) = Len(s) + 1 /\ u[Len(u)] = t
              /\ Spread(u) /\ Past(u, t) /\ Rested(u, l)
<1> DEFINE u == Append(s, t)
           k == Len(s)
<1>1. /\ u \in Seq(Nat) /\ k \in Nat
      /\ Len(u) = k + 1 /\ u[k + 1] = t
      /\ \A m \in 1 .. k : u[m] = s[m] /\ s[m] \in Nat
  OBVIOUS
<1> HIDE DEF u, k
<1>2. \A m \in 1 .. k : s[m] <= t
  BY DEF Past, k
<1>3. ASSUME NEW m \in 1 .. k
      PROVE  \/ Slots[k + 1 - m] <= l + Throttle - s[m]
             \/ Slots[k + 1 - m] <= t - s[m]
  <2>1. \/ Slots[k - m] <= l - s[m] \/ Slots[k - m + 1] <= t - s[m]
    BY DEF Ready, k
  <2>2. Slots[k - m + 1] = Slots[k - m] + Throttle /\ Slots[k - m] \in Int
    <3>1. k - m \in Int
      BY <1>1
    <3> QED
      BY <3>1, SlotFacts
  <2>3. k - m + 1 = k + 1 - m
    BY <1>1
  <2>4. s[m] \in Nat /\ Slots[k + 1 - m] = Slots[k - m] + Throttle
    BY <1>1, <2>2, <2>3
  <2> QED
    BY <2>1, <2>2, <2>3, <2>4, ThrottleFact
<1>4. Rested(u, l)
  <2>1. ASSUME NEW m \in 1 .. k + 1
        PROVE  \/ Slots[k + 1 - m] <= l + Throttle - u[m]
               \/ Slots[k + 1 - m] <= u[k + 1] - u[m]
    <3>1. CASE m \in 1 .. k
      BY <3>1, <1>1, <1>3
    <3>2. CASE m = k + 1
      <4>1. k + 1 - m = 0
        BY <3>2, <1>1
      <4> QED
        BY <4>1, <3>2, <1>1, SlotFacts
    <3> QED
      BY <1>1, <3>1, <3>2
  <2> QED
    BY <2>1, <1>1 DEF Rested
<1>5. Past(u, t)
  BY <1>1, <1>2 DEF Past
<1>6. Spread(u)
  <2>1. ASSUME NEW m \in 1 .. k + 1, NEW n \in 1 .. k + 1, m <= n
        PROVE  Slots[n - m - 1] <= u[n] - u[m]
    <3>1. CASE n \in 1 .. k
      <4>1. m \in 1 .. k
        BY <2>1, <3>1, <1>1
      <4>2. Slots[n - m - 1] <= s[n] - s[m]
        BY <2>1, <3>1, <4>1 DEF Spread, k
      <4> QED
        BY <3>1, <4>1, <4>2, <1>1
    <3>2. CASE n = k + 1 /\ m \in 1 .. k
      <4>1. n - m - 1 = k - m /\ k - m + 1 = k + 1 - m /\ k - m \in Int
        BY <3>2, <1>1
      <4>2. \/ Slots[k - m] <= l - s[m] \/ Slots[k - m + 1] <= t - s[m]
        BY <3>2 DEF Ready, k
      <4>3. Slots[k - m + 1] = Slots[k - m] + Throttle /\ Slots[k - m] \in Int
        BY <4>1, SlotFacts
      <4>4. u[n] = t /\ u[m] = s[m] /\ s[m] \in Nat
        BY <3>2, <1>1
      <4>5. Slots[k - m] <= t - s[m]
        BY <4>2, <4>3, <4>4, ThrottleFact
      <4> QED
        BY <4>1, <4>4, <4>5
    <3>3. CASE n = k + 1 /\ m = k + 1
      <4>1. n - m - 1 = 0 - 1 /\ 0 - 1 \in Int /\ (0 - 1) + 1 = 0
        BY <3>3, <1>1
      <4>2. Slots[0 - 1] \in Int /\ Slots[(0 - 1) + 1] = Slots[0 - 1] + Throttle
        BY <4>1, SlotFacts
      <4>3. u[n] - u[m] = 0
        BY <3>3, <1>1
      <4>4. Slots[0 - 1] <= 0
        BY <4>1, <4>2, SlotFacts, ThrottleFact
      <4> QED
        BY <4>1, <4>3, <4>4
    <3> QED
      BY <2>1, <1>1, <3>1, <3>2, <3>3
  <2> QED
    BY <2>1, <1>1 DEF Spread
<1> QED
  BY <1>1, <1>4, <1>5, <1>6 DEF u, k

\* The limiter lets the next request go.
LEMMA Going ==
    ASSUME NEW s \in Seq(Nat), NEW l \in Nat, NEW t \in Nat,
           Past(s, t), Rested(s, l), t >= l + Throttle
    PROVE  Ready(s, t, t)
<1>1. ASSUME NEW m \in 1 .. Len(s)
      PROVE  Slots[Len(s) - m] <= t - s[m]
  <2>1. s[m] \in Nat /\ s[Len(s)] \in Nat /\ s[Len(s)] <= t
    BY <1>1 DEF Past
  <2>2. Slots[Len(s) - m] \in Int
    BY <1>1, SlotFacts
  <2>3. \/ Slots[Len(s) - m] <= l + Throttle - s[m]
        \/ Slots[Len(s) - m] <= s[Len(s)] - s[m]
    BY <1>1 DEF Rested
  <2> QED
    BY <2>1, <2>2, <2>3, ThrottleFact
<1> QED
  BY <1>1 DEF Ready

\* A pause of two throttles pays for a retry, whenever the limiter let the
\* first attempt go.
LEMMA Retrying ==
    ASSUME NEW s \in Seq(Nat), NEW l \in Nat, NEW t \in Nat,
           Spread(s), Len(s) > 0, t >= s[Len(s)] + 2 * Throttle
    PROVE  Ready(s, l, t)
<1>1. ASSUME NEW m \in 1 .. Len(s)
      PROVE  Slots[Len(s) - m + 1] <= t - s[m]
  <2> DEFINE a == Len(s) - m - 1
  <2> HIDE DEF a
  <2>1. Slots[a] <= s[Len(s)] - s[m]
    BY <1>1 DEF Spread, a
  <2>2. /\ s[m] \in Nat /\ s[Len(s)] \in Nat
        /\ a \in Int /\ (a + 1) + 1 = Len(s) - m + 1
    BY <1>1 DEF a
  <2>3. /\ Slots[a] \in Int /\ Slots[a + 1] = Slots[a] + Throttle
        /\ Slots[(a + 1) + 1] = Slots[a + 1] + Throttle
    <3>1. a + 1 \in Int
      BY <2>2
    <3> QED
      BY <2>2, <3>1, SlotFacts
  <2>4. Slots[(a + 1) + 1] = Slots[a] + 2 * Throttle
    BY <2>3, ThrottleFact
  <2>5. Slots[a] + 2 * Throttle <= t - s[m]
    <3> DEFINE b == Slots[a]
               c == s[Len(s)]
               d == s[m]
               f == 2 * Throttle
    <3>1. b \in Int /\ c \in Int /\ d \in Int /\ f \in Int /\ b <= c - d
      BY <2>1, <2>2, <2>3, ThrottleFact
    <3>2. t >= c + f
      OBVIOUS
    <3> HIDE DEF b, c, d, f
    <3>3. b + f <= t - d
      BY <3>1, <3>2
    <3> QED
      BY <3>3 DEF b, d, f
  <2> QED
    BY <2>2, <2>4, <2>5
<1> QED
  BY <1>1 DEF Ready

\* A request that may go may go later.
LEMMA Later ==
    ASSUME NEW s \in Seq(Nat), NEW l \in Nat, NEW t \in Nat, Ready(s, l, t)
    PROVE  Ready(s, l, t + 1)
<1> DEFINE u == t + 1
<1>1. ASSUME NEW m \in 1 .. Len(s), Slots[Len(s) - m + 1] <= t - s[m]
      PROVE  Slots[Len(s) - m + 1] <= u - s[m]
  <2>1. s[m] \in Nat /\ Len(s) - m + 1 \in Int
    BY <1>1
  <2>2. Slots[Len(s) - m + 1] \in Int
    BY <2>1, SlotFacts
  <2> QED
    BY <1>1, <2>1, <2>2
<1> HIDE DEF u
<1>2. Ready(s, l, u)
  BY <1>1 DEF Ready
<1> QED
  BY <1>2 DEF u

-----------------------------------------------------------------------------
\* Before the first request the limiter has let none go.
Types == /\ now \in Nat /\ read \in Nat /\ until \in Nat /\ windowStart \in Nat
         /\ backoff \in Nat /\ Backoff <= backoff
         /\ pc \in PC
         /\ sent \in Seq(Nat)
         /\ lastRequest \in Nat \cup {None}
         /\ read <= now

Waiting == {"page", "window", "throttle", "listed", "failed"}

\* A retry is sent two throttles after an error, or later.
LongPauses == Backoff >= 2 * Throttle

\* While the sync goes on, the limiter and the pauses keep the requests apart.
Paced ==
    /\ Spread(sent)
    /\ lastRequest = None => sent = <<>> /\ pc \notin {"send", "backoff"}
    /\ pc \in Waiting /\ lastRequest # None => Rested(sent, lastRequest)
    /\ pc = "throttle" /\ lastRequest # None => until >= lastRequest + Throttle
    /\ pc = "send" => Ready(sent, lastRequest, now)
    /\ pc = "backoff" => Len(sent) > 0 /\ until >= sent[Len(sent)] + 2 * Throttle

RateInv ==
    /\ Types
    /\ Past(sent, now)
    /\ lastRequest # None => lastRequest <= now
    /\ LongPauses =>
          /\ ~cancelled => Paced
          /\ style # "first" => Spread(sent)

\* Sleeping for Rest keeps the requests a throttle apart.
LEMMA RestFact ==
    ASSUME NEW time \in Nat, lastRequest \in Nat
    PROVE  Rest(time) \in Nat /\ time + Rest(time) >= lastRequest + Throttle
<1>1. lastRequest # None
  BY NoneAssumption
<1> QED
  BY <1>1, ThrottleFact DEF Rest, Larger

\* The pause before a request has a length.
LEMMA RestType == ASSUME NEW time \in Nat, lastRequest \in Nat \cup {None}
                  PROVE  Rest(time) \in Nat
BY RestFact DEF Rest

\* Nothing has been sent at the start.
LEMMA RateInit == Init => RateInv
<1> SUFFICES ASSUME Init PROVE RateInv
  OBVIOUS
<1>1. Backoff \in Nat
  BY LimiterAssumption
<1>2. Types
  BY <1>1 DEF Init, Types, PC
<1>3. sent = <<>> /\ lastRequest = None /\ pc = "page" /\ Len(sent) = 0
  BY DEF Init
<1>4. Spread(sent) /\ Past(sent, now)
  BY <1>3 DEF Spread, Past
<1> QED
  BY <1>2, <1>3, <1>4 DEF RateInv, Paced

\* The limiter has let a request go by the time one is made.
LEMMA Begun == ASSUME Types, Paced, pc \in {"send", "backoff"}
               PROVE  lastRequest \in Nat /\ lastRequest # None
BY NoneAssumption DEF Paced, Types

\* What a request that is sent now leaves behind.
LEMMA Sent ==
    ASSUME RateInv, pc = "send", sent' = Append(sent, now)
    PROVE  /\ sent' \in Seq(Nat) /\ Len(sent') > 0 /\ sent'[Len(sent')] = now
           /\ Past(sent', now)
           /\ LongPauses /\ ~cancelled =>
                 /\ lastRequest # None
                 /\ Spread(sent') /\ Rested(sent', lastRequest)
<1>1. sent \in Seq(Nat) /\ now \in Nat /\ Past(sent, now)
  BY DEF RateInv, Types
<1>2. Len(sent) \in Nat
  BY <1>1
<1>3. Past(sent', now)
  <2> DEFINE u == Append(sent, now)
  <2>1. /\ Len(u) = Len(sent) + 1 /\ u[Len(u)] = now
        /\ \A m \in 1 .. Len(sent) : u[m] = sent[m]
    BY <1>1
  <2>2. \A m \in 1 .. Len(u) : u[m] <= now
    <3> HIDE DEF u
    <3> TAKE m \in 1 .. Len(u)
    <3>1. m \in 1 .. Len(sent) \/ m = Len(u)
      BY <1>2, <2>1
    <3> QED
      BY <1>1, <2>1, <3>1 DEF Past
  <2> QED
    BY <2>2 DEF Past
<1>4. ASSUME LongPauses, ~cancelled
      PROVE  lastRequest # None /\ Spread(sent') /\ Rested(sent', lastRequest)
  <2>1. Types /\ Paced
    BY <1>4 DEF RateInv
  <2>2. /\ lastRequest \in Nat /\ lastRequest # None /\ lastRequest <= now
        /\ Spread(sent) /\ Ready(sent, lastRequest, now)
    BY <2>1, Begun DEF RateInv, Paced
  <2> QED
    BY <1>1, <2>2, Sending
<1> QED
  BY <1>1, <1>2, <1>3, <1>4

\* WaitIfNeeded reserves the slot of the request.
LEMMA WaitStep == RateInv /\ WaitIfNeeded => RateInv'
<1> SUFFICES ASSUME RateInv, WaitIfNeeded PROVE RateInv'
  OBVIOUS
<1>1. /\ pc = "page" /\ pc' \in {"window", "throttle"} /\ read' = now
      /\ UNCHANGED <<lastRequest, backoff, sent, now, cancelled, style>>
      /\ windowStart' \in {now, windowStart}
      /\ until' \in {windowStart' + Window, now + Rest(now)}
      /\ pc' = "throttle" => until' = now + Rest(now)
  BY DEF WaitIfNeeded, retry
<1>2. Types
  BY DEF RateInv
<1>3. Window \in Nat
  BY LimiterAssumption
<1>4. Rest(now) \in Nat
  BY <1>2, RestType DEF Types
<1>5. Types'
  <2>1. now \in Nat /\ windowStart' \in Nat
    BY <1>1, <1>2 DEF Types
  <2>2. windowStart' + Window \in Nat
    <3>1. \A a, b \in Nat : a + b \in Nat
      OBVIOUS
    <3> QED
      BY <2>1, <1>3, <3>1
  <2>4. now + Rest(now) \in Nat
    BY <2>1, <1>4
  <2>3. until' \in Nat
    BY <2>2, <2>4, <1>1
  <2> QED
    BY <1>1, <1>2, <2>1, <2>3 DEF Types, PC
<1>6. pc' = "throttle" /\ lastRequest # None => until' >= lastRequest + Throttle
  BY <1>1, <1>2, RestFact DEF Types
<1>7. Paced => Paced'
  BY <1>1, <1>6 DEF Paced, Waiting
<1> QED
  BY <1>1, <1>5, <1>7 DEF RateInv

\* The end of a window restarts the count and not the spread.
LEMMA WindowStep == RateInv /\ WindowEnds => RateInv'
<1> SUFFICES ASSUME RateInv, WindowEnds PROVE RateInv'
  OBVIOUS
<1>1. /\ pc = "window" /\ pc' = "throttle" /\ until' = now + Rest(read)
      /\ windowStart' = now
      /\ UNCHANGED <<lastRequest, read, backoff, sent, now, cancelled, style>>
  BY DEF WindowEnds, retry
<1>2. Types
  BY DEF RateInv
<1>3. Rest(read) \in Nat
  BY <1>2, RestType DEF Types
<1>4. Types'
  BY <1>1, <1>2, <1>3 DEF Types, PC
<1>5. ASSUME lastRequest # None PROVE until' >= lastRequest + Throttle
  <2>1. lastRequest \in Nat /\ read \in Nat /\ now \in Nat /\ read <= now
    BY <1>2, <1>5 DEF Types
  <2>2. read + Rest(read) >= lastRequest + Throttle
    BY <2>1, RestFact
  <2> QED
    BY <1>1, <1>3, <2>1, <2>2, ThrottleFact
<1>6. Paced => Paced'
  BY <1>1, <1>5 DEF Paced, Waiting
<1> QED
  BY <1>1, <1>4, <1>6 DEF RateInv

\* A wait that a signal has ended sends nothing yet.
LEMMA AbortStep == RateInv /\ WaitAborted => RateInv'
<1> SUFFICES ASSUME RateInv, WaitAborted PROVE RateInv'
  OBVIOUS
<1>1. /\ cancelled /\ pc' = "send" /\ backoff' = Backoff
      /\ UNCHANGED <<lastRequest, windowStart, read, until, sent, now, cancelled, style>>
  BY DEF WaitAborted, limiter
<1>2. Types'
  BY <1>1, LimiterAssumption DEF RateInv, Types, PC
<1> QED
  BY <1>1, <1>2 DEF RateInv

\* A request goes out when its pause is over.
LEMMA GoStep == RateInv /\ Go => RateInv'
<1> SUFFICES ASSUME RateInv, Go PROVE RateInv'
  OBVIOUS
<1>1. /\ pc = "throttle" /\ now >= until /\ pc' = "send"
      /\ lastRequest' = now /\ backoff' = Backoff
      /\ UNCHANGED <<windowStart, read, until, sent, now, cancelled, style>>
  BY DEF Go
<1>2. Types
  BY DEF RateInv
<1>3. now # None /\ Backoff \in Nat
  BY <1>2, NoneAssumption, LimiterAssumption DEF Types
<1>4. Types'
  BY <1>1, <1>2, <1>3 DEF Types, PC
<1>5. ASSUME Paced PROVE Ready(sent, now, now)
  <2>1. CASE lastRequest = None
    <3>1. Len(sent) = 0
      BY <1>5, <2>1 DEF Paced
    <3> QED
      BY <3>1 DEF Ready
  <2>2. CASE lastRequest # None
    <3>1. /\ sent \in Seq(Nat) /\ lastRequest \in Nat /\ now \in Nat /\ until \in Nat
      BY <1>2, <2>2 DEF Types
    <3>2. Past(sent, now) /\ Rested(sent, lastRequest) /\ until >= lastRequest + Throttle
      BY <1>1, <1>5, <2>2 DEF RateInv, Paced, Waiting
    <3>3. now >= lastRequest + Throttle
      BY <1>1, <3>1, <3>2, ThrottleFact
    <3> QED
      BY <3>1, <3>2, <3>3, Going
  <2> QED
    BY <2>1, <2>2
<1>6. lastRequest' <= now'
  BY <1>1, <1>2 DEF Types
<1>7. Paced => Paced'
  BY <1>1, <1>3, <1>5 DEF Paced, Waiting
<1> QED
  BY <1>1, <1>4, <1>6, <1>7 DEF RateInv

\* A page or an end sends nothing.
LEMMA ReceiveStep == RateInv /\ Receive => RateInv'
<1> SUFFICES ASSUME RateInv, Receive PROVE RateInv'
  OBVIOUS
<1>1. /\ pc = "send" /\ pc' \in {"listed", "page"}
      /\ sent' = Append(sent, now)
      /\ style = "first" \/ ~cancelled
      /\ UNCHANGED <<lastRequest, windowStart, read, until, backoff, now, cancelled, style>>
  BY DEF Receive, Sends, limiter, retry
<1>2. Types
  BY DEF RateInv
<1>3. /\ sent' \in Seq(Nat) /\ Past(sent', now)
      /\ LongPauses /\ ~cancelled =>
            lastRequest # None /\ Spread(sent') /\ Rested(sent', lastRequest)
  BY <1>1, Sent
<1>4. Types'
  BY <1>1, <1>2, <1>3 DEF Types, PC
<1>5. LongPauses /\ ~cancelled => Paced'
  BY <1>1, <1>3 DEF Paced
<1> QED
  BY <1>1, <1>3, <1>4, <1>5 DEF RateInv, LongPauses

\* An error starts the pause before the retry.
LEMMA ErrorStep == RateInv /\ Error => RateInv'
<1> SUFFICES ASSUME RateInv, Error PROVE RateInv'
  OBVIOUS
<1>1. /\ pc = "send" /\ sent' = Append(sent, now)
      /\ style = "first" \/ ~cancelled
      /\ UNCHANGED <<lastRequest, windowStart, read, now, cancelled, style>>
      /\ \/ pc' = "failed" /\ until' = until /\ backoff' = backoff
         \/ /\ pc' = "backoff" /\ backoff' = (3 * backoff) \div 2
            /\ until' \in {now + backoff, now + 3 * backoff}
  BY DEF Error, Sends
<1>2. Types
  BY DEF RateInv
<1>3. /\ sent' \in Seq(Nat) /\ Len(sent') > 0 /\ sent'[Len(sent')] = now
      /\ Past(sent', now)
      /\ LongPauses /\ ~cancelled =>
            lastRequest # None /\ Spread(sent') /\ Rested(sent', lastRequest)
  BY <1>1, Sent
<1>4. backoff \in Nat /\ Backoff \in Nat /\ Backoff <= backoff
  BY <1>2, LimiterAssumption DEF Types
<1>5. until' \in Nat /\ backoff' \in Nat /\ Backoff <= backoff'
  BY <1>1, <1>2, <1>4 DEF Types
<1>6. Types'
  BY <1>1, <1>2, <1>3, <1>5 DEF Types, PC
<1>7. LongPauses /\ pc' = "backoff" => until' >= now + 2 * Throttle
  BY <1>1, <1>2, <1>4, ThrottleFact DEF Types, LongPauses
<1>8. LongPauses /\ ~cancelled => Paced'
  BY <1>1, <1>3, <1>7 DEF Paced, Waiting
<1> QED
  BY <1>1, <1>3, <1>6, <1>8 DEF RateInv, LongPauses

\* The last error, or a signal, ends the listing.
LEMMA GiveUpStep == RateInv /\ GiveUp => RateInv'
<1> SUFFICES ASSUME RateInv, GiveUp PROVE RateInv'
  OBVIOUS
<1>1. /\ pc' = "failed"
      /\ UNCHANGED <<lastRequest, windowStart, read, until, backoff, now, style>>
      /\ \/ pc = "send" /\ ~cancelled /\ sent' = Append(sent, now)
         \/ cancelled /\ cancelled' /\ sent' = sent
  BY DEF GiveUp, Sends, limiter, retry
<1>2. CASE cancelled /\ cancelled' /\ sent' = sent
  BY <1>1, <1>2 DEF RateInv, Types, PC
<1>3. CASE pc = "send" /\ ~cancelled /\ sent' = Append(sent, now)
  <2>1. Types
    BY DEF RateInv
  <2>2. /\ sent' \in Seq(Nat) /\ Past(sent', now)
        /\ LongPauses => lastRequest # None /\ Spread(sent') /\ Rested(sent', lastRequest)
    BY <1>3, Sent
  <2>3. Types'
    BY <1>1, <2>1, <2>2 DEF Types, PC
  <2>4. LongPauses => Paced'
    BY <1>1, <2>2 DEF Paced
  <2> QED
    BY <1>1, <2>2, <2>3, <2>4 DEF RateInv, LongPauses
<1> QED
  BY <1>1, <1>2, <1>3

\* A retry is sent without the limiter, after a pause of its own.
LEMMA RetryStep == RateInv /\ Retry => RateInv'
<1> SUFFICES ASSUME RateInv, Retry PROVE RateInv'
  OBVIOUS
<1>1. /\ pc = "backoff" /\ now >= until /\ pc' = "send"
      /\ UNCHANGED <<lastRequest, windowStart, read, until, backoff, sent, now, cancelled, style>>
  BY DEF Retry, limiter, retry
<1>2. Types
  BY DEF RateInv
<1>3. Types'
  BY <1>1, <1>2 DEF Types, PC
<1>4. ASSUME Paced PROVE Paced'
  <2>1. lastRequest \in Nat /\ lastRequest # None
    BY <1>1, <1>2, <1>4, Begun
  <2>2. /\ sent \in Seq(Nat) /\ now \in Nat /\ until \in Nat
        /\ Spread(sent) /\ Len(sent) > 0 /\ until >= sent[Len(sent)] + 2 * Throttle
    BY <1>1, <1>2, <1>4 DEF Paced, Types
  <2>3. now >= sent[Len(sent)] + 2 * Throttle
    <3>1. sent[Len(sent)] \in Nat
      BY <2>2
    <3> QED
      BY <1>1, <2>2, <3>1, ThrottleFact
  <2>4. Ready(sent, lastRequest, now)
    BY <2>1, <2>2, <2>3, Retrying
  <2> QED
    BY <1>1, <1>4, <2>1, <2>4 DEF Paced, Waiting
<1> QED
  BY <1>1, <1>3, <1>4 DEF RateInv

\* The next list goes on behind the limiter.
LEMMA NextListStep == RateInv /\ NextList => RateInv'
<1> SUFFICES ASSUME RateInv, NextList PROVE RateInv'
  OBVIOUS
<1>1. /\ pc \in {"listed", "failed"} /\ pc' = "page"
      /\ UNCHANGED <<lastRequest, windowStart, read, until, backoff, sent, now, cancelled, style>>
  BY DEF NextList, limiter, retry
<1>2. Types'
  BY <1>1 DEF RateInv, Types, PC
<1>3. Paced => Paced'
  BY <1>1 DEF Paced, Waiting
<1> QED
  BY <1>1, <1>2, <1>3 DEF RateInv

\* A signal sends nothing; from then on less is said.
LEMMA CancelStep == RateInv /\ Cancel => RateInv'
<1> SUFFICES ASSUME RateInv, Cancel PROVE RateInv'
  OBVIOUS
<1>1. /\ cancelled'
      /\ UNCHANGED <<pc, lastRequest, windowStart, read, until, backoff, sent, now, style>>
  BY DEF Cancel, limiter, retry
<1>2. Types'
  BY <1>1 DEF RateInv, Types
<1> QED
  BY <1>1, <1>2 DEF RateInv

\* Time passes only up to the end of a pause.
LEMMA TickStep == RateInv /\ Tick => RateInv'
<1> SUFFICES ASSUME RateInv, Tick PROVE RateInv'
  OBVIOUS
<1>1. /\ now' = now + 1
      /\ UNCHANGED <<pc, lastRequest, windowStart, read, until, backoff, sent, cancelled, style>>
  BY DEF Tick, limiter, retry
<1>2. Types /\ now \in Nat /\ sent \in Seq(Nat)
  BY DEF RateInv, Types
<1>3. Types'
  BY <1>1, <1>2 DEF Types, PC
<1>4. Past(sent, now + 1)
  <2>1. ASSUME NEW m \in 1 .. Len(sent) PROVE sent[m] <= now + 1
    <3>1. sent[m] \in Nat /\ sent[m] <= now
      BY <1>2 DEF RateInv, Past
    <3> QED
      BY <3>1, <1>2
  <2> QED
    BY <2>1 DEF Past
<1>5. ASSUME Paced, pc = "send" PROVE Ready(sent, lastRequest, now + 1)
  <2>1. lastRequest \in Nat /\ Ready(sent, lastRequest, now)
    BY <1>2, <1>5, Begun DEF Paced
  <2> QED
    BY <2>1, <1>2, Later
<1>6. lastRequest # None => lastRequest <= now + 1
  BY <1>2 DEF RateInv, Types
<1>7. Paced => Paced'
  BY <1>1, <1>5 DEF Paced
<1> QED
  BY <1>1, <1>3, <1>4, <1>6, <1>7 DEF RateInv

\* Every step keeps the spread.
LEMMA RateStep == RateInv /\ [Next]_vars => RateInv'
<1> SUFFICES ASSUME RateInv, [Next]_vars PROVE RateInv'
  OBVIOUS
<1>1. CASE Change
  BY <1>1 DEF Change, RateInv, Types, Paced, limiter, retry, Waiting
<1>2. CASE UNCHANGED vars
  BY <1>2 DEF vars, RateInv, Types, Paced, limiter, retry, Waiting
<1> QED
  BY <1>1, <1>2, WaitStep, WindowStep, AbortStep, GoStep, ReceiveStep, ErrorStep, GiveUpStep,
     RetryStep, NextListStep, CancelStep, TickStep DEF Next

\* Slots grow: fewer throttles than the window has are fewer requests.
LEMMA Fewer == ASSUME NEW a \in Int, a * Throttle < ProviderLimit * Throttle
               PROVE  a < ProviderLimit
<1>1. ProviderLimit \in Int /\ Throttle \in Int /\ Throttle > 0
  BY LimiterAssumption, ThrottleFact
<1>2. ASSUME a >= ProviderLimit PROVE FALSE
  <2>1. PICK b \in Nat : a = ProviderLimit + b
    BY <1>1, <1>2
  <2>2. a * Throttle = ProviderLimit * Throttle + b * Throttle
    BY <2>1, <1>1, Z3
  <2>3. b * Throttle \in Nat
    BY <1>1, Z3
  <2>4. ProviderLimit * Throttle \in Int
    BY <1>1, Z3
  <2> QED
    BY <2>2, <2>3, <2>4
<1> QED
  BY <1>1, <1>2

\* Requests that are spread fit the window of the provider.
LEMMA RateBound == RateInv => UnderProviderLimit
<1> SUFFICES ASSUME RateInv, LongPauses,
                    NEW m \in DOMAIN sent, NEW n \in DOMAIN sent,
                    m <= n, sent[n] - sent[m] < ProviderWindow,
                    ~(style = "first" /\ cancelled)
             PROVE  n - m <= ProviderLimit
  BY DEF UnderProviderLimit, LongPauses
<1>1. sent \in Seq(Nat) /\ m \in 1 .. Len(sent) /\ n \in 1 .. Len(sent)
  BY DEF RateInv, Types
<1>2. n - m - 1 \in Int /\ sent[n] - sent[m] \in Int /\ ProviderLimit \in Int
  BY <1>1, LimiterAssumption
<1>3. Slots[n - m - 1] <= sent[n] - sent[m]
  <2>1. Spread(sent)
    BY DEF RateInv, Paced
  <2> QED
    BY <1>1, <2>1 DEF Spread
<1>4. Slots[n - m - 1] = (n - m - 1) * Throttle /\ Slots[n - m - 1] \in Int
  BY <1>2, SlotFacts DEF Slots
<1>5. (n - m - 1) * Throttle < ProviderLimit * Throttle
  BY <1>2, <1>3, <1>4, RateAssumption, LimiterAssumption
<1>6. n - m - 1 < ProviderLimit
  BY <1>2, <1>5, Fewer
<1> QED
  BY <1>1, <1>2, <1>6

\* No connector sends more requests in a window of its provider than it allows
\* and one, however late its sleeps end, whatever it retries and however many
\* lists it makes; with pauses of two throttles, until a signal stops GCP's.
THEOREM RateLimited == Spec => []UnderProviderLimit
<1>1. Spec => []RateInv
  BY RateInit, RateStep, PTL DEF Spec
<1> QED
  BY <1>1, RateBound, PTL

-----------------------------------------------------------------------------
(* Places in a list.                                                       *)

\* A set of ids has a least one.
LEMMA LeastExists ==
    ASSUME NEW S \in SUBSET Nat, S # {}
    PROVE  \E m \in S : \A x \in S : m <= x
<1> DEFINE Less == {p \in Nat \X Nat : p[1] < p[2]}
<1>1. IsWellFoundedOn(Less, Nat)
  BY NatLessThanWellFounded, Zenon DEF OpToRel
<1>2. PICK m \in S : \A x \in S : ~(<<x, m>> \in Less)
  <2> HIDE DEF Less
  <2> QED
    BY <1>1, WFMin
<1>3. \A x \in S : x \in Nat
  OBVIOUS
<1>4. \A x \in S : ~(x < m)
  BY <1>2, <1>3
<1> QED
  BY <1>3, <1>4

\* A part of a finite set has as many elements at most, and fewer if it is
\* not all of the set.
LEMMA Parts ==
    ASSUME NEW S, IsFiniteSet(S), NEW T \in SUBSET S
    PROVE  /\ IsFiniteSet(T) /\ Cardinality(T) \in Nat /\ Cardinality(S) \in Nat
           /\ Cardinality(T) <= Cardinality(S)
           /\ T # S => Cardinality(T) < Cardinality(S)
<1>1. /\ IsFiniteSet(T) /\ Cardinality(T) <= Cardinality(S)
      /\ Cardinality(S) = Cardinality(T) => S = T
  BY FS_Subset
<1>2. Cardinality(T) \in Nat /\ Cardinality(S) \in Nat
  BY <1>1, FS_CardinalityType
<1> QED
  BY <1>1, <1>2

\* A finite set of ids has a greatest one: the one with the fewest above it.
LEMMA GreatestExists ==
    ASSUME NEW S \in SUBSET Nat, IsFiniteSet(S), S # {}
    PROVE  \E m \in S : \A x \in S : x <= m
<1> DEFINE Above(x) == {y \in S : y > x}
           Counts == {Cardinality(Above(x)) : x \in S}
<1>1. \A x \in S : IsFiniteSet(Above(x)) /\ Cardinality(Above(x)) \in Nat
  <2> TAKE x \in S
  <2>1. Above(x) \in SUBSET S
    OBVIOUS
  <2> HIDE DEF Above
  <2> QED
    BY <2>1, Parts
<1>2. PICK x \in S : \A y \in S : Cardinality(Above(x)) <= Cardinality(Above(y))
  <2>1. Counts \in SUBSET Nat /\ Counts # {}
    BY <1>1
  <2> HIDE DEF Counts
  <2>2. PICK c \in Counts : \A d \in Counts : c <= d
    BY <2>1, LeastExists
  <2> HIDE DEF Above
  <2> QED
    BY <2>2 DEF Counts
<1>3. \A y \in S : y <= x
  <2> SUFFICES ASSUME NEW y \in S, ~(y <= x) PROVE FALSE
    OBVIOUS
  <2>1. x \in Nat /\ y \in Nat /\ \A z \in S : z \in Nat
    OBVIOUS
  <2>2. Above(y) \in SUBSET Above(x) /\ Above(y) # Above(x)
    <3>1. y \in Above(x) /\ y \notin Above(y)
      BY <2>1
    <3>2. \A z \in Above(y) : z \in Above(x)
      BY <2>1
    <3> QED
      BY <3>1, <3>2
  <2> HIDE DEF Above
  <2>3. Cardinality(Above(y)) < Cardinality(Above(x))
    BY <1>1, <2>2, Parts
  <2> QED
    BY <1>1, <1>2, <2>3
<1> QED
  BY <1>3

\* The greatest id of a page.
LEMMA MaxFact ==
    ASSUME NEW S \in SUBSET Nat, IsFiniteSet(S), S # {}
    PROVE  Max(S) \in S /\ \A x \in S : x <= Max(S)
<1>1. PICK m \in S : \A x \in S : x <= m
  BY GreatestExists
<1>2. \A x \in S : m >= x
  BY <1>1
<1>3. Max(S) \in S /\ \A x \in S : Max(S) >= x
  BY <1>2 DEF Max
<1> QED
  BY <1>3

\* Places, in a list and in one that has more items.
LEMMA Places ==
    ASSUME NEW S \in SUBSET Nat, IsFiniteSet(S), NEW i \in Nat
    PROVE  /\ Place(i, S) \in Nat
           /\ i \in S => Place(i, S) >= 1
           /\ \A T \in SUBSET S : Place(i, T) <= Place(i, S)
           /\ \A j \in Nat : j <= i => Place(j, S) <= Place(i, S)
<1> DEFINE Upto(j, T) == {k \in T : k <= j}
<1>0. \A k \in S : k \in Nat
  OBVIOUS
<1>1. IsFiniteSet(Upto(i, S)) /\ Place(i, S) \in Nat
  <2>1. Upto(i, S) \in SUBSET S
    OBVIOUS
  <2>2. IsFiniteSet(Upto(i, S)) /\ Cardinality(Upto(i, S)) \in Nat
    <3> HIDE DEF Upto
    <3> QED
      BY <2>1, Parts
  <2> QED
    BY <2>2 DEF Place
<1>2. ASSUME i \in S PROVE Place(i, S) >= 1
  <2>1. {i} \in SUBSET Upto(i, S)
    BY <1>2
  <2>2. Cardinality({i}) = 1
    BY FS_Singleton
  <2>3. 1 <= Cardinality(Upto(i, S))
    <3> HIDE DEF Upto
    <3> QED
      BY <1>1, <2>1, <2>2, Parts
  <2> QED
    BY <1>1, <2>3 DEF Place
<1>3. ASSUME NEW T \in SUBSET S PROVE Place(i, T) <= Place(i, S)
  <2>1. Upto(i, T) \in SUBSET Upto(i, S)
    OBVIOUS
  <2>2. Cardinality(Upto(i, T)) <= Cardinality(Upto(i, S))
    <3> HIDE DEF Upto
    <3> QED
      BY <1>1, <2>1, Parts
  <2> QED
    BY <2>2 DEF Place
<1>4. ASSUME NEW j \in Nat, j <= i PROVE Place(j, S) <= Place(i, S)
  <2>0. \A k \in S : k <= j => k <= i
    BY <1>0, <1>4
  <2>1. Upto(j, S) \in SUBSET Upto(i, S)
    BY <2>0
  <2>2. Cardinality(Upto(j, S)) <= Cardinality(Upto(i, S))
    <3> HIDE DEF Upto
    <3> QED
      BY <1>1, <2>1, Parts
  <2> QED
    BY <2>2 DEF Place
<1> QED
  BY <1>1, <1>2, <1>3, <1>4

\* The first n items of a list are n, unless the list has no more.
LEMMA FirstItems ==
    ASSUME NEW S \in SUBSET Nat, IsFiniteSet(S), NEW n \in Nat
    PROVE  LET A == {i \in S : Place(i, S) <= n}
           IN A # S => Cardinality(A) = n
<1> DEFINE A == {i \in S : Place(i, S) <= n}
           Upto(j) == {k \in S : k <= j}
<1> SUFFICES ASSUME A # S PROVE Cardinality(A) = n
  OBVIOUS
<1>1. /\ \A i \in S : i \in Nat /\ Place(i, S) \in Nat
      /\ \A i \in S : Place(i, S) = Cardinality(Upto(i))
      /\ \A i \in S : Upto(i) \in SUBSET S
  BY Places DEF Place
<1>2. IsFiniteSet(A) /\ Cardinality(A) \in Nat
  <2>1. A \in SUBSET S
    OBVIOUS
  <2> HIDE DEF A
  <2> QED
    BY <2>1, Parts
<1>3. Cardinality(A) <= n
  <2>1. CASE A = {}
    <3>1. Cardinality({}) = 0
      BY FS_EmptySet
    <3> HIDE DEF A
    <3> QED
      BY <2>1, <3>1
  <2>2. CASE A # {}
    <3>1. PICK m \in A : \A x \in A : x <= m
      <4>1. A \in SUBSET Nat
        BY <1>1
      <4> HIDE DEF A
      <4> QED
        BY <1>2, <2>2, <4>1, GreatestExists
    <3>2. m \in S /\ Place(m, S) <= n /\ A \in SUBSET Upto(m)
      BY <3>1
    <3>3. IsFiniteSet(Upto(m))
      <4> HIDE DEF Upto, A
      <4> QED
        BY <1>1, <3>2, Parts
    <3>4. Cardinality(A) <= Cardinality(Upto(m))
      <4> HIDE DEF Upto, A
      <4> QED
        BY <3>2, <3>3, Parts
    <3> HIDE DEF Upto, A
    <3> QED
      BY <1>1, <1>2, <3>2, <3>4
  <2> QED
    BY <2>1, <2>2
<1>4. Cardinality(A) >= n
  <2>1. S \ A \in SUBSET Nat /\ S \ A # {}
    BY <1>1
  <2>2. PICK m \in S \ A : \A x \in S \ A : m <= x
    <3> HIDE DEF A
    <3> QED
      BY <2>1, LeastExists
  <2>3. Upto(m) \in SUBSET (A \cup {m})
    <3> SUFFICES ASSUME NEW k \in S, k <= m, k # m PROVE k \in A
      OBVIOUS
    <3> HIDE DEF A
    <3> QED
      BY <1>1, <2>2
  <2>4. Place(m, S) > n /\ Place(m, S) \in Nat /\ m \in S
    BY <1>1, <2>2
  <2> HIDE DEF A, Upto
  <2>5. IsFiniteSet(A \cup {m}) /\ Cardinality(A \cup {m}) <= Cardinality(A) + 1
    <3>1. /\ IsFiniteSet(A \cup {m})
          /\ Cardinality(A \cup {m}) = IF m \in A THEN Cardinality(A) ELSE Cardinality(A) + 1
      BY <1>2, FS_AddElement
    <3> QED
      BY <1>2, <3>1
  <2>6. Cardinality(Upto(m)) <= Cardinality(A \cup {m}) /\ Cardinality(A \cup {m}) \in Nat
    BY <2>3, <2>5, Parts
  <2> QED
    BY <1>1, <1>2, <2>4, <2>5, <2>6
<1> HIDE DEF A
<1> QED
  BY <1>2, <1>3, <1>4

-----------------------------------------------------------------------------
(* Lists.                                                                  *)

ListTypes == /\ stay \subseteq present /\ present \subseteq Item
             /\ listed \subseteq Item
             /\ style \in Style /\ counted \in BOOLEAN
             /\ limit \in Nat \ {0} /\ after \in Nat

\* What lies before after has been listed, if it was there all the time; a
\* list of one page has not begun.
Seeks ==
    pc \notin {"listed", "failed"} =>
        /\ style = "cursor" => /\ \A i \in stay : i <= after => i \in listed
                              /\ \A i \in listed : i <= after
        /\ style = "offset" /\ counted /\ ~removed =>
              \A i \in stay : Place(i, present) <= after => i \in listed
        /\ style = "first" \/ (style = "offset" /\ ~counted) => after = 0 /\ listed = {}

ListInv == ListTypes /\ Seeks /\ ListsWhatStays

\* A list begins with nothing listed, and nothing before its cursor.
LEMMA Fresh ==
    ASSUME style \in Style, limit \in PageSizes, counted \in BOOLEAN, pc = "page",
           after = 0, listed = {}, present \in Start, stay = present
    PROVE  ListInv
<1>1. ListTypes
  BY ItemAssumption, LimiterAssumption DEF ListTypes
<1>2. /\ present \subseteq Nat /\ IsFiniteSet(present)
  BY ItemAssumption, FS_Subset
<1>3. \A i \in present : i \in Nat \ {0} /\ Place(i, present) >= 1 /\ Place(i, present) \in Nat
  BY <1>2, Places, ItemAssumption
<1>4. Seeks
  BY <1>2, <1>3 DEF Seeks
<1> QED
  BY <1>1, <1>4 DEF ListInv, ListsWhatStays

LEMMA ListInit == Init => ListInv
BY Fresh DEF Init, Totals

\* The next list begins as the first one did.
LEMMA NextListKeepsList == ASSUME ListInv, NextList PROVE ListInv'
<1>1. /\ style' = style /\ style \in Style /\ limit' \in PageSizes /\ counted' \in BOOLEAN
      /\ pc' = "page" /\ after' = 0 /\ listed' = {}
      /\ present' \in Start /\ stay' = present'
  BY DEF NextList, Totals, ListInv, ListTypes
<1>2. /\ present' \subseteq Item /\ stay' \subseteq present' /\ limit' \in Nat \ {0}
  BY <1>1, ItemAssumption, LimiterAssumption
<1>3. ListTypes'
  BY <1>1, <1>2 DEF ListTypes
<1>4. present' \in SUBSET Nat /\ IsFiniteSet(present')
  BY <1>2, ItemAssumption, FS_Subset
<1>5. \A i \in present' : i \in Nat \ {0} /\ Place(i, present') >= 1 /\ Place(i, present') \in Nat
  BY <1>2, <1>4, Places, ItemAssumption
<1>6. Seeks'
  BY <1>1, <1>5 DEF Seeks
<1> QED
  BY <1>1, <1>3, <1>6 DEF ListInv, ListsWhatStays

\* What does not receive, change or end the list leaves it as it was.
LEMMA OtherSteps ==
    ASSUME ListInv, UNCHANGED <<style, limit, counted, loop, provider>>,
           \/ pc' = pc
           \/ pc' # "listed" /\ (pc' # "failed" => pc \notin {"listed", "failed"})
    PROVE  ListInv'
<1>1. UNCHANGED <<style, limit, counted, after, listed, present, stay, removed>>
  BY DEF loop, provider
<1>2. ListTypes'
  BY <1>1 DEF ListInv, ListTypes
<1>3. Seeks'
  BY <1>1 DEF ListInv, Seeks, Place
<1>4. ListsWhatStays'
  BY <1>1 DEF ListInv, ListsWhatStays, EndsUndecodable
<1> QED
  BY <1>2, <1>3, <1>4 DEF ListInv

LEMMA ListFinite ==
    ASSUME ListTypes
    PROVE  /\ present \in SUBSET Nat /\ IsFiniteSet(present)
           /\ \A T \in SUBSET present : T \in SUBSET Nat /\ IsFiniteSet(T)
<1>1. present \in SUBSET Nat /\ IsFiniteSet(present)
  BY ItemAssumption, FS_Subset DEF ListTypes
<1> QED
  BY <1>1, FS_Subset

\* An item more moves no item forward; after one less, nothing is said of
\* places.
LEMMA ChangeKeepsList == ASSUME ListInv, Change PROVE ListInv'
<1>1. /\ UNCHANGED <<style, limit, counted, pc, after, listed>>
      /\ pc \notin {"listed", "failed"} /\ ListTypes /\ Seeks
  BY DEF Change, loop, ListInv
<1>2. CASE \E i \in Item \ present : present' = present \cup {i} /\ UNCHANGED <<stay, removed>>
  <2>1. ListTypes' /\ present \in SUBSET present'
    BY <1>1, <1>2 DEF ListTypes
  <2>2. present' \in SUBSET Nat /\ IsFiniteSet(present')
    BY <2>1, ItemAssumption, FS_Subset DEF ListTypes
  <2>3. \A i \in stay : /\ Place(i, present) <= Place(i, present')
                        /\ Place(i, present) \in Nat /\ Place(i, present') \in Nat
    <3> TAKE i \in stay
    <3>1. i \in Nat /\ present \in SUBSET Nat /\ IsFiniteSet(present)
      BY <1>1, ListFinite DEF ListTypes
    <3> QED
      BY <2>1, <2>2, <3>1, Places
  <2>4. \A i \in stay : Place(i, present') <= after => Place(i, present) <= after
    BY <1>1, <2>3 DEF ListTypes
  <2>5. Seeks'
    BY <1>1, <1>2, <2>4 DEF Seeks
  <2> QED
    BY <1>1, <2>1, <2>5 DEF ListInv, ListsWhatStays
<1>3. CASE \E i \in present : present' = present \ {i} /\ stay' = stay \ {i} /\ removed' = TRUE
  <2>1. ListTypes'
    BY <1>1, <1>3 DEF ListTypes
  <2>2. Seeks'
    BY <1>1, <1>3 DEF Seeks
  <2> QED
    BY <1>1, <2>1, <2>2 DEF ListInv, ListsWhatStays
<1> QED
  BY <1>2, <1>3 DEF Change

\* A page by offset has all that is left, or as many items as were asked for.
LEMMA OffsetPage ==
    ASSUME ListTypes, style # "cursor"
    PROVE  /\ Page \in SUBSET present
           /\ Cardinality(Page) \in Nat /\ Cardinality(present) \in Nat
           /\ \/ \A i \in present : Place(i, present) <= after + limit
              \/ /\ Cardinality(Page) = limit
                 /\ after + limit < Cardinality(present)
<1> DEFINE A == {i \in present : Place(i, present) <= after}
           B == {i \in present : Place(i, present) <= after + limit}
<1>1. /\ after \in Nat /\ limit \in Nat \ {0} /\ after + limit \in Nat
      /\ present \in SUBSET Nat /\ IsFiniteSet(present)
      /\ \A i \in present : Place(i, present) \in Nat
  BY ListFinite, Places DEF ListTypes
<1>2. /\ A # present => Cardinality(A) = after
      /\ B # present => Cardinality(B) = after + limit
  BY <1>1, FirstItems
<1>3. A \in SUBSET B /\ B \in SUBSET present
  <2>1. \A i \in present : Place(i, present) <= after => Place(i, present) <= after + limit
    BY <1>1
  <2> QED
    BY <2>1
<1>4. Page = B \ A
  <2>1. \A i \in present : Place(i, present) \in after + 1 .. after + limit
                             <=> /\ Place(i, present) <= after + limit
                                 /\ ~(Place(i, present) <= after)
    BY <1>1
  <2> QED
    BY <2>1 DEF Page
<1>5. Page \in SUBSET present
  BY <1>3, <1>4
<1> HIDE DEF A, B
<1>6. Cardinality(Page) \in Nat /\ Cardinality(present) \in Nat
  BY <1>1, <1>5, Parts
<1>7. ASSUME B # present
      PROVE  Cardinality(Page) = limit /\ after + limit < Cardinality(present)
  <2>1. A # present
    BY <1>3, <1>7
  <2>2. IsFiniteSet(B) /\ Cardinality(B) < Cardinality(present)
    BY <1>1, <1>3, <1>7, Parts
  <2>3. Cardinality(B \ A) = Cardinality(B) - Cardinality(B \cap A)
    BY <2>2, FS_Difference
  <2>4. B \cap A = A
    BY <1>3
  <2>5. Cardinality(Page) = Cardinality(B) - Cardinality(A)
    BY <1>4, <2>3, <2>4
  <2>6. Cardinality(A) = after /\ Cardinality(B) = after + limit
    BY <1>2, <1>7, <2>1
  <2>7. Cardinality(Page) = (after + limit) - after
    BY <2>5, <2>6
  <2>8. (after + limit) - after = limit
    BY <1>1
  <2> QED
    BY <2>2, <2>6, <2>7, <2>8
<1>8. CASE B = present
  BY <1>5, <1>6, <1>8 DEF B
<1> QED
  BY <1>5, <1>6, <1>7, <1>8

\* A page after a cursor has all that is left, or as many items as were asked
\* for and nothing left out up to its last.
LEMMA CursorPage ==
    ASSUME ListTypes, style = "cursor"
    PROVE  /\ Page \in SUBSET present
           /\ Page # {} => Max(Page) \in Page
           /\ Cardinality(Page) \in Nat
           /\ \/ \A i \in present : i > after => i \in Page
              \/ Cardinality(Page) = limit
           /\ Page # {} => \A i \in present : i > after /\ i <= Max(Page) => i \in Page
           /\ \A i \in Page : i > after
           /\ Page # {} => \A i \in Page : i <= Max(Page)
<1> DEFINE rest == {i \in present : i > after}
<1>1. limit \in Nat \ {0} /\ rest \in SUBSET Nat /\ IsFiniteSet(rest)
  <2>1. rest \in SUBSET present
    OBVIOUS
  <2> HIDE DEF rest
  <2> QED
    BY <2>1, ListFinite DEF ListTypes
<1>2. Page = {i \in rest : Place(i, rest) <= limit} /\ rest \in SUBSET present
  BY DEF Page
<1> HIDE DEF rest
<1>3. Page = rest \/ Cardinality(Page) = limit
  BY <1>1, <1>2, FirstItems
<1>4. /\ Page \in SUBSET rest /\ Page \in SUBSET Nat /\ IsFiniteSet(Page)
      /\ Cardinality(Page) \in Nat
  BY <1>1, <1>2, Parts
<1>5. Page # {} => Max(Page) \in Page
  BY <1>4, MaxFact
<1>6. ASSUME Page # {}, NEW i \in rest, i <= Max(Page) PROVE i \in Page
  <2>1. Max(Page) \in rest /\ Place(Max(Page), rest) <= limit
    BY <1>2, <1>5, <1>6
  <2>2. i \in Nat /\ Max(Page) \in Nat
    BY <1>1, <2>1
  <2>3. /\ Place(i, rest) <= Place(Max(Page), rest)
        /\ Place(i, rest) \in Nat /\ Place(Max(Page), rest) \in Nat
    BY <1>1, <1>6, <2>2, Places
  <2>4. Place(i, rest) <= limit
    BY <1>1, <2>1, <2>3
  <2> QED
    BY <1>2, <1>6, <2>4
<1>7. \A i \in Page : i > after
  BY <1>4 DEF rest
<1>8. Page # {} => \A i \in Page : i <= Max(Page)
  BY <1>4, MaxFact
<1> QED
  BY <1>2, <1>3, <1>4, <1>5, <1>6, <1>7, <1>8 DEF rest

LEMMA ReceiveKeepsList == ASSUME ListInv, Receive PROVE ListInv'
<1>1. /\ UNCHANGED <<style, limit, counted, present, stay, removed>>
      /\ pc = "send" /\ ListTypes /\ Seeks
      /\ listed' = listed \cup Page
      /\ \/ /\ Page = {} \/ LastPage(Page)
            /\ pc' = "listed" /\ after' = after
         \/ /\ Page # {} /\ ~LastPage(Page)
            /\ pc' = "page" /\ after' = Following(Page)
  BY DEF Receive, Sends, provider, ListInv
<1>2. /\ present \in SUBSET Nat /\ stay \in SUBSET present /\ after \in Nat
      /\ limit \in Nat \ {0} /\ after + limit \in Nat
  BY <1>1, ListFinite DEF ListTypes
<1>3. CASE style = "cursor"
  <2>1. /\ Page \in SUBSET present
        /\ Page # {} => Max(Page) \in Page
        /\ Cardinality(Page) \in Nat
        /\ \/ \A i \in present : i > after => i \in Page
           \/ Cardinality(Page) = limit
        /\ Page # {} => \A i \in present : i > after /\ i <= Max(Page) => i \in Page
        /\ \A i \in Page : i > after
        /\ Page # {} => \A i \in Page : i <= Max(Page)
    BY <1>1, <1>3, CursorPage
  <2>2. /\ \A i \in stay : i <= after => i \in listed
        /\ \A i \in listed : i <= after
    BY <1>1, <1>3 DEF Seeks
  <2>3. CASE Page = {} \/ LastPage(Page)
    <3>1. pc' = "listed" /\ after' = after /\ ListTypes'
      BY <1>1, <1>2, <2>1, <2>3 DEF ListTypes
    <3>2. CASE EndsUndecodable(Page)
      <4>1. PICK i \in Page \cap Undecodable : \A j \in Page : j <= i
        BY <3>2 DEF EndsUndecodable
      <4>2. \A j \in listed : j <= i
        <5> TAKE j \in listed
        <5>1. i \in Nat /\ j \in Nat /\ after \in Nat /\ i > after /\ j <= after
          BY <1>1, <1>2, <2>1, <2>2, <4>1, ItemAssumption DEF ListTypes
        <5> QED
          BY <5>1
      <4>3. EndsUndecodable(listed')
        BY <1>1, <4>1, <4>2 DEF EndsUndecodable
      <4> QED
        BY <1>1, <1>3, <3>1, <4>3 DEF ListInv, Seeks, ListsWhatStays, EndsUndecodable
    <3>3. CASE ~EndsUndecodable(Page)
      <4>1. Page # {} => Cardinality(Page) < limit
        BY <1>3, <2>3, <3>3 DEF LastPage
      <4>2. Page = {} => Cardinality(Page) = 0
        BY FS_EmptySet
      <4>3. \A i \in present : i > after => i \in Page
        BY <1>2, <2>1, <4>1, <4>2
      <4>4. stay \subseteq listed'
        <5> SUFFICES ASSUME NEW i \in stay PROVE i \in listed'
          OBVIOUS
        <5>1. i \in present /\ i \in Nat
          BY <1>2
        <5>2. i <= after \/ i > after
          BY <1>2, <5>1
        <5> QED
          BY <1>1, <2>2, <4>3, <5>1, <5>2
      <4> QED
        BY <1>1, <3>1, <4>4 DEF ListInv, Seeks, ListsWhatStays
    <3> QED
      BY <3>2, <3>3
  <2>4. CASE ~(Page = {} \/ LastPage(Page))
    <3>1. pc' = "page" /\ after' = Max(Page) /\ after' \in Nat
      BY <1>1, <1>2, <1>3, <2>1, <2>4 DEF Following
    <3>2. \A i \in stay : i <= after' => i \in listed'
      <4> SUFFICES ASSUME NEW i \in stay, i <= Max(Page) PROVE i \in listed'
        BY <3>1
      <4>1. i \in present /\ i \in Nat
        BY <1>2
      <4>2. i <= after \/ i > after
        BY <1>2, <4>1
      <4> QED
        BY <1>1, <2>1, <2>2, <2>4, <4>1, <4>2
    <3>3. ListTypes'
      BY <1>1, <2>1, <3>1 DEF ListTypes
    <3>4. \A i \in listed' : i <= after'
      <4> SUFFICES ASSUME NEW i \in listed' PROVE i <= Max(Page)
        BY <3>1
      <4>1. CASE i \in Page
        BY <2>1, <2>4, <4>1
      <4>2. CASE i \in listed
        <5>1. i \in Nat /\ after \in Nat /\ Max(Page) \in Nat /\ i <= after /\ Max(Page) > after
          BY <1>1, <1>2, <2>1, <2>2, <2>4, <3>1, <4>2, ItemAssumption DEF ListTypes
        <5> QED
          BY <5>1
      <4> QED
        BY <1>1, <4>1, <4>2
    <3>5. Seeks'
      BY <1>1, <1>3, <3>1, <3>2, <3>4 DEF Seeks
    <3> QED
      BY <3>1, <3>3, <3>5 DEF ListInv, ListsWhatStays
  <2> QED
    BY <2>3, <2>4
<1>4. CASE style # "cursor"
  <2>1. /\ Page \in SUBSET present
        /\ Cardinality(Page) \in Nat /\ Cardinality(present) \in Nat
        /\ \/ \A i \in present : Place(i, present) <= after + limit
           \/ /\ Cardinality(Page) = limit
              /\ after + limit < Cardinality(present)
    BY <1>1, <1>4, OffsetPage
  <2>2. \A i \in present : \/ Place(i, present) <= after
                           \/ i \in Page
                           \/ ~(Place(i, present) <= after + limit)
    <3> TAKE i \in present
    <3>1. Place(i, present) \in Nat
      BY <1>1, <1>2, ListFinite, Places
    <3>2. \/ Place(i, present) <= after
          \/ Place(i, present) \in after + 1 .. after + limit
          \/ ~(Place(i, present) <= after + limit)
      BY <1>2, <3>1
    <3> QED
      BY <1>4, <3>2 DEF Page
  <2>3. /\ style \in {"offset", "first"} /\ counted \in BOOLEAN
    BY <1>1, <1>4 DEF ListTypes, Style
  <2>4. CASE style = "first" \/ ~counted
    <3>1. after = 0 /\ listed = {}
      BY <1>1, <2>3, <2>4 DEF Seeks
    <3>2. Page = {} \/ LastPage(Page)
      <4>1. CASE style = "first"
        BY <4>1 DEF LastPage
      <4>2. CASE style = "offset"
        BY <2>1, <2>4, <3>1, <4>2 DEF LastPage
      <4> QED
        BY <2>3, <4>1, <4>2
    <3>3. pc' = "listed" /\ after' = after /\ listed' = Page
      BY <1>1, <3>1, <3>2
    <3>4. \A i \in present : ~(Place(i, present) <= after)
      <4> TAKE i \in present
      <4>1. Place(i, present) \in Nat /\ Place(i, present) >= 1
        BY <1>1, <1>2, ListFinite, Places
      <4> QED
        BY <3>1, <4>1
    <3>5. stay \subseteq Page \/ Cardinality(Page) = limit
      BY <1>2, <2>1, <2>2, <3>4
    <3>6. ListTypes'
      BY <1>1, <2>1, <3>3 DEF ListTypes
    <3>7. ListsWhatStays'
      BY <1>1, <2>3, <2>4, <3>3, <3>5 DEF ListsWhatStays
    <3> QED
      BY <3>3, <3>6, <3>7 DEF ListInv, Seeks
  <2>5. CASE style = "offset" /\ counted
    <3>1. ~removed => \A i \in stay : Place(i, present) <= after => i \in listed
      BY <1>1, <2>5 DEF Seeks
    <3>2. CASE Page = {} \/ LastPage(Page)
      <4>1. \A i \in present : Place(i, present) <= after + limit
        <5>1. CASE Page = {}
          <6>1. Cardinality(Page) = 0
            BY <5>1, FS_EmptySet
          <6> QED
            BY <1>2, <2>1, <6>1
        <5>2. CASE LastPage(Page)
          <6>1. after + Cardinality(Page) >= Cardinality(present)
            BY <2>5, <5>2 DEF LastPage
          <6> QED
            BY <1>2, <2>1, <6>1
        <5> QED
          BY <3>2, <5>1, <5>2
      <4>2. ~removed => stay \subseteq listed'
        BY <1>1, <1>2, <2>2, <3>1, <4>1
      <4>3. pc' = "listed" /\ after' = after
        BY <1>1, <3>2
      <4>4. ListTypes'
        BY <1>1, <2>1, <4>3 DEF ListTypes
      <4> QED
        BY <1>1, <2>5, <4>2, <4>3, <4>4 DEF ListInv, Seeks, ListsWhatStays
    <3>3. CASE ~(Page = {} \/ LastPage(Page))
      <4>1. pc' = "page" /\ after' = after + limit
        BY <1>1, <2>5, <3>3 DEF Following
      <4>2. ~removed => \A i \in stay : Place(i, present) <= after + limit => i \in listed'
        BY <1>1, <1>2, <2>2, <3>1
      <4>3. ListTypes'
        BY <1>1, <1>2, <2>1, <4>1 DEF ListTypes
      <4>4. \A i : Place(i, present)' = Place(i, present)
        BY <1>1 DEF Place
      <4>5. Seeks'
        BY <1>1, <2>5, <4>1, <4>2 DEF Seeks
      <4> QED
        BY <4>1, <4>3, <4>5 DEF ListInv, ListsWhatStays
    <3> QED
      BY <3>2, <3>3
  <2> QED
    BY <2>3, <2>4, <2>5
<1> QED
  BY <1>3, <1>4

LEMMA ListStep == ListInv /\ [Next]_vars => ListInv'
<1> SUFFICES ASSUME ListInv, [Next]_vars PROVE ListInv'
  OBVIOUS
<1>1. CASE \/ WaitIfNeeded \/ WindowEnds \/ WaitAborted \/ Go \/ Error \/ GiveUp \/ Retry
           \/ Cancel \/ Tick
  <2>1. UNCHANGED <<style, limit, counted, loop, provider>>
    BY <1>1 DEF WaitIfNeeded, WindowEnds, WaitAborted, Go, Error, GiveUp, Retry, Cancel, Tick
  <2>2. \/ pc' = pc
        \/ pc' # "listed" /\ (pc' # "failed" => pc \notin {"listed", "failed"})
    BY <1>1 DEF WaitIfNeeded, WindowEnds, WaitAborted, Go, Error, Sends, GiveUp, Retry, Cancel, Tick
  <2> QED
    BY <2>1, <2>2, OtherSteps
<1>2. CASE UNCHANGED vars
  BY <1>2 DEF vars, loop, provider, ListInv, ListTypes, Seeks, ListsWhatStays, Place, EndsUndecodable
<1> QED
  BY <1>1, <1>2, ReceiveKeepsList, ChangeKeepsList, NextListKeepsList DEF Next

\* A list that ends without error has all items that were there from beginning
\* to end, whatever comes and goes between its pages and however often a page
\* is asked for: by cursor, unless the last item of a page has no id; by offset
\* with a total, if none was removed; and else if there is only a page of them.
THEOREM ListsAll == Spec => []ListsWhatStays
<1>1. ListInv => ListsWhatStays
  BY DEF ListInv
<1> QED
  BY <1>1, ListInit, ListStep, PTL DEF Spec

=============================================================================
