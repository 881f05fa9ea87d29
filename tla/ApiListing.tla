----------------------------- MODULE ApiListing -----------------------------
(***************************************************************************)
(* How a connector lists what a provider has: the loop over pages, the     *)
(* rate limiter in front of every page and the retries of a page           *)
(* (src/connectors/{okta,sailpoint,gcp}/rate_limiter.go and the sync       *)
(* functions of main.go).  Time is counted in ticks; a sleep ends at its   *)
(* time or later, and any step may be late.                                *)
(*                                                                         *)
(* The provider (external) has items that come and go while they are       *)
(* listed.  Okta's pages follow the id of the last item, IdentityNow's an  *)
(* offset, GCP's first page is taken for all.  A sync makes one list after *)
(* another behind one limiter.                                             *)
(*                                                                         *)
(* A signal may cancel the context of the sync.  It ends the waits of      *)
(* Okta's and IdentityNow's requests; GCP's carry no context.              *)
(***************************************************************************)
EXTENDS Integers, FiniteSets, FiniteSetsExt, Sequences

CONSTANTS Item,             \* ids of items, in the order of the listing
          Start,            \* what the provider may have at first
          Undecodable,      \* ids that are no cursor: of an item that has
                            \*   none, or cannot be decoded
          PageSizes,        \* how many of them a connector asks for
          None,
          Throttle,         \* the limiter: time between requests,
          Limit, Window,    \*   requests per window
          Backoff,          \*   first pause before a retry
          MaxRetries,
          ProviderLimit, ProviderWindow,
          MaxTime, MaxFaults, MaxChanges, MaxLists

ASSUME ItemAssumption ==
    /\ Item \subseteq Nat \ {0} /\ IsFiniteSet(Item)
    /\ Start \subseteq SUBSET Item /\ Undecodable \subseteq Item
ASSUME LimiterAssumption ==
    /\ PageSizes \subseteq Nat \ {0}
    /\ {Throttle, Limit, Window, Backoff, MaxRetries} \subseteq Nat \ {0}
    /\ {ProviderLimit, ProviderWindow, MaxTime, MaxFaults, MaxChanges, MaxLists}
           \subseteq Nat

ASSUME NoneAssumption == None \notin Int

\* 100 ms and 600 a minute, 200 ms and 300 a minute, 100 ms and 1000 in 100
\* seconds: each throttle is the rate of its provider.  These are constants of
\* the code; Backoff, Window and MaxRetries are configured.
ASSUME RateAssumption == ProviderLimit * Throttle = ProviderWindow

Style == {"cursor", "offset", "first"}

VARIABLES style,        \* how the connector asks for the next page,
          limit,        \*   and the size of a page
          counted,      \* whether answers carry X-Total-Count
          pc, after,    \* the loop: after is a cursor or an offset
          listed,       \* items on the pages the loop has gone through
          lastRequest, requestCount, windowStart,   \* the limiter
          read, until,  \* the time it has read, the end of a sleep
          attempt, backoff,
          cancelled,    \* the context has ended
          lists,        \* how many lists have been begun
          sent,         \* observer: when requests were sent
          present,      \* the provider's items
          stay, removed,\* observers: items there all the time, and whether
                        \*   one was removed
          now, faults, changes

limiter  == <<lastRequest, requestCount, windowStart, read, until>>
retry    == <<attempt, backoff>>
loop     == <<after, listed>>
provider == <<present, stay, removed, changes>>
vars     == <<style, limit, counted, pc, loop, limiter, retry, cancelled, lists, sent, provider,
              now, faults>>

PC == {"page", "window", "throttle", "send", "backoff", "listed", "failed"}

\* Only IdentityNow may answer with a total.
Totals == IF style = "offset" THEN BOOLEAN ELSE {FALSE}

Init == /\ style \in Style
        /\ limit \in PageSizes
        /\ counted \in Totals
        /\ pc = "page"
        /\ after = 0
        /\ listed = {}
        /\ cancelled = FALSE /\ lists = 1
        /\ lastRequest = None /\ requestCount = 0 /\ windowStart = 0
        /\ read = 0 /\ until = 0
        /\ attempt = 0 /\ backoff = Backoff
        /\ sent = <<>>
        /\ present \in Start
        /\ stay = present /\ removed = FALSE
        /\ now = 0 /\ faults = 0 /\ changes = 0

Larger(a, b) == IF a >= b THEN a ELSE b

Fault == faults < MaxFaults /\ faults' = faults + 1

-----------------------------------------------------------------------------
(* WaitIfNeeded.                                                           *)

\* A bug: it sleeps what has passed, not what is left.
RestPassed(time) ==
    IF lastRequest = None \/ time - lastRequest >= Throttle THEN 0 ELSE time - lastRequest

\* The last sleep is what is left of Throttle, by the time read at first.
Rest(time) == IF lastRequest = None THEN 0 ELSE Larger(0, Throttle - (time - lastRequest))

WaitIfNeeded ==
    /\ pc = "page"
    /\ read' = now
    /\ LET over  == now - windowStart >= Window
           count == IF over THEN 0 ELSE requestCount
           start == IF over THEN now ELSE windowStart
       IN /\ requestCount' = count
          /\ windowStart' = start
          /\ \/ /\ count >= Limit
                /\ pc' = "window"
                /\ until' = start + Window
             \/ /\ count < Limit
                /\ pc' = "throttle"
                /\ until' = now + Rest(now)
    /\ UNCHANGED <<style, limit, counted, loop, lastRequest, retry, cancelled, lists, sent, provider,
                   now, faults>>

WindowEnds ==
    /\ pc = "window"
    /\ now >= until
    /\ requestCount' = 0
    /\ windowStart' = now
    /\ pc' = "throttle"
    /\ until' = now + Rest(read)
    /\ UNCHANGED <<style, limit, counted, loop, lastRequest, read, retry, cancelled, lists, sent,
                   provider, now, faults>>

\* The context ends the wait with an error that no caller looks at: the request
\* is made at once, past the throttle and the count.
WaitAborted ==
    /\ pc = "window"
    /\ cancelled
    /\ attempt' = 0 /\ backoff' = Backoff
    /\ pc' = "send"
    /\ UNCHANGED <<style, limit, counted, loop, limiter, cancelled, lists, sent, provider, now,
                   faults>>

Go == /\ pc = "throttle"
      /\ now >= until
      /\ lastRequest' = now
      /\ requestCount' = requestCount + 1
      /\ attempt' = 0 /\ backoff' = Backoff
      /\ pc' = "send"
      /\ UNCHANGED <<style, limit, counted, loop, windowStart, read, until, cancelled, lists, sent, provider, now,
                     faults>>

-----------------------------------------------------------------------------
(* RetryWithBackoff around a request, and the loop.                        *)

\* The place of an item in a list, which is in the order of the ids.
Place(i, items) == Cardinality({j \in items : j <= i})

\* The items that the provider answers with.
Page == IF style = "cursor"
        THEN LET rest == {i \in present : i > after} IN {i \in rest : Place(i, rest) <= limit}
        ELSE {i \in present : Place(i, present) \in after + 1 .. after + limit}

\* Whether the last of some items has no id to go on from.
EndsUndecodable(items) == \E i \in items \cap Undecodable : \A j \in items : j <= i

\* A bug: a full page is taken for the last.
LastPageFull(page) ==
    CASE style = "cursor" -> Cardinality(page) <= limit \/ EndsUndecodable(page)
      [] style = "offset" -> LET total == IF counted THEN Cardinality(present) ELSE Cardinality(page)
                             IN after + Cardinality(page) >= total
      [] style = "first"  -> TRUE

\* Whether the loop stops after a page that is not empty.
LastPage(page) ==
    CASE style = "cursor" -> Cardinality(page) < limit \/ EndsUndecodable(page)
      [] style = "offset" -> LET total == IF counted THEN Cardinality(present) ELSE Cardinality(page)
                             IN after + Cardinality(page) >= total
      [] style = "first"  -> TRUE

Following(page) == IF style = "cursor" THEN Max(page) ELSE after + limit

\* A request leaves; with a context that has ended it does not.
Sends == /\ pc = "send"
         /\ style = "first" \/ ~cancelled
         /\ sent' = Append(sent, now)

\* The answer arrives.
Receive ==
    /\ Sends
    /\ listed' = listed \cup Page
    /\ \/ /\ Page = {} \/ LastPage(Page)
          /\ pc' = "listed"
          /\ UNCHANGED after
       \/ /\ Page # {} /\ ~LastPage(Page)
          /\ pc' = "page"
          /\ after' = Following(Page)
    /\ UNCHANGED <<style, limit, counted, limiter, retry, cancelled, lists, provider, now, faults>>

\* An error: after the last attempt the list fails, and so does the sync.  One
\* that tells of the rate limit makes the pause three times as long.
Error ==
    /\ Sends
    /\ Fault
    /\ attempt' = attempt + 1
    /\ \/ /\ attempt + 1 >= MaxRetries
          /\ pc' = "failed"
          /\ UNCHANGED <<until, backoff>>
       \/ /\ attempt + 1 < MaxRetries
          /\ pc' = "backoff"
          /\ \E pause \in {backoff, 3 * backoff} : until' = now + pause
          /\ backoff' = (3 * backoff) \div 2
    /\ UNCHANGED <<style, limit, counted, loop, lastRequest, requestCount, windowStart, read,
                   cancelled, lists, provider, now>>

\* The list fails without another attempt: IdentityNow's 404 and Okta's factors
\* are not retried; the context ends during a request, had ended before it, or
\* ends the pause.
GiveUp ==
    /\ \/ Sends /\ style # "first" /\ Fault /\ UNCHANGED cancelled
       \/ Sends /\ style # "first" /\ cancelled' = TRUE /\ UNCHANGED faults
       \/ pc = "send" /\ style # "first" /\ cancelled /\ UNCHANGED <<sent, cancelled, faults>>
       \/ pc = "backoff" /\ cancelled /\ UNCHANGED <<sent, cancelled, faults>>
    /\ pc' = "failed"
    /\ UNCHANGED <<style, limit, counted, loop, limiter, retry, lists, provider, now>>

Retry == /\ pc = "backoff"
         /\ now >= until
         /\ pc' = "send"
         /\ UNCHANGED <<style, limit, counted, loop, limiter, retry, cancelled, lists, sent, provider,
                        now, faults>>

\* The sync goes on with its next list, behind the same limiter.
NextList ==
    /\ pc \in {"listed", "failed"}
    /\ lists < MaxLists
    /\ lists' = lists + 1
    /\ limit' \in PageSizes
    /\ counted' \in Totals
    /\ after' = 0 /\ listed' = {}
    /\ present' \in Start
    /\ stay' = present' /\ removed' = FALSE
    /\ pc' = "page"
    /\ UNCHANGED <<style, limiter, retry, cancelled, sent, changes, now, faults>>

-----------------------------------------------------------------------------
\* Someone adds or removes an item at the provider.
Change ==
    /\ pc \notin {"listed", "failed"}
    /\ changes < MaxChanges
    /\ changes' = changes + 1
    /\ \/ /\ \E i \in Item \ present : present' = present \cup {i}
          /\ UNCHANGED <<stay, removed>>
       \/ /\ \E i \in present : present' = present \ {i} /\ stay' = stay \ {i}
          /\ removed' = TRUE
    /\ UNCHANGED <<style, limit, counted, pc, loop, limiter, retry, cancelled, lists, sent, now, faults>>

Unfinished == pc \notin {"listed", "failed"} \/ lists < MaxLists

\* The process is told to stop.
Cancel ==
    /\ Unfinished
    /\ ~cancelled
    /\ cancelled' = TRUE
    /\ UNCHANGED <<style, limit, counted, pc, loop, limiter, retry, lists, sent, provider, now,
                   faults>>

Tick == /\ Unfinished
        /\ now < MaxTime
        /\ now' = now + 1
        /\ UNCHANGED <<style, limit, counted, pc, loop, limiter, retry, cancelled, lists, sent,
                       provider, faults>>

Next == \/ WaitIfNeeded \/ WindowEnds \/ WaitAborted \/ Go
        \/ Receive \/ Error \/ GiveUp \/ Retry \/ NextList
        \/ Change \/ Cancel \/ Tick

Spec == Init /\ [][Next]_vars

-----------------------------------------------------------------------------
\* In no window of the provider, wherever it begins, are more requests sent
\* than it allows and one, retries and the requests of several lists included,
\* though retries pass the limiter by: if the configured pause before a retry is
\* two throttles or more (it is 2 s unless okta/config.go:43 is told otherwise),
\* and until a signal stops GCP's connector, whose lists are then asked for at
\* once when they should wait for the window (gcp/main.go:399-404).  The one is
\* due to a request that leaves late (rate_limiter.go:33-103).
UnderProviderLimit ==
    Backoff >= 2 * Throttle =>
        \A m, n \in DOMAIN sent :
            m <= n /\ sent[n] - sent[m] < ProviderWindow =>
                n - m <= ProviderLimit \/ (style = "first" /\ cancelled)

\* A list that ends without error has all items that were there from beginning
\* to end; or it goes by offset and one was removed; or the last item of a page
\* has no id to go on from (okta/main.go:215, 594); or the provider has more
\* than a page and the list took the first page for all, knowing no total or
\* asking for none (sailpoint/main.go:155, gcp/main.go:302).
ListsWhatStays ==
    pc = "listed" =>
        \/ stay \subseteq listed
        \/ style = "offset" /\ removed
        \/ style = "cursor" /\ EndsUndecodable(listed)
        \/ /\ style = "first" \/ (style = "offset" /\ ~counted)
           /\ Cardinality(listed) = limit
=============================================================================
