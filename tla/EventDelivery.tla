--------------------------- MODULE EventDelivery ---------------------------
(***************************************************************************)
(* What the event pipeline promises: an accepted event is stored, alone,   *)
(* or lost, alone or with others; a lost event does not come back; and a   *)
(* stored one is stored again only if the sender was left without an       *)
(* answer while it was accepted.                                           *)
(***************************************************************************)
CONSTANT Deliveries   \* the events of the webhook requests, one per delivery
VARIABLES fate,       \* fate[d]: what has become of event d
          unanswered  \* the events whose sender was left without an answer

Fates == {"unseen", "accepted", "stored", "duplicated", "lost"}

Init == /\ fate = [d \in Deliveries |-> "unseen"]
        /\ unanswered = {}

Move(from, to) ==
  \A d \in Deliveries : fate'[d] # fate[d] => fate[d] = from /\ fate'[d] = to

Alone == \A d, e \in Deliveries : fate'[d] # fate[d] /\ fate'[e] # fate[e] => d = e

Accept    == Move("unseen", "accepted")
Lose      == Move("accepted", "lost")
Store     == Move("accepted", "stored") /\ Alone
Duplicate == /\ Move("stored", "duplicated") /\ Alone
             /\ \A d \in Deliveries : fate'[d] # fate[d] => d \in unanswered

\* A step of some event, and senders that were left without an answer.
Next == /\ fate' \in [Deliveries -> Fates]
        /\ Accept \/ Lose \/ Store \/ Duplicate
        /\ unanswered \subseteq unanswered'
        /\ \A d \in unanswered' \ unanswered : d \in Deliveries /\ fate[d] = "accepted"

Spec == Init /\ [][Next]_<<fate, unanswered>>
=============================================================================
