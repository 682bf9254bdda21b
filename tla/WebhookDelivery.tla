-------------------------- MODULE WebhookDelivery --------------------------
(***************************************************************************)
(* What the outbound webhook dispatcher promises about a delivery, without *)
(* saying how.  A delivery is one event addressed to one subscription.  It *)
(* is offered at most once, attempted a bounded number of times, and ends  *)
(* either delivered or lost; once it has ended nothing more is sent.       *)
(* Losing is always allowed: the queue is in memory and bounded.           *)
(***************************************************************************)
EXTENDS Naturals

CONSTANTS
  Deliveries,   \* the (event, subscription) pairs
  MaxAttempts   \* one initial attempt and one per retry delay

VARIABLES
  fate,   \* delivery -> "unsent" | "live" | "delivered" | "lost"
  tries   \* delivery -> attempts made so far

vars == <<fate, tries>>

Fates == {"unsent", "live", "delivered", "lost"}

TypeOK ==
  /\ fate \in [Deliveries -> Fates]
  /\ tries \in [Deliveries -> 0..MaxAttempts]

Init ==
  /\ fate = [d \in Deliveries |-> "unsent"]
  /\ tries = [d \in Deliveries |-> 0]

\* Some deliveries move from one fate to the next, the others stay.
Move(from, to) ==
  /\ fate' \in [Deliveries -> Fates]
  /\ fate' # fate
  /\ \A d \in Deliveries :
       fate'[d] # fate[d] => fate[d] = from /\ fate'[d] = to
  /\ UNCHANGED tries

\* An event is addressed to the subscriptions that match it, all at once.
Offer == Move("unsent", "live")

Attempt(d) ==
  /\ fate[d] = "live"
  /\ tries[d] < MaxAttempts
  /\ tries' = [tries EXCEPT ![d] = @ + 1]
  /\ UNCHANGED fate

\* The subscriber has answered an attempt with success.
Confirm(d) ==
  /\ fate[d] = "live"
  /\ tries[d] > 0
  /\ fate' = [fate EXCEPT ![d] = "delivered"]
  /\ UNCHANGED tries

\* A full queue, a failing endpoint, the end of the process.
Lose == Move("live", "lost")

Next ==
  \/ Offer \/ Lose
  \/ \E d \in Deliveries : Attempt(d) \/ Confirm(d)

Spec == Init /\ [][Next]_vars
=============================================================================
