------------------------------ MODULE Webhooks ------------------------------
(***************************************************************************)
(* Webhook deliveries of the automation gateway: an event is stored with   *)
(* one delivery for each active subscription, a sender claims a batch      *)
(* under one lease and posts its deliveries one after the other, and a     *)
(* manager retries what failed.                                            *)
(***************************************************************************)
EXTENDS Naturals, FiniteSets

CONSTANTS Hooks, Events, Senders, Managers, Nobody,
          MaxAttempts,         \* failures after which a delivery is a dead letter
          MaxClaims            \* bound of the exploration: claims of a delivery

VARIABLES subscription,        \* none, active or disabled
          events,              \* events on record
          delivery,            \* deliveries by subscription and event
          sender,              \* what each sender holds: its batch and the answer it has just had
          manager,             \* a manager's retry between its check and its write
          received             \* external: how often a receiver has accepted an event

webhookVars == <<subscription, events, delivery, sender, manager, received>>

Deliveries == Hooks \X Events

AutomationWebhookDelivery ==
  [status : {"none", "pending", "processing", "delivered", "failed", "dead_letter"}, attempts : 0..MaxClaims,
   owner : Senders \cup {Nobody}, lease : BOOLEAN, due : BOOLEAN]

NoDelivery == [status |-> "none", attempts |-> 0, owner |-> Nobody, lease |-> FALSE, due |-> TRUE]

WebhookTypeOK ==
  /\ subscription \in [Hooks -> {"none", "active", "disabled"}] /\ events \subseteq Events
  /\ delivery \in [Deliveries -> AutomationWebhookDelivery]
  /\ sender \in [Senders -> [batch : SUBSET Deliveries, at : Deliveries \cup {Nobody}, answer : {"none", "accepted", "failed"}]]
  /\ manager \in [Managers -> Deliveries \cup {Nobody}] /\ received \in [Deliveries -> 0..MaxClaims]

Idle == [batch |-> {}, at |-> Nobody, answer |-> "none"]

WebhookInit ==
  /\ subscription = [h \in Hooks |-> "none"] /\ events = {} /\ delivery = [d \in Deliveries |-> NoDelivery]
  /\ sender = [s \in Senders |-> Idle] /\ manager = [m \in Managers |-> Nobody] /\ received = [d \in Deliveries |-> 0]

-----------------------------------------------------------------------------
(* Subscriptions and events. *)

createSubscription(h) ==
  /\ subscription[h] = "none" /\ subscription' = [subscription EXCEPT ![h] = "active"]
  /\ UNCHANGED <<events, delivery, sender, manager, received>>

\* One transaction ends the subscription and everything that is outstanding for it.
disableSubscription(h) ==
  /\ subscription[h] = "active" /\ subscription' = [subscription EXCEPT ![h] = "disabled"]
  /\ delivery' = [d \in Deliveries |-> IF d[1] = h /\ delivery[d].status \in {"pending", "processing", "failed"}
                                         THEN [delivery[d] EXCEPT !.status = "dead_letter", !.owner = Nobody, !.lease = FALSE] ELSE delivery[d]]
  /\ UNCHANGED <<events, sender, manager, received>>

\* The event and its deliveries are stored with the audit entry they come from; a second one of the same identity is ignored.
recordEvent(e) ==
  /\ e \notin events /\ events' = events \cup {e}
  /\ delivery' = [d \in Deliveries |-> IF d[2] = e /\ subscription[d[1]] = "active" THEN [NoDelivery EXCEPT !.status = "pending"] ELSE delivery[d]]
  /\ UNCHANGED <<subscription, sender, manager, received>>

-----------------------------------------------------------------------------
(* A delivery pass. *)

\* Due and waiting, or under a lease that has expired; the number of attempts is not asked.
Claimable(d) ==
  /\ delivery[d].due /\ delivery[d].attempts < MaxClaims
  /\ delivery[d].status \in {"pending", "failed"} \/ (delivery[d].status = "processing" /\ ~delivery[d].lease)

\* One statement leases the batch; a sender runs one pass at a time.
claimDeliveries(s) ==
  /\ sender[s] = Idle
  /\ \E batch \in SUBSET {d \in Deliveries : Claimable(d)} :
       /\ batch # {} /\ sender' = [sender EXCEPT ![s].batch = batch]
       /\ delivery' = [d \in Deliveries |-> IF d \in batch
            THEN [status |-> "processing", attempts |-> delivery[d].attempts + 1, owner |-> s, lease |-> TRUE, due |-> TRUE] ELSE delivery[d]]
  /\ UNCHANGED <<subscription, events, manager, received>>

\* The next delivery is read; nothing is posted when its subscription has been disabled. The lease is not looked at again.
deliverOne(s) ==
  /\ sender[s].at = Nobody
  /\ \E d \in sender[s].batch :
       \/ subscription[d[1]] # "active" /\ sender' = [sender EXCEPT ![s].batch = @ \ {d}] /\ UNCHANGED received
       \/ /\ subscription[d[1]] = "active"
          /\ \/ received' = [received EXCEPT ![d] = @ + 1] /\ sender' = [sender EXCEPT ![s] = [batch |-> @.batch \ {d}, at |-> d, answer |-> "accepted"]]
             \/ received' = [received EXCEPT ![d] = @ + 1] /\ sender' = [sender EXCEPT ![s] = [batch |-> @.batch \ {d}, at |-> d, answer |-> "failed"]]
             \/ UNCHANGED received /\ sender' = [sender EXCEPT ![s] = [batch |-> @.batch \ {d}, at |-> d, answer |-> "failed"]]
  /\ UNCHANGED <<subscription, events, delivery, manager>>

\* Mutant: any sender may write the result of a delivery.
outcomeOfAnyone(s, d) == TRUE

\* Results are written only while the delivery is processing under the sender's own lease.
holdsDelivery(s, d) == delivery[d].status = "processing" /\ delivery[d].owner = s

completeDelivery(s) ==
  /\ sender[s].answer = "accepted" /\ sender' = [sender EXCEPT ![s].at = Nobody, ![s].answer = "none"]
  /\ delivery' = IF holdsDelivery(s, sender[s].at)
                   THEN [delivery EXCEPT ![sender[s].at] = [@ EXCEPT !.status = "delivered", !.owner = Nobody, !.lease = FALSE]] ELSE delivery
  /\ UNCHANGED <<subscription, events, manager, received>>

\* Mutant: a delivery never becomes a dead letter.
retryForEver(d) == "failed"

\* The last of the allowed attempts makes a dead letter.
statusAfterFailure(d) == IF delivery[d].attempts >= MaxAttempts THEN "dead_letter" ELSE "failed"

\* Wait longer after each failure.
failDelivery(s) ==
  /\ sender[s].answer = "failed" /\ sender' = [sender EXCEPT ![s].at = Nobody, ![s].answer = "none"]
  /\ delivery' = IF holdsDelivery(s, sender[s].at)
                   THEN [delivery EXCEPT ![sender[s].at] = [@ EXCEPT !.status = statusAfterFailure(sender[s].at), !.owner = Nobody, !.lease = FALSE, !.due = FALSE]]
                   ELSE delivery
  /\ UNCHANGED <<subscription, events, manager, received>>

\* The retry's time comes, a lease expires, the sender stops.
becomesDue(d) ==
  /\ ~delivery[d].due /\ delivery' = [delivery EXCEPT ![d].due = TRUE] /\ UNCHANGED <<subscription, events, sender, manager, received>>

deliveryLeaseExpires(d) ==
  /\ delivery[d].lease /\ delivery' = [delivery EXCEPT ![d].lease = FALSE] /\ UNCHANGED <<subscription, events, sender, manager, received>>

senderStops(s) ==
  /\ sender[s] # Idle /\ sender' = [sender EXCEPT ![s] = Idle] /\ UNCHANGED <<subscription, events, delivery, manager, received>>

-----------------------------------------------------------------------------
(* A manager retries: the subscription is read first, the delivery written after. *)

checkRetry(m, d) ==
  /\ manager[m] = Nobody /\ delivery[d].status # "none" /\ subscription[d[1]] = "active"
  /\ manager' = [manager EXCEPT ![m] = d] /\ UNCHANGED <<subscription, events, delivery, sender, received>>

retryDelivery(m) ==
  /\ manager[m] # Nobody /\ manager' = [manager EXCEPT ![m] = Nobody]
  /\ delivery' = IF delivery[manager[m]].status \in {"failed", "dead_letter"}
                   THEN [delivery EXCEPT ![manager[m]] = [@ EXCEPT !.status = "pending", !.due = TRUE]] ELSE delivery
  /\ UNCHANGED <<subscription, events, sender, received>>

SenderSteps(s) == deliverOne(s) \/ completeDelivery(s) \/ failDelivery(s)

WebhookNext ==
  \/ \E h \in Hooks : createSubscription(h) \/ disableSubscription(h)
  \/ \E e \in Events : recordEvent(e)
  \/ \E s \in Senders : claimDeliveries(s) \/ SenderSteps(s) \/ senderStops(s)
  \/ \E d \in Deliveries : becomesDue(d) \/ deliveryLeaseExpires(d)
  \/ \E m \in Managers : retryDelivery(m) \/ \E d \in Deliveries : checkRetry(m, d)

WebhookSpec == WebhookInit /\ [][WebhookNext]_webhookVars

-----------------------------------------------------------------------------
\* A delivery on record as delivered was accepted by the receiver.
DeliveredIsAccepted == \A d \in Deliveries : delivery[d].status = "delivered" => received[d] > 0

\* No late answer, expired lease or retry takes back the record of a delivery.
DeliveredStays ==
  \A d \in Deliveries : delivery[d].status = "delivered" => delivery'[d].status = "delivered"

\* A failed delivery that is out of attempts is never sent again unless a manager retries it.
OutOfAttemptsIsDead == \A d \in Deliveries : delivery[d].status = "failed" => delivery[d].attempts < MaxAttempts

-----------------------------------------------------------------------------
(* The inductive invariant. *)

\* A sender that looks at a delivery has its answer, and an accepted one was accepted.
AnswersAreOfADelivery ==
  \A s \in Senders : /\ sender[s].answer = "none" <=> sender[s].at = Nobody
                     /\ sender[s].answer = "accepted" => received[sender[s].at] > 0

\* What is not on record has no delivery that anybody could hold.
UnrecordedIsNew == \A d \in Deliveries : d[2] \notin events => delivery[d] = NoDelivery

Holders(d) == {s \in Senders : d \in sender[s].batch}

\* Each claim of a delivery lets it be sent once.
SendsAreCounted == \A d \in Deliveries : received[d] + Cardinality(Holders(d)) <= delivery[d].attempts

WebhookInv ==
  /\ WebhookTypeOK /\ DeliveredIsAccepted /\ OutOfAttemptsIsDead
  /\ AnswersAreOfADelivery /\ UnrecordedIsNew /\ SendsAreCounted
=============================================================================
