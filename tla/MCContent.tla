------------------------------ MODULE MCContent ------------------------------
(***************************************************************************)
(* Content on its way and what is reported of it, for TLC: the workflow of *)
(* an item, monitoring, imports, batch plans, the calendar of an account,  *)
(* analytics and reports, webhooks.  A behaviour is one of the component   *)
(* that Init chooses; they take turns at the state variables s1, s2, ...   *)
(* Whatever works concurrently is one of Actors, whatever is worked on one *)
(* of Subjects; permuting either changes nothing.                          *)
(***************************************************************************)
EXTENDS Integers, Sequences, FiniteSets, TLC, FiniteSetTheorems, WellFoundedInduction, TLAPS

CONSTANTS Actors, Subjects, Nothing,
          WorkflowTargets,                                        \* workflow: NoDraft is Nothing
          Prints, PrintOf, MaxRuns, MaxSignalVersion,             \* monitoring
          Rows, InvalidRows,                                      \* imports
          PlanRows, MaxPlanVersion, MaxItemVersion,               \* batch plans
          Times, Window, Weeks, Gap, MaxWrites,                   \* calendar
          Posts, Mode, Platform, Contracts, NonAdditive, Links, MaxTime, StaleAfter, MaxTries,   \* analytics
          Hooks, Managers, MaxAttempts, MaxClaims                 \* webhooks

ASSUME WorkflowAssumption == IsFiniteSet(WorkflowTargets) /\ Nothing \notin Subjects

ASSUME ImportAssumption == InvalidRows \subseteq Rows /\ Nothing \notin Rows

ASSUME PlanAssumption == PlanRows # {} /\ {MaxPlanVersion, MaxItemVersion} \subseteq Nat \ {0}

ASSUME CalendarAssumption == MaxWrites \in Nat /\ Times \subseteq Nat /\ \A W \in Weeks : W \subseteq Nat /\ W \ Gap \subseteq Times

ASSUME AnalyticsAssumption ==
  Contracts \subseteq Nat \ {0} /\ IsFiniteSet(Contracts) /\ {MaxTime, MaxTries, StaleAfter} \subseteq Nat

ASSUME WebhookAssumption ==
  /\ IsFiniteSet(Actors) /\ {MaxAttempts, MaxClaims} \subseteq Nat \ {0}
  /\ Nothing \notin Actors \cup (Hooks \X Subjects)

\* Values for TLC.  Two addresses of one source: they differ in tracking parameters.  A post that was published, and one
\* that was simulated.
OnePrint == [u \in Subjects |-> CHOOSE f \in Prints : TRUE]
ModeOfPost == [p \in Posts |-> p]
PlatformOfPost == [p \in Posts |-> IF p = "official" THEN "instagram" ELSE "facebook"]

Symmetric == Permutations(Actors) \cup Permutations(Subjects)

VARIABLES component, s1, s2, s3, s4, s5, s6, s7, s8, s9

vars == <<component, s1, s2, s3, s4, s5, s6, s7, s8, s9>>

Workflow == INSTANCE ContentWorkflow WITH Drafts <- Subjects, NoDraft <- Nothing, Targets <- WorkflowTargets,
  status <- s1, sourced <- s2, drafts <- s3, approved <- s4, targets <- s5, proofs <- s6, held <- s7

Monitor == INSTANCE Monitoring WITH Workers <- Actors, Urls <- Subjects, Savers <- Actors,
  monitor <- s1, jobs <- s2, runs <- s3, workers <- s4, prints <- s5, suggestions <- s6, signals <- s7, items <- s8,
  savers <- s9

Plan == INSTANCE BatchPlans WITH Rows <- PlanRows, Requests <- Actors,
  plan <- s1, item <- s2, request <- s3, approvedDrafts <- s4, targets <- s5

Import == INSTANCE ContentImports WITH Callers <- Actors, Bodies <- Subjects,
  session <- s1, result <- s2, items <- s3, caller <- s4, created <- s5, asked <- s6

Calendar == INSTANCE PostingQueues WITH Items <- Subjects, Requests <- Actors, NoRequest <- Nothing,
  now <- s1, profile <- s2, targets <- s3, edits <- s4, requests <- s5

Analytics == INSTANCE AnalyticsReports WITH NoPost <- Nothing, Captures <- Actors,
  now <- s1, capture <- s2, snapshots <- s3, definition <- s4, generation <- s5, report <- s6, link <- s7

Webhook == INSTANCE Webhooks WITH Events <- Subjects, Senders <- Actors, Nobody <- Nothing,
  subscription <- s1, events <- s2, delivery <- s3, sender <- s4, manager <- s5, received <- s6

ASSUME MonitorAssumption ==
  /\ {MaxRuns, MaxSignalVersion} \subseteq Nat \ {0}
  /\ PrintOf \in [Subjects -> Prints] /\ Nothing \notin Monitor!SourceSignal

Unused6 == s6 = Nothing
Unused7 == s7 = Nothing
Unused8 == s8 = Nothing /\ s9 = Nothing

Init ==
  \/ component = "workflow" /\ Workflow!Init /\ Unused8
  \/ component = "monitoring" /\ Monitor!MonitoringInit
  \/ component = "batch plan" /\ Plan!BatchInit /\ Unused6 /\ Unused7 /\ Unused8
  \/ component = "imports" /\ Import!ImportInit /\ Unused7 /\ Unused8
  \/ component = "calendar" /\ Calendar!QueueInit /\ Unused6 /\ Unused7 /\ Unused8
  \/ component = "analytics" /\ Analytics!AnalyticsInit /\ Unused8
  \/ component = "webhooks" /\ Webhook!WebhookInit /\ Unused7 /\ Unused8

WorkflowSteps == component = "workflow" /\ Workflow!Next /\ UNCHANGED <<component, s8, s9>>

MonitorSteps == component = "monitoring" /\ Monitor!MonitoringNext /\ UNCHANGED component

BatchSteps == component = "batch plan" /\ Plan!BatchNext /\ UNCHANGED <<component, s6, s7, s8, s9>>

ImportSteps == component = "imports" /\ Import!ImportNext /\ UNCHANGED <<component, s7, s8, s9>>

CalendarSteps == component = "calendar" /\ Calendar!QueueNext /\ UNCHANGED <<component, s6, s7, s8, s9>>

AnalyticsSteps == component = "analytics" /\ Analytics!AnalyticsNext /\ UNCHANGED <<component, s8, s9>>

WebhookSteps == component = "webhooks" /\ Webhook!WebhookNext /\ UNCHANGED <<component, s7, s8, s9>>

Next == WorkflowSteps \/ MonitorSteps \/ BatchSteps \/ ImportSteps \/ CalendarSteps \/ AnalyticsSteps \/ WebhookSteps

Spec == Init /\ [][Next]_vars

-----------------------------------------------------------------------------
(* Properties. *)

\* Every variable of the components keeps its type.
TypesOK ==
  /\ component = "workflow"   => Workflow!TypeOK
  /\ component = "monitoring" => Monitor!MonitoringTypeOK
  /\ component = "batch plan" => Plan!BatchTypeOK
  /\ component = "imports"    => Import!ImportTypeOK
  /\ component = "calendar"   => Calendar!QueueTypeOK
  /\ component = "analytics"  => Analytics!AnalyticsTypeOK
  /\ component = "webhooks"   => Webhook!WebhookTypeOK

\* What is scheduled was approved, once, and by somebody who saw what it conflicts with: no rejection, retry, takeover of
\* a quiet plan, reschedule or second request queues an unapproved draft, schedules a row twice, gives two targets one
\* proof or one slot, or slips past a conflict that came up after the check.
ScheduledAsReviewed ==
  /\ component = "workflow"   => Workflow!OnlyApprovedIsQueued /\ Workflow!OneProofPerTarget
  /\ component = "batch plan" => Plan!RowScheduledOnce /\ Plan!PlanTellsTheTruth
  /\ component = "calendar"   => Calendar!NoUnreviewedConflict /\ Calendar!QueueSlotsAreDistinct

\* What runs unattended keeps a true account of itself: two monitoring runs never suggest one source, a signal reads
\* saved when its item exists, an import reports the rows that exist, a delivery reads delivered when the receiver
\* accepted it and is not sent beyond its attempts.
AutomationKeepsAccount ==
  /\ component = "monitoring" => Monitor!NoRepeatAcrossRuns /\ Monitor!SavedSignalHasItem
  /\ component = "imports"    => Import!ReportedRowsExist
  /\ component = "webhooks"   => Webhook!DeliveredIsAccepted /\ Webhook!OutOfAttemptsIsDead

\* What a client reads was measured: a capture's own late failure does not hide its metrics, totals add comparable
\* numbers of measured posts, and no simulated publication is behind an open link.
ReportsAreProven ==
  component = "analytics" =>
    Analytics!ReadyOutlivesItsFailure /\ Analytics!TotalsAreComparable /\ Analytics!SharedIsProven

\* What is settled stays: a published or cancelled target, a proof that a handler's completion came too late for, a
\* delivered webhook and a committed import are not changed by whoever read them earlier.
SettledContentStays ==
  [][ /\ component = "workflow" => Workflow!SettledIsFinal /\ Workflow!NoCompletionOverProof
      /\ component = "webhooks" => Webhook!DeliveredStays
      /\ component = "imports"  => Import!CommittedIsFinal ]_vars

-----------------------------------------------------------------------------
(* Proofs.  Webhooks.                                                      *)

\* The number of senders in a set, with one more and with one less.
LEMMA SendersCounted ==
  ASSUME NEW M \in SUBSET Actors
  PROVE  /\ Webhook!Cardinality(M) \in Nat /\ Webhook!Cardinality({}) = 0
         /\ \A j \in M : Webhook!Cardinality(M \ {j}) + 1 = Webhook!Cardinality(M)
         /\ \A j \in Actors \ M : Webhook!Cardinality(M \cup {j}) = Webhook!Cardinality(M) + 1
<1>1. IsFiniteSet(M) /\ Cardinality(M) \in Nat
  BY WebhookAssumption, FS_Subset, FS_CardinalityType
<1>2. ASSUME NEW j \in M PROVE Cardinality(M \ {j}) + 1 = Cardinality(M)
  <2>1. Cardinality(M \ {j}) = Cardinality(M) - 1
    BY <1>1, FS_RemoveElement
  <2> QED BY <1>1, <2>1
<1>3. ASSUME NEW j \in Actors \ M PROVE Cardinality(M \cup {j}) = Cardinality(M) + 1
  BY <1>1, FS_AddElement
<1>4. \A X : Webhook!Cardinality(X) = Cardinality(X)
  BY DEF Webhook!Cardinality, Cardinality
<1> QED BY <1>1, <1>2, <1>3, <1>4, FS_EmptySet

\* When one sender moves, the number of those that hold a delivery moves with its batch.
LEMMA BatchMoves ==
  ASSUME NEW s \in Actors, \A k \in Actors \ {s} : s4'[k].batch = s4[k].batch, NEW d
  PROVE  LET was == d \in s4[s].batch
             is  == d \in s4'[s].batch
             n   == Webhook!Cardinality(Webhook!Holders(d)) IN
         /\ n \in Nat /\ Webhook!Cardinality(Webhook!Holders(d)') \in Nat
         /\ (was <=> is) => Webhook!Cardinality(Webhook!Holders(d)') = n
         /\ was /\ ~is => Webhook!Cardinality(Webhook!Holders(d)') + 1 = n
         /\ ~was /\ is => Webhook!Cardinality(Webhook!Holders(d)') = n + 1
<1> DEFINE M == Webhook!Holders(d)
           N == Webhook!Holders(d)'
           was == d \in s4[s].batch
           is  == d \in s4'[s].batch
<1>1. M \in SUBSET Actors /\ N \in SUBSET Actors
  BY DEF Webhook!Holders
<1>2. (s \in M <=> was) /\ (s \in N <=> is)
  BY DEF Webhook!Holders
<1>3. \A k \in Actors \ {s} : k \in M <=> k \in N
  BY DEF Webhook!Holders
<1> HIDE DEF M, N, was, is
<1>4. (was <=> is) => N = M
  <2> SUFFICES ASSUME was <=> is PROVE \A k \in Actors : k \in N <=> k \in M
    BY <1>1
  <2> QED BY <1>2, <1>3
<1>5. was /\ ~is => N = M \ {s} /\ s \in M
  BY <1>1, <1>2, <1>3
<1>6. ~was /\ is => N = M \cup {s} /\ s \in Actors \ M
  BY <1>1, <1>2, <1>3
<1>7. Webhook!Cardinality(M) \in Nat /\ Webhook!Cardinality(N) \in Nat
  BY <1>1, SendersCounted
<1>8. was /\ ~is => Webhook!Cardinality(N) + 1 = Webhook!Cardinality(M)
  BY <1>1, <1>5, SendersCounted
<1>9. ~was /\ is => Webhook!Cardinality(N) = Webhook!Cardinality(M) + 1
  BY <1>1, <1>6, SendersCounted
<1> QED BY <1>4, <1>7, <1>8, <1>9 DEF M, N, was, is

\* While no sender moves, as many senders hold a delivery.
LEMMA SendersStand ==
  ASSUME NEW d, UNCHANGED s4
  PROVE  Webhook!Cardinality(Webhook!Holders(d)') = Webhook!Cardinality(Webhook!Holders(d)) /\ Webhook!Cardinality(Webhook!Holders(d)) \in Nat
<1>1. PICK M \in SUBSET Actors : M = Webhook!Holders(d)
  BY DEF Webhook!Holders
<1>2. M = Webhook!Holders(d)'
  BY <1>1 DEF Webhook!Holders
<1> QED BY <1>1, <1>2, SendersCounted

\* What the invariant says of one delivery.
LEMMA DeliveryIs ==
  ASSUME Webhook!WebhookInv, NEW d \in Webhook!Deliveries
  PROVE  /\ s3[d] \in Webhook!AutomationWebhookDelivery /\ s3[d].attempts \in 0..MaxClaims /\ s6[d] \in 0..MaxClaims
         /\ s6[d] + Webhook!Cardinality(Webhook!Holders(d)) <= s3[d].attempts
         /\ s3[d].status = "delivered" => s6[d] > 0
         /\ s3[d].status = "failed" => s3[d].attempts < MaxAttempts
         /\ d[2] \notin s2 => s3[d] = Webhook!NoDelivery
         /\ d # Nothing /\ d[1] \in Hooks /\ d[2] \in Subjects
  BY WebhookAssumption DEF Webhook!WebhookInv, Webhook!WebhookTypeOK, Webhook!AutomationWebhookDelivery,
     Webhook!SendsAreCounted, Webhook!DeliveredIsAccepted, Webhook!OutOfAttemptsIsDead,
     Webhook!UnrecordedIsNew, Webhook!Deliveries

\* What the invariant says of one sender.
LEMMA SenderIs ==
  ASSUME Webhook!WebhookInv, NEW s \in Actors
  PROVE  /\ s4[s].batch \subseteq Webhook!Deliveries /\ s4[s].at \in Webhook!Deliveries \cup {Nothing}
         /\ s4[s] = [batch |-> s4[s].batch, at |-> s4[s].at, answer |-> s4[s].answer]
         /\ s4[s].answer \in {"none", "accepted", "failed"}
         /\ s4[s].answer = "none" <=> s4[s].at = Nothing
         /\ s4[s].answer = "accepted" => s6[s4[s].at] > 0
  BY DEF Webhook!WebhookInv, Webhook!WebhookTypeOK, Webhook!AnswersAreOfADelivery

\* A step that moves no sender, counts no attempt and calls nothing delivered or failed that was not keeps the
\* invariant.
LEMMA DeliveriesMove ==
  ASSUME Webhook!WebhookInv, UNCHANGED <<s4, s6>>,
         s1' \in [Hooks -> {"none", "active", "disabled"}], s2' \subseteq Subjects, s2 \subseteq s2',
         s5' \in [Managers -> Webhook!Deliveries \cup {Nothing}],
         s3' \in [Webhook!Deliveries -> Webhook!AutomationWebhookDelivery],
         \A d \in Webhook!Deliveries : /\ s3'[d].attempts = s3[d].attempts
                                       /\ s3'[d].status = "delivered" => s3[d].status = "delivered"
                                       /\ s3'[d].status = "failed" => s3[d].status = "failed"
                                       /\ d[2] \notin s2' => s3'[d] = Webhook!NoDelivery
  PROVE  Webhook!WebhookInv'
<1>1. Webhook!WebhookTypeOK'
  BY DEF Webhook!WebhookInv, Webhook!WebhookTypeOK
<1>2. Webhook!DeliveredIsAccepted' /\ Webhook!OutOfAttemptsIsDead' /\ Webhook!AnswersAreOfADelivery' /\ Webhook!UnrecordedIsNew'
  BY DEF Webhook!WebhookInv, Webhook!DeliveredIsAccepted, Webhook!OutOfAttemptsIsDead, Webhook!AnswersAreOfADelivery,
     Webhook!UnrecordedIsNew
<1>3. ASSUME NEW d \in Webhook!Deliveries PROVE s6'[d] + Webhook!Cardinality(Webhook!Holders(d)') <= s3'[d].attempts
  BY DeliveryIs, SendersStand
<1> QED BY <1>1, <1>2, <1>3 DEF Webhook!WebhookInv, Webhook!SendsAreCounted

\* The fields of a delivery have their types.
LEMMA RecordIs ==
  ASSUME NEW st \in {"none", "pending", "processing", "delivered", "failed", "dead_letter"}, NEW n \in 0..MaxClaims,
         NEW o \in Actors \cup {Nothing}, NEW l \in BOOLEAN, NEW u \in BOOLEAN
  PROVE  [status |-> st, attempts |-> n, owner |-> o, lease |-> l, due |-> u] \in Webhook!AutomationWebhookDelivery
  BY DEF Webhook!AutomationWebhookDelivery

\* The invariant of the webhooks holds before there are subscriptions.
LEMMA WebhooksStart == Webhook!WebhookInit => Webhook!WebhookInv
<1> SUFFICES ASSUME Webhook!WebhookInit PROVE Webhook!WebhookInv
  OBVIOUS
<1>1. Webhook!NoDelivery \in Webhook!AutomationWebhookDelivery /\ Webhook!NoDelivery.attempts = 0 /\ Webhook!NoDelivery.status = "none"
  BY WebhookAssumption DEF Webhook!NoDelivery, Webhook!AutomationWebhookDelivery
<1>2. ASSUME NEW d \in Webhook!Deliveries PROVE s6[d] + Webhook!Cardinality(Webhook!Holders(d)) <= s3[d].attempts
  <2>1. Webhook!Holders(d) = {}
    BY DEF Webhook!WebhookInit, Webhook!Holders, Webhook!Idle
  <2>2. Webhook!Cardinality({}) = 0
    BY SendersCounted
  <2> QED BY <1>1, <2>1, <2>2 DEF Webhook!WebhookInit
<1>3. Webhook!WebhookTypeOK
  BY <1>1, WebhookAssumption DEF Webhook!WebhookInit, Webhook!WebhookTypeOK, Webhook!Idle
<1>4. Webhook!DeliveredIsAccepted /\ Webhook!OutOfAttemptsIsDead /\ Webhook!AnswersAreOfADelivery /\ Webhook!UnrecordedIsNew
  BY <1>1 DEF Webhook!WebhookInit, Webhook!DeliveredIsAccepted, Webhook!OutOfAttemptsIsDead,
     Webhook!AnswersAreOfADelivery, Webhook!UnrecordedIsNew, Webhook!Idle
<1> QED BY <1>2, <1>3, <1>4 DEF Webhook!WebhookInv, Webhook!SendsAreCounted

\* What managers, recorded events and the clock do keeps the invariant.
LEMMA PeopleStep ==
  ASSUME Webhook!WebhookInv,
         \/ \E h \in Hooks : Webhook!createSubscription(h) \/ Webhook!disableSubscription(h)
         \/ \E e \in Subjects : Webhook!recordEvent(e)
         \/ \E d \in Webhook!Deliveries : Webhook!becomesDue(d) \/ Webhook!deliveryLeaseExpires(d)
         \/ \E m \in Managers : Webhook!retryDelivery(m) \/ \E d \in Webhook!Deliveries : Webhook!checkRetry(m, d)
  PROVE  Webhook!WebhookInv' /\ Webhook!DeliveredStays
<1>0. /\ s1 \in [Hooks -> {"none", "active", "disabled"}] /\ s2 \subseteq Subjects
      /\ s5 \in [Managers -> Webhook!Deliveries \cup {Nothing}] /\ s3 \in [Webhook!Deliveries -> Webhook!AutomationWebhookDelivery]
  BY DEF Webhook!WebhookInv, Webhook!WebhookTypeOK
<1>n. Webhook!NoDelivery \in Webhook!AutomationWebhookDelivery /\ Webhook!NoDelivery.attempts = 0 /\ Webhook!NoDelivery.status = "none" /\ Webhook!NoDelivery.due = TRUE
      /\ Webhook!NoDelivery.lease = FALSE
  BY WebhookAssumption DEF Webhook!NoDelivery, Webhook!AutomationWebhookDelivery
<1>1. ASSUME NEW h \in Hooks, Webhook!createSubscription(h) PROVE Webhook!WebhookInv' /\ Webhook!DeliveredStays
  BY <1>0, <1>1, DeliveryIs, DeliveriesMove DEF Webhook!createSubscription, Webhook!DeliveredStays
<1>2. ASSUME NEW h \in Hooks, Webhook!disableSubscription(h) PROVE Webhook!WebhookInv' /\ Webhook!DeliveredStays
  <2>1. ASSUME NEW d \in Webhook!Deliveries
        PROVE  /\ s3'[d] \in Webhook!AutomationWebhookDelivery /\ s3'[d].attempts = s3[d].attempts
               /\ s3'[d] = s3[d] \/ (s3'[d].status = "dead_letter" /\ s3[d].status \in {"pending", "processing", "failed"})
    <3>1. CASE s3'[d] = s3[d]
      BY <3>1, <1>0
    <3>2. CASE /\ s3'[d] = [s3[d] EXCEPT !.status = "dead_letter", !.owner = Nothing, !.lease = FALSE]
               /\ s3[d].status \in {"pending", "processing", "failed"}
      BY <3>2, <1>0 DEF Webhook!AutomationWebhookDelivery
    <3> QED BY <1>2, <3>1, <3>2 DEF Webhook!disableSubscription
  <2>2. s3' \in [Webhook!Deliveries -> Webhook!AutomationWebhookDelivery]
    BY <1>2, <2>1 DEF Webhook!disableSubscription
  <2>3. UNCHANGED <<s4, s6, s2, s5>> /\ s1' \in [Hooks -> {"none", "active", "disabled"}]
    BY <1>0, <1>2 DEF Webhook!disableSubscription
  <2> QED BY <1>0, <1>n, <2>1, <2>2, <2>3, DeliveryIs, DeliveriesMove DEF Webhook!DeliveredStays
<1>3. ASSUME NEW e \in Subjects, Webhook!recordEvent(e) PROVE Webhook!WebhookInv' /\ Webhook!DeliveredStays
  <2>0. PICK p \in Webhook!AutomationWebhookDelivery : p = [Webhook!NoDelivery EXCEPT !.status = "pending"] /\ p.status = "pending" /\ p.attempts = 0
    <3>1. PICK p : p = [Webhook!NoDelivery EXCEPT !.status = "pending"]
      OBVIOUS
    <3>2. p \in Webhook!AutomationWebhookDelivery /\ p.status = "pending" /\ p.attempts = 0
      BY <1>n, <3>1 DEF Webhook!AutomationWebhookDelivery
    <3> QED BY <3>1, <3>2
  <2>1. ASSUME NEW d \in Webhook!Deliveries
        PROVE  /\ s3'[d] \in Webhook!AutomationWebhookDelivery /\ s3'[d].attempts = s3[d].attempts
               /\ s3'[d] = s3[d] \/ (d[2] = e /\ s3'[d].status = "pending" /\ s3[d] = Webhook!NoDelivery)
    BY <1>0, <1>3, <1>n, <2>0, DeliveryIs DEF Webhook!recordEvent
  <2>2. s3' \in [Webhook!Deliveries -> Webhook!AutomationWebhookDelivery]
    BY <1>3, <2>1 DEF Webhook!recordEvent
  <2>3. UNCHANGED <<s4, s6, s1, s5>> /\ s2' = s2 \cup {e}
    BY <1>3 DEF Webhook!recordEvent
  <2> QED BY <1>0, <1>n, <2>1, <2>2, <2>3, DeliveryIs, DeliveriesMove DEF Webhook!DeliveredStays
<1>4. ASSUME NEW d \in Webhook!Deliveries, Webhook!becomesDue(d) PROVE Webhook!WebhookInv' /\ Webhook!DeliveredStays
  <2>1. PICK p : p = [s3[d] EXCEPT !.due = TRUE]
    OBVIOUS
  <2>2. p \in Webhook!AutomationWebhookDelivery /\ p.status = s3[d].status /\ p.attempts = s3[d].attempts
    BY <1>0, <2>1 DEF Webhook!AutomationWebhookDelivery
  <2>3. s3' = [s3 EXCEPT ![d] = p] /\ UNCHANGED <<s1, s2, s4, s5, s6>> /\ s3[d] # Webhook!NoDelivery
    BY <1>n, <1>4, <2>1 DEF Webhook!becomesDue
  <2> QED BY <1>0, <2>2, <2>3, DeliveryIs, DeliveriesMove DEF Webhook!DeliveredStays
<1>5. ASSUME NEW d \in Webhook!Deliveries, Webhook!deliveryLeaseExpires(d) PROVE Webhook!WebhookInv' /\ Webhook!DeliveredStays
  <2>1. PICK p : p = [s3[d] EXCEPT !.lease = FALSE]
    OBVIOUS
  <2>2. p \in Webhook!AutomationWebhookDelivery /\ p.status = s3[d].status /\ p.attempts = s3[d].attempts
    BY <1>0, <2>1 DEF Webhook!AutomationWebhookDelivery
  <2>3. s3' = [s3 EXCEPT ![d] = p] /\ UNCHANGED <<s1, s2, s4, s5, s6>> /\ s3[d] # Webhook!NoDelivery
    BY <1>n, <1>5, <2>1 DEF Webhook!deliveryLeaseExpires
  <2> QED BY <1>0, <2>2, <2>3, DeliveryIs, DeliveriesMove DEF Webhook!DeliveredStays
<1>6. ASSUME NEW m \in Managers, Webhook!retryDelivery(m) PROVE Webhook!WebhookInv' /\ Webhook!DeliveredStays
  <2>0. PICK d \in Webhook!Deliveries : d = s5[m]
    BY <1>0, <1>6 DEF Webhook!retryDelivery
  <2>1. PICK p : p = [s3[d] EXCEPT !.status = "pending", !.due = TRUE]
    OBVIOUS
  <2>2. p \in Webhook!AutomationWebhookDelivery /\ p.status = "pending" /\ p.attempts = s3[d].attempts
    BY <1>0, <2>1 DEF Webhook!AutomationWebhookDelivery
  <2>3. /\ s3' = IF s3[d].status \in {"failed", "dead_letter"} THEN [s3 EXCEPT ![d] = p] ELSE s3
        /\ UNCHANGED <<s1, s2, s4, s6>> /\ s5' \in [Managers -> Webhook!Deliveries \cup {Nothing}]
    BY <1>0, <1>6, <2>0, <2>1 DEF Webhook!retryDelivery
  <2>4. CASE s3[d].status \in {"failed", "dead_letter"}
    <3>1. s3[d] # Webhook!NoDelivery /\ s3[d].status # "delivered"
      BY <1>n, <2>4
    <3> QED BY <1>0, <2>2, <2>3, <2>4, <3>1, DeliveryIs, DeliveriesMove DEF Webhook!DeliveredStays
  <2>5. CASE s3[d].status \notin {"failed", "dead_letter"}
    BY <1>0, <2>3, <2>5, DeliveryIs, DeliveriesMove DEF Webhook!DeliveredStays
  <2> QED BY <2>4, <2>5
<1>7. ASSUME NEW m \in Managers, NEW d \in Webhook!Deliveries, Webhook!checkRetry(m, d) PROVE Webhook!WebhookInv' /\ Webhook!DeliveredStays
  BY <1>0, <1>7, DeliveryIs, DeliveriesMove DEF Webhook!checkRetry, Webhook!DeliveredStays
<1> QED BY <1>1, <1>2, <1>3, <1>4, <1>5, <1>6, <1>7

\* A claim keeps the invariant: every delivery of the batch has one more attempt and one more holder.
LEMMA BatchClaimed ==
  ASSUME Webhook!WebhookInv, NEW s \in Actors, Webhook!claimDeliveries(s) PROVE Webhook!WebhookInv' /\ Webhook!DeliveredStays
<1>0. /\ s4 \in [Actors -> [batch : SUBSET Webhook!Deliveries, at : Webhook!Deliveries \cup {Nothing}, answer : {"none", "accepted", "failed"}]]
      /\ s3 \in [Webhook!Deliveries -> Webhook!AutomationWebhookDelivery] /\ s6 \in [Webhook!Deliveries -> 0..MaxClaims]
  BY DEF Webhook!WebhookInv, Webhook!WebhookTypeOK
<1>1. PICK batch \in SUBSET {d \in Webhook!Deliveries : Webhook!Claimable(d)} :
        /\ s4' = [s4 EXCEPT ![s].batch = batch]
        /\ s3' = [d \in Webhook!Deliveries |-> IF d \in batch
             THEN [status |-> "processing", attempts |-> s3[d].attempts + 1, owner |-> s, lease |-> TRUE, due |-> TRUE] ELSE s3[d]]
  BY DEF Webhook!claimDeliveries
<1>2. UNCHANGED <<s1, s2, s5, s6>> /\ s4[s] = Webhook!Idle
  BY DEF Webhook!claimDeliveries
<1>3. /\ s4'[s].batch = batch /\ s4'[s].at = s4[s].at /\ s4'[s].answer = s4[s].answer
      /\ \A k \in Actors \ {s} : s4'[k] = s4[k]
      /\ s4' \in [Actors -> [batch : SUBSET Webhook!Deliveries, at : Webhook!Deliveries \cup {Nothing}, answer : {"none", "accepted", "failed"}]]
  BY <1>0, <1>1
<1>4. ASSUME NEW d \in batch
      PROVE  /\ s3'[d] \in Webhook!AutomationWebhookDelivery /\ s3'[d].attempts = s3[d].attempts + 1
             /\ s3'[d].status = "processing" /\ s3[d].status \in {"pending", "failed", "processing"}
  <2>1. PICK n \in 0..MaxClaims : n = s3[d].attempts + 1
    BY <1>1, DeliveryIs, WebhookAssumption DEF Webhook!Claimable
  <2>2. s3'[d] = [status |-> "processing", attempts |-> n, owner |-> s, lease |-> TRUE, due |-> TRUE]
    BY <1>1, <2>1
  <2>3. s3[d].status \in {"pending", "failed", "processing"}
    BY <1>1 DEF Webhook!Claimable
  <2>4. s3'[d] \in Webhook!AutomationWebhookDelivery
    BY <2>2, RecordIs
  <2>5. s3'[d].attempts = n /\ s3'[d].status = "processing"
    BY <2>2
  <2> QED BY <2>1, <2>3, <2>4, <2>5
<1>5. \A d \in Webhook!Deliveries \ batch : s3'[d] = s3[d]
  BY <1>1
<1>6. ASSUME NEW d \in Webhook!Deliveries PROVE s6'[d] + Webhook!Cardinality(Webhook!Holders(d)') <= s3'[d].attempts
  <2>1. d \notin s4[s].batch /\ (d \in s4'[s].batch <=> d \in batch)
    BY <1>2, <1>3 DEF Webhook!Idle
  <2>2. \A k \in Actors \ {s} : s4'[k].batch = s4[k].batch
    BY <1>3
  <2>3. /\ Webhook!Cardinality(Webhook!Holders(d)) \in Nat /\ Webhook!Cardinality(Webhook!Holders(d)') \in Nat
        /\ d \in batch => Webhook!Cardinality(Webhook!Holders(d)') = Webhook!Cardinality(Webhook!Holders(d)) + 1
        /\ d \notin batch => Webhook!Cardinality(Webhook!Holders(d)') = Webhook!Cardinality(Webhook!Holders(d))
    BY <2>1, <2>2, BatchMoves
  <2>4. s6[d] + Webhook!Cardinality(Webhook!Holders(d)) <= s3[d].attempts /\ s6'[d] = s6[d] /\ s6[d] \in Nat
        /\ s3[d].attempts \in Nat
    BY <1>2, DeliveryIs
  <2>5. (d \in batch => s3'[d].attempts = s3[d].attempts + 1) /\ (d \notin batch => s3'[d] = s3[d])
    BY <1>4, <1>5
  <2> QED BY <2>3, <2>4, <2>5
<1>7. s3' \in [Webhook!Deliveries -> Webhook!AutomationWebhookDelivery]
  BY <1>0, <1>1, <1>4, <1>5
<1>8. Webhook!WebhookTypeOK'
  BY <1>2, <1>3, <1>7 DEF Webhook!WebhookInv, Webhook!WebhookTypeOK
<1>9. Webhook!DeliveredIsAccepted' /\ Webhook!OutOfAttemptsIsDead'
  BY <1>2, <1>4, <1>5 DEF Webhook!WebhookInv, Webhook!DeliveredIsAccepted, Webhook!OutOfAttemptsIsDead
<1>10. Webhook!AnswersAreOfADelivery'
  BY <1>2, <1>3 DEF Webhook!WebhookInv, Webhook!AnswersAreOfADelivery
<1>11. Webhook!UnrecordedIsNew'
  <2>1. Webhook!NoDelivery.status = "none"
    BY DEF Webhook!NoDelivery
  <2> QED BY <1>2, <1>4, <1>5, <2>1 DEF Webhook!WebhookInv, Webhook!UnrecordedIsNew
<1>12. Webhook!DeliveredStays
  BY <1>4, <1>5 DEF Webhook!DeliveredStays
<1> QED BY <1>6, <1>8, <1>9, <1>10, <1>11, <1>12 DEF Webhook!WebhookInv, Webhook!SendsAreCounted

\* A sender that sends one of its batch, or drops it, keeps the invariant: what was accepted has one holder less.
LEMMA SenderMoves ==
  ASSUME Webhook!WebhookInv, NEW s \in Actors, UNCHANGED <<s1, s2, s3, s5>>,
         s4' \in [Actors -> [batch : SUBSET Webhook!Deliveries, at : Webhook!Deliveries \cup {Nothing}, answer : {"none", "accepted", "failed"}]],
         \A k \in Actors \ {s} : s4'[k] = s4[k],
         s4'[s].batch \subseteq s4[s].batch,
         s4'[s].answer = "none" <=> s4'[s].at = Nothing,
         UNCHANGED s6 \/ \E d \in s4[s].batch : s6' = [s6 EXCEPT ![d] = @ + 1] /\ d \notin s4'[s].batch,
         s4'[s].answer = "accepted" =>
           \E d \in s4[s].batch : s6' = [s6 EXCEPT ![d] = @ + 1] /\ d = s4'[s].at
  PROVE  Webhook!WebhookInv' /\ Webhook!DeliveredStays
<1>0. s6 \in [Webhook!Deliveries -> 0..MaxClaims] /\ s4[s].batch \subseteq Webhook!Deliveries
  BY SenderIs DEF Webhook!WebhookInv, Webhook!WebhookTypeOK
<1>1. ASSUME NEW d \in Webhook!Deliveries
      PROVE  s6'[d] + Webhook!Cardinality(Webhook!Holders(d)') <= s3[d].attempts /\ s6'[d] \in 0..MaxClaims /\ s6'[d] >= s6[d]
  <2>1. \A k \in Actors \ {s} : s4'[k].batch = s4[k].batch
    OBVIOUS
  <2>2. /\ Webhook!Cardinality(Webhook!Holders(d)) \in Nat /\ Webhook!Cardinality(Webhook!Holders(d)') \in Nat
        /\ Webhook!Cardinality(Webhook!Holders(d)') <= Webhook!Cardinality(Webhook!Holders(d))
        /\ d \in s4[s].batch /\ d \notin s4'[s].batch => Webhook!Cardinality(Webhook!Holders(d)') + 1 = Webhook!Cardinality(Webhook!Holders(d))
    <3>1. d \in s4'[s].batch => d \in s4[s].batch
      OBVIOUS
    <3> QED BY <2>1, <3>1, BatchMoves
  <2>3. s6[d] + Webhook!Cardinality(Webhook!Holders(d)) <= s3[d].attempts /\ s6[d] \in Nat /\ s3[d].attempts \in 0..MaxClaims
        /\ MaxClaims \in Nat
    BY DeliveryIs, WebhookAssumption
  <2>4. s6'[d] = s6[d] \/ (s6'[d] = s6[d] + 1 /\ d \in s4[s].batch /\ d \notin s4'[s].batch)
    BY <1>0
  <2> QED BY <2>2, <2>3, <2>4
<1>2. s6' \in [Webhook!Deliveries -> 0..MaxClaims]
  <2>1. DOMAIN s6' = Webhook!Deliveries /\ s6' = [d \in Webhook!Deliveries |-> s6'[d]]
    BY <1>0
  <2> QED BY <1>1, <2>1
<1>3. Webhook!WebhookTypeOK'
  BY <1>2 DEF Webhook!WebhookInv, Webhook!WebhookTypeOK
<1>4. Webhook!DeliveredIsAccepted' /\ Webhook!OutOfAttemptsIsDead' /\ Webhook!UnrecordedIsNew' /\ Webhook!DeliveredStays
  <2>1. \A d \in Webhook!Deliveries : s6[d] \in Nat /\ s6'[d] \in Nat /\ s6'[d] >= s6[d]
    BY <1>0, <1>1
  <2> QED BY <2>1 DEF Webhook!WebhookInv, Webhook!DeliveredIsAccepted, Webhook!OutOfAttemptsIsDead,
     Webhook!UnrecordedIsNew, Webhook!DeliveredStays
<1>5. ASSUME NEW k \in Actors
      PROVE  /\ s4'[k].answer = "none" <=> s4'[k].at = Nothing
             /\ s4'[k].answer = "accepted" => s6'[s4'[k].at] > 0
  <2>1. CASE k # s
    <3>1. s4'[k] = s4[k]
      BY <2>1
    <3>2. s4[k].answer = "accepted" => s4[k].at \in Webhook!Deliveries /\ s6[s4[k].at] > 0
      BY SenderIs
    <3>3. s4[k].answer = "accepted" => s6'[s4[k].at] > 0
      <4>1. \A d \in Webhook!Deliveries : s6[d] > 0 => s6'[d] > 0
        BY <1>0, <1>1
      <4> QED BY <3>2, <4>1
    <3> QED BY <3>1, <3>3, SenderIs
  <2>2. CASE k = s
    <3>1. ASSUME NEW d \in s4[s].batch, s6' = [s6 EXCEPT ![d] = @ + 1] PROVE s6'[d] > 0
      BY <1>0, <3>1
    <3> QED BY <2>2, <3>1
  <2> QED BY <2>1, <2>2
<1> QED BY <1>1, <1>3, <1>4, <1>5 DEF Webhook!WebhookInv, Webhook!SendsAreCounted, Webhook!AnswersAreOfADelivery

\* Sending one delivery, and stopping, keep the invariant.
LEMMA DeliverOne ==
  ASSUME Webhook!WebhookInv, NEW s \in Actors, Webhook!deliverOne(s) \/ Webhook!senderStops(s)
  PROVE  Webhook!WebhookInv' /\ Webhook!DeliveredStays
<1> DEFINE Sender == [batch : SUBSET Webhook!Deliveries, at : Webhook!Deliveries \cup {Nothing}, answer : {"none", "accepted", "failed"}]
<1>0. s4 \in [Actors -> Sender] /\ s4[s].batch \subseteq Webhook!Deliveries /\ Nothing \notin Webhook!Deliveries
  BY SenderIs, WebhookAssumption DEF Webhook!WebhookInv, Webhook!WebhookTypeOK, Webhook!Deliveries
<1>1. CASE Webhook!senderStops(s)
  <2>1. Webhook!Idle \in Sender /\ Webhook!Idle.batch = {} /\ Webhook!Idle.at = Nothing /\ Webhook!Idle.answer = "none"
    BY DEF Webhook!Idle
  <2>2. s4' = [s4 EXCEPT ![s] = Webhook!Idle] /\ UNCHANGED <<s1, s2, s3, s5, s6>>
    BY <1>1 DEF Webhook!senderStops
  <2> HIDE DEF Sender
  <2>3. s4' \in [Actors -> Sender] /\ s4'[s] = Webhook!Idle /\ \A k \in Actors \ {s} : s4'[k] = s4[k]
    BY <1>0, <2>1, <2>2
  <2> QED BY <2>1, <2>2, <2>3, SenderMoves DEF Sender
<1>2. CASE Webhook!deliverOne(s)
  <2>0. UNCHANGED <<s1, s2, s3, s5>> /\ s4[s].at = Nothing
    BY <1>2 DEF Webhook!deliverOne
  <2>1. PICK d \in s4[s].batch :
       \/ s4' = [s4 EXCEPT ![s].batch = @ \ {d}] /\ UNCHANGED s6
       \/ s6' = [s6 EXCEPT ![d] = @ + 1] /\ s4' = [s4 EXCEPT ![s] = [batch |-> @.batch \ {d}, at |-> d, answer |-> "accepted"]]
       \/ s6' = [s6 EXCEPT ![d] = @ + 1] /\ s4' = [s4 EXCEPT ![s] = [batch |-> @.batch \ {d}, at |-> d, answer |-> "failed"]]
       \/ UNCHANGED s6 /\ s4' = [s4 EXCEPT ![s] = [batch |-> @.batch \ {d}, at |-> d, answer |-> "failed"]]
    BY <1>2 DEF Webhook!deliverOne
  <2>2. d \in Webhook!Deliveries /\ d # Nothing
    BY <1>0
  <2>3. PICK rest \in SUBSET Webhook!Deliveries : rest = s4[s].batch \ {d}
    BY <1>0
  <2>4. CASE s4' = [s4 EXCEPT ![s].batch = @ \ {d}] /\ UNCHANGED s6
    <3>1. PICK q \in Sender : q = [batch |-> rest, at |-> Nothing, answer |-> s4[s].answer]
      BY <1>0, <2>3
    <3>2. s4' = [s4 EXCEPT ![s] = q]
      <4>1. PICK r : r = [s4[s] EXCEPT !.batch = rest]
        OBVIOUS
      <4>2. r = q
        BY <1>0, <2>0, <3>1, <4>1, SenderIs
      <4>3. s4' = [s4 EXCEPT ![s] = r]
        BY <1>0, <2>3, <2>4, <4>1
      <4> QED BY <4>2, <4>3
    <3>3. q.batch = rest /\ q.at = Nothing /\ q.answer = "none"
      BY <2>0, <3>1, SenderIs
    <3> HIDE DEF Sender
    <3>4. s4' \in [Actors -> Sender] /\ s4'[s] = q /\ \A k \in Actors \ {s} : s4'[k] = s4[k]
      BY <1>0, <3>2
    <3> QED BY <2>0, <2>3, <2>4, <3>3, <3>4, SenderMoves DEF Sender
  <2>5. CASE s6' = [s6 EXCEPT ![d] = @ + 1] /\ s4' = [s4 EXCEPT ![s] = [batch |-> @.batch \ {d}, at |-> d, answer |-> "accepted"]]
    <3>1. PICK q \in Sender : q = [batch |-> rest, at |-> d, answer |-> "accepted"]
      BY <1>0, <2>3
    <3>2. s4' = [s4 EXCEPT ![s] = q]
      BY <2>3, <2>5, <3>1
    <3>3. q.batch = rest /\ q.at = d /\ q.answer = "accepted"
      BY <3>1
    <3> HIDE DEF Sender
    <3>4. s4' \in [Actors -> Sender] /\ s4'[s] = q /\ \A k \in Actors \ {s} : s4'[k] = s4[k]
      BY <1>0, <3>2
    <3> QED BY <2>0, <2>2, <2>3, <2>5, <3>3, <3>4, SenderMoves DEF Sender
  <2>6. CASE /\ (UNCHANGED s6 \/ s6' = [s6 EXCEPT ![d] = @ + 1])
             /\ s4' = [s4 EXCEPT ![s] = [batch |-> @.batch \ {d}, at |-> d, answer |-> "failed"]]
    <3>1. PICK q \in Sender : q = [batch |-> rest, at |-> d, answer |-> "failed"]
      BY <1>0, <2>3
    <3>2. s4' = [s4 EXCEPT ![s] = q]
      BY <2>3, <2>6, <3>1
    <3>3. q.batch = rest /\ q.at = d /\ q.answer = "failed"
      BY <3>1
    <3> HIDE DEF Sender
    <3>4. s4' \in [Actors -> Sender] /\ s4'[s] = q /\ \A k \in Actors \ {s} : s4'[k] = s4[k]
      BY <1>0, <3>2
    <3> QED BY <2>0, <2>2, <2>3, <2>6, <3>3, <3>4, SenderMoves DEF Sender
  <2> QED BY <2>1, <2>4, <2>5, <2>6
<1> QED BY <1>1, <1>2

\* Writing the result of a delivery keeps the invariant.
LEMMA ResultWritten ==
  ASSUME Webhook!WebhookInv, NEW s \in Actors, Webhook!completeDelivery(s) \/ Webhook!failDelivery(s) PROVE Webhook!WebhookInv' /\ Webhook!DeliveredStays
<1> DEFINE Sender == [batch : SUBSET Webhook!Deliveries, at : Webhook!Deliveries \cup {Nothing}, answer : {"none", "accepted", "failed"}]
<1>0. /\ s4 \in [Actors -> Sender] /\ s3 \in [Webhook!Deliveries -> Webhook!AutomationWebhookDelivery]
  BY DEF Webhook!WebhookInv, Webhook!WebhookTypeOK
<1>1. PICK d \in Webhook!Deliveries : d = s4[s].at
  BY SenderIs DEF Webhook!completeDelivery, Webhook!failDelivery
<1>2. UNCHANGED <<s1, s2, s5, s6>> /\ s4' = [s4 EXCEPT ![s].at = Nothing, ![s].answer = "none"]
  BY DEF Webhook!completeDelivery, Webhook!failDelivery
<1>3. /\ s4' \in [Actors -> Sender]
      /\ s4'[s].at = Nothing /\ s4'[s].answer = "none" /\ s4'[s].batch = s4[s].batch
      /\ \A k \in Actors \ {s} : s4'[k] = s4[k]
  BY <1>0, <1>2
<1>4. ASSUME NEW c PROVE Webhook!Cardinality(Webhook!Holders(c)') = Webhook!Cardinality(Webhook!Holders(c)) /\ Webhook!Cardinality(Webhook!Holders(c)) \in Nat
  <2>1. \A k \in Actors \ {s} : s4'[k].batch = s4[k].batch
    BY <1>3
  <2> QED BY <1>3, <2>1, BatchMoves
<1>5. /\ s3' \in [Webhook!Deliveries -> Webhook!AutomationWebhookDelivery]
      /\ \A c \in Webhook!Deliveries : /\ s3'[c].attempts = s3[c].attempts
                                       /\ s3'[c].status = "delivered" => s3[c].status = "delivered" \/ s6[c] > 0
                                       /\ s3'[c].status = "failed" => s3[c].status = "failed" \/ s3[c].attempts < MaxAttempts
                                       /\ s3[c] = Webhook!NoDelivery => s3'[c] = Webhook!NoDelivery
                                       /\ s3[c].status = "delivered" => s3'[c].status = "delivered"
  <2>0. Webhook!NoDelivery.status = "none"
    BY DEF Webhook!NoDelivery
  <2>1. CASE s3' = s3
    BY <1>0, <2>1
  <2>2. CASE Webhook!holdsDelivery(s, d) /\ Webhook!completeDelivery(s)
    <3>1. PICK p : p = [s3[d] EXCEPT !.status = "delivered", !.owner = Nothing, !.lease = FALSE]
      OBVIOUS
    <3>2. p \in Webhook!AutomationWebhookDelivery /\ p.status = "delivered" /\ p.attempts = s3[d].attempts
      BY <1>0, <3>1 DEF Webhook!AutomationWebhookDelivery
    <3>3. s3' = [s3 EXCEPT ![d] = p] /\ s3[d].status = "processing" /\ s6[d] > 0
      BY <1>1, <2>2, <3>1, SenderIs DEF Webhook!completeDelivery, Webhook!holdsDelivery
    <3> QED BY <1>0, <2>0, <3>2, <3>3
  <2>3. CASE Webhook!holdsDelivery(s, d) /\ Webhook!failDelivery(s)
    <3>0. PICK st \in {"dead_letter", "failed"} : st = Webhook!statusAfterFailure(d) /\ (st = "failed" => ~(s3[d].attempts >= MaxAttempts))
      BY DEF Webhook!statusAfterFailure
    <3>1. PICK p : p = [s3[d] EXCEPT !.status = st, !.owner = Nothing, !.lease = FALSE, !.due = FALSE]
      OBVIOUS
    <3>2. p \in Webhook!AutomationWebhookDelivery /\ p.status = st /\ p.attempts = s3[d].attempts
      BY <1>0, <3>1 DEF Webhook!AutomationWebhookDelivery
    <3>3. s3' = [s3 EXCEPT ![d] = p] /\ s3[d].status = "processing"
      BY <1>1, <2>3, <3>0, <3>1 DEF Webhook!failDelivery, Webhook!holdsDelivery
    <3>4. st = "failed" => s3[d].attempts < MaxAttempts
      BY <3>0, DeliveryIs, WebhookAssumption
    <3> QED BY <1>0, <2>0, <3>0, <3>2, <3>3, <3>4
  <2>4. CASE ~Webhook!holdsDelivery(s, d)
    BY <1>1, <2>1, <2>4 DEF Webhook!completeDelivery, Webhook!failDelivery
  <2> QED BY <2>2, <2>3, <2>4
<1>6. Webhook!WebhookTypeOK'
  BY <1>2, <1>3, <1>5 DEF Webhook!WebhookInv, Webhook!WebhookTypeOK
<1>7. Webhook!DeliveredIsAccepted' /\ Webhook!OutOfAttemptsIsDead' /\ Webhook!UnrecordedIsNew' /\ Webhook!DeliveredStays
  BY <1>2, <1>5 DEF Webhook!WebhookInv, Webhook!DeliveredIsAccepted, Webhook!OutOfAttemptsIsDead,
     Webhook!UnrecordedIsNew, Webhook!DeliveredStays
<1>8. Webhook!AnswersAreOfADelivery'
  BY <1>2, <1>3 DEF Webhook!WebhookInv, Webhook!AnswersAreOfADelivery
<1>9. ASSUME NEW c \in Webhook!Deliveries PROVE s6'[c] + Webhook!Cardinality(Webhook!Holders(c)') <= s3'[c].attempts
  BY <1>2, <1>4, <1>5, DeliveryIs
<1> QED BY <1>6, <1>7, <1>8, <1>9 DEF Webhook!WebhookInv, Webhook!SendsAreCounted

\* Every step of the webhooks keeps their invariant, and what was delivered stays so.
LEMMA WebhookNextKeeps ==
  ASSUME Webhook!WebhookInv, Webhook!WebhookNext
  PROVE  Webhook!WebhookInv' /\ Webhook!DeliveredStays
  BY PeopleStep, BatchClaimed, DeliverOne, ResultWritten DEF Webhook!WebhookNext, Webhook!SenderSteps

\* Webhooks nobody moves keep their invariant.
LEMMA WebhookStands == ASSUME Webhook!WebhookInv, UNCHANGED Webhook!webhookVars PROVE Webhook!WebhookInv'
<1>1. \A d : Webhook!Holders(d)' = Webhook!Holders(d)
  BY DEF Webhook!webhookVars, Webhook!Holders
<1> QED BY <1>1 DEF Webhook!webhookVars, Webhook!WebhookInv, Webhook!WebhookTypeOK, Webhook!DeliveredIsAccepted,
   Webhook!OutOfAttemptsIsDead, Webhook!AnswersAreOfADelivery,
      Webhook!UnrecordedIsNew, Webhook!SendsAreCounted

-----------------------------------------------------------------------------
(* Proofs.  The workflow.                                                  *)

\* Finite sets as the workflow counts them.
LEMMA WorkflowCounts ==
  /\ Workflow!IsFiniteSet({}) /\ Workflow!Cardinality({}) = 0
  /\ \A S, e : Workflow!IsFiniteSet(S) /\ e \notin S =>
       Workflow!IsFiniteSet(S \cup {e}) /\ Workflow!Cardinality(S \cup {e}) = Workflow!Cardinality(S) + 1
  /\ \A S \in SUBSET WorkflowTargets : Workflow!IsFiniteSet(S)
<1>1. \A S : Workflow!Cardinality(S) = Cardinality(S)
  BY DEF Workflow!Cardinality, Cardinality
<1>2. \A S : Workflow!IsFiniteSet(S) <=> IsFiniteSet(S)
  BY DEF Workflow!IsFiniteSet, IsFiniteSet
<1>3. \A S, e : IsFiniteSet(S) /\ e \notin S => IsFiniteSet(S \cup {e}) /\ Cardinality(S \cup {e}) = Cardinality(S) + 1
  BY FS_AddElement
<1>4. \A S \in SUBSET WorkflowTargets : IsFiniteSet(S)
  BY WorkflowAssumption, FS_Subset
<1> QED BY <1>1, <1>2, <1>3, <1>4, FS_EmptySet

\* What no target was scheduled as.
LEMMA NoTargetIs == Workflow!NoTarget \in Workflow!Target /\ Workflow!NoTarget.status = "none" /\ Workflow!NoTarget.mode = "auto_publish"
  BY DEF Workflow!NoTarget, Workflow!Target, Workflow!TargetStatus, Workflow!Modes

\* A target with another status is a target.
LEMMA Restated ==
  ASSUME NEW x \in Workflow!Target, NEW v \in Workflow!TargetStatus
  PROVE  LET r == [x EXCEPT !.status = v] IN r \in Workflow!Target /\ r.status = v /\ r.draft = x.draft /\ r.mode = x.mode
  BY DEF Workflow!Target

\* The invariant of the workflow holds for a new item.
LEMMA WorkflowStarts == Workflow!Init => Workflow!WorkflowInv
<1> SUFFICES ASSUME Workflow!Init PROVE Workflow!WorkflowInv
  OBVIOUS
<1>1. Workflow!TypeOK
  BY NoTargetIs DEF Workflow!Init, Workflow!TypeOK, Workflow!ContentStatus
<1>2. Workflow!OneProofPerTarget /\ Workflow!IsFiniteSet(s6)
  <2>1. s6 = {} /\ Workflow!Published = {} /\ {p.post : p \in s6} = {}
    BY NoTargetIs DEF Workflow!Init, Workflow!Published
  <2> QED BY <2>1, NoTargetIs, WorkflowCounts DEF Workflow!Init, Workflow!OneProofPerTarget
<1>3. Workflow!OnlyApprovedIsQueued /\ Workflow!ApprovedIsSourced /\ Workflow!HeldIsUnproven /\ Workflow!PostsAreMadeFor
  BY DEF Workflow!Init, Workflow!OnlyApprovedIsQueued, Workflow!ApprovedIsSourced, Workflow!HeldIsUnproven,
     Workflow!PostsAreMadeFor
<1> QED BY <1>1, <1>2, <1>3 DEF Workflow!WorkflowInv

\* A step that adds no proof, publishes nothing and schedules approved drafts only keeps the invariant.
LEMMA ItemMoves ==
  ASSUME Workflow!WorkflowInv, UNCHANGED s6, s1' \in Workflow!ContentStatus, s2' \in BOOLEAN, s2 => s2',
         s3' \subseteq Subjects, s4 \subseteq s4', s4' \subseteq Subjects, s4' # {} => s2',
         s5' \in [WorkflowTargets -> Workflow!Target],
         \A t \in WorkflowTargets :
           \/ s5'[t] = s5[t]
           \/ /\ s5[t].status \notin {"published", "cancelled"} /\ s5'[t].status # "published"
              /\ s5[t] = Workflow!NoTarget \/ s5'[t].mode = s5[t].mode
              /\ s5'[t].draft \in s4,
         s7' = {} \/ \E t \in WorkflowTargets : /\ s7' = {t} /\ s5'[t].status = "publishing" /\ s5'[t].mode = "auto_publish"
                                                /\ ~(\E p \in s6 : p.draft = s5'[t].draft)
  PROVE  Workflow!WorkflowInv' /\ Workflow!SettledIsFinal /\ Workflow!NoCompletionOverProof
<1>0. s5 \in [WorkflowTargets -> Workflow!Target] /\ s6 \subseteq Workflow!Proof
  BY DEF Workflow!WorkflowInv, Workflow!TypeOK
<1>1. Workflow!TypeOK'
  BY DEF Workflow!WorkflowInv, Workflow!TypeOK
<1>2. Workflow!Published' = Workflow!Published
  BY NoTargetIs DEF Workflow!Published
<1>3. \A t \in WorkflowTargets : s5[t].status = "published" => s5'[t] = s5[t]
  OBVIOUS
<1>4. Workflow!OneProofPerTarget'
  <2>1. \A t \in Workflow!Published : s5'[t] = s5[t]
    BY <1>3 DEF Workflow!Published
  <2>2. Workflow!Cardinality(s6) = Workflow!Cardinality(Workflow!Published) /\ Workflow!Cardinality({p.post : p \in s6}) = Workflow!Cardinality(s6)
        /\ \A t \in Workflow!Published : \E p \in s6 : p.draft = s5[t].draft
    BY DEF Workflow!WorkflowInv, Workflow!OneProofPerTarget
  <2>3. Workflow!Cardinality(s6') = Workflow!Cardinality(Workflow!Published') /\ Workflow!Cardinality({p.post : p \in s6}') = Workflow!Cardinality(s6')
    BY <1>2, <2>2
  <2> QED BY <1>2, <2>1, <2>2, <2>3 DEF Workflow!OneProofPerTarget
<1>5. Workflow!OnlyApprovedIsQueued'
  <2>1. ASSUME NEW t \in WorkflowTargets, s5'[t] # Workflow!NoTarget PROVE s5'[t].draft \in s4 /\ s2
    <3>1. s5[t] # Workflow!NoTarget => s5[t].draft \in s4
      BY DEF Workflow!WorkflowInv, Workflow!OnlyApprovedIsQueued
    <3>2. s5'[t].draft \in s4
      BY <2>1, <3>1
    <3> QED BY <3>2 DEF Workflow!WorkflowInv, Workflow!ApprovedIsSourced
  <2> QED BY <2>1 DEF Workflow!OnlyApprovedIsQueued
<1>6. Workflow!ApprovedIsSourced'
  BY DEF Workflow!ApprovedIsSourced
<1>7. Workflow!HeldIsUnproven'
  BY DEF Workflow!HeldIsUnproven, Workflow!hasCompletePublishProof
<1>8. Workflow!PostsAreMadeFor'
  <2>1. ASSUME NEW p \in s6 PROVE s5'[p.post].mode = "manual_handoff" \/ s5'[p.post].status = "published"
    <3>1. p.post \in WorkflowTargets
      BY <1>0 DEF Workflow!Proof
    <3>2. s5[p.post].mode = "manual_handoff" \/ s5[p.post].status = "published"
      BY DEF Workflow!WorkflowInv, Workflow!PostsAreMadeFor
    <3> QED BY <3>1, <3>2, NoTargetIs
  <2> QED BY <2>1 DEF Workflow!PostsAreMadeFor
<1>9. Workflow!SettledIsFinal /\ Workflow!NoCompletionOverProof
  BY DEF Workflow!SettledIsFinal, Workflow!NoCompletionOverProof
<1>10. Workflow!IsFiniteSet(s6')
  BY DEF Workflow!WorkflowInv
<1> QED BY <1>1, <1>4, <1>5, <1>6, <1>7, <1>8, <1>9, <1>10 DEF Workflow!WorkflowInv

\* A step that adds the proof of one target and publishes it keeps the invariant: no other proof is made for that
\* post.
LEMMA Proven ==
  ASSUME Workflow!WorkflowInv, NEW t \in WorkflowTargets, NEW q \in WorkflowTargets, NEW x \in Workflow!Proof,
         x.draft = s5[t].draft, x.post = q, \A p \in s6 : p.post # q,
         s5[q].mode = "manual_handoff" \/ q = t,
         s5[t].status \notin {"published", "cancelled"},
         s5[t].status = "publishing" => ~Workflow!hasCompletePublishProof(t),
         Workflow!SetTarget(t, "published"), s1' = "published", s6' = s6 \cup {x}, s7' = {}, UNCHANGED <<s2, Workflow!review>>
  PROVE  Workflow!WorkflowInv' /\ Workflow!SettledIsFinal /\ Workflow!NoCompletionOverProof
<1>0. s5 \in [WorkflowTargets -> Workflow!Target] /\ s6 \subseteq Workflow!Proof
  BY DEF Workflow!WorkflowInv, Workflow!TypeOK
<1>1. PICK r \in Workflow!Target : r = [s5[t] EXCEPT !.status = "published"] /\ r.status = "published" /\ r.draft = s5[t].draft
                          /\ r.mode = s5[t].mode
  BY <1>0, Restated DEF Workflow!TargetStatus
<1>2. s5' \in [WorkflowTargets -> Workflow!Target] /\ s5'[t] = r /\ \A u \in WorkflowTargets \ {t} : s5'[u] = s5[u]
  BY <1>0, <1>1 DEF Workflow!SetTarget
<1>3. Workflow!TypeOK'
  BY <1>0, <1>2 DEF Workflow!WorkflowInv, Workflow!TypeOK, Workflow!review, Workflow!ContentStatus
<1>4. Workflow!IsFiniteSet(s6') /\ Workflow!Cardinality(s6') = Workflow!Cardinality(s6) + 1
  <2>1. Workflow!IsFiniteSet(s6) /\ x \notin s6
    BY DEF Workflow!WorkflowInv
  <2> QED BY <2>1, WorkflowCounts
<1>5. Workflow!Cardinality(Workflow!Published') = Workflow!Cardinality(Workflow!Published) + 1
  <2>1. Workflow!Published' = Workflow!Published \cup {t} /\ t \notin Workflow!Published /\ Workflow!Published \subseteq WorkflowTargets
    BY <1>1, <1>2 DEF Workflow!Published
  <2>2. Workflow!IsFiniteSet(Workflow!Published)
    BY <2>1, WorkflowAssumption, WorkflowCounts
  <2> QED BY <2>1, <2>2, WorkflowCounts
<1>6. Workflow!Cardinality({p.post : p \in s6}') = Workflow!Cardinality({p.post : p \in s6}) + 1
  <2> DEFINE P == {p.post : p \in s6}
  <2>1. P' = P \cup {q} /\ q \notin P /\ P \subseteq WorkflowTargets
    BY <1>0 DEF Workflow!Proof
  <2>2. Workflow!IsFiniteSet(P)
    BY <2>1, WorkflowAssumption, WorkflowCounts
  <2> HIDE DEF P
  <2>3. Workflow!Cardinality(P') = Workflow!Cardinality(P) + 1
    BY <2>1, <2>2, WorkflowCounts
  <2> QED BY <2>3 DEF P
<1>7. Workflow!OneProofPerTarget'
  <2>1. Workflow!Cardinality(s6) = Workflow!Cardinality(Workflow!Published) /\ Workflow!Cardinality({p.post : p \in s6}) = Workflow!Cardinality(s6)
        /\ \A u \in Workflow!Published : \E p \in s6 : p.draft = s5[u].draft
    BY DEF Workflow!WorkflowInv, Workflow!OneProofPerTarget
  <2>2. ASSUME NEW u \in Workflow!Published' PROVE \E p \in s6' : p.draft = s5'[u].draft
    <3>1. u = t \/ (u \in Workflow!Published /\ s5'[u] = s5[u])
      BY <1>2 DEF Workflow!Published
    <3>2. s5'[t].draft = x.draft /\ x \in s6'
      BY <1>1, <1>2
    <3>3. CASE u = t
      BY <3>2, <3>3
    <3>4. CASE u \in Workflow!Published /\ s5'[u] = s5[u]
      BY <2>1, <3>4
    <3> QED BY <3>1, <3>3, <3>4
  <2> QED BY <1>4, <1>5, <1>6, <2>1, <2>2 DEF Workflow!OneProofPerTarget
<1>8. Workflow!OnlyApprovedIsQueued'
  <2>1. s5[t] # Workflow!NoTarget
    <3>1. s5[t].status = "none" => s5[t].draft \notin Subjects \/ s5[t] # Workflow!NoTarget
      BY WorkflowAssumption DEF Workflow!NoTarget
    <3>2. s5[t].draft \in Subjects
      BY DEF Workflow!Proof
    <3> QED BY <3>2, WorkflowAssumption DEF Workflow!NoTarget
  <2> QED BY <1>1, <1>2, <2>1 DEF Workflow!WorkflowInv, Workflow!OnlyApprovedIsQueued, Workflow!review
<1>9. Workflow!ApprovedIsSourced' /\ Workflow!HeldIsUnproven'
  BY DEF Workflow!WorkflowInv, Workflow!ApprovedIsSourced, Workflow!HeldIsUnproven, Workflow!review
<1>10. Workflow!PostsAreMadeFor'
  <2>1. ASSUME NEW p \in s6' PROVE s5'[p.post].mode = "manual_handoff" \/ s5'[p.post].status = "published"
    <3>1. p \in Workflow!Proof /\ p.post \in WorkflowTargets
      BY <1>0 DEF Workflow!Proof
    <3>2. CASE p \in s6
      <4>1. s5[p.post].mode = "manual_handoff" \/ s5[p.post].status = "published"
        BY <3>2 DEF Workflow!WorkflowInv, Workflow!PostsAreMadeFor
      <4> QED BY <1>1, <1>2, <3>1, <4>1
    <3>3. CASE p = x
      BY <1>1, <1>2, <3>3
    <3> QED BY <3>2, <3>3
  <2> QED BY <2>1 DEF Workflow!PostsAreMadeFor
<1>11. Workflow!SettledIsFinal /\ Workflow!NoCompletionOverProof
  BY <1>2 DEF Workflow!SettledIsFinal, Workflow!NoCompletionOverProof
<1> QED BY <1>3, <1>4, <1>7, <1>8, <1>9, <1>10, <1>11 DEF Workflow!WorkflowInv

\* Edits, research and reviews keep the invariant.
LEMMA EditStep ==
  ASSUME Workflow!WorkflowInv,
         \/ Workflow!AddSource
         \/ Workflow!ResearchCommit
         \/ \E to \in Workflow!ContentStatus : Workflow!Transition(to)
         \/ \E d \in Subjects : \/ Workflow!AddDraft(d)
                                \/ Workflow!RecordInstagramCollaboratorApproval(d)
                                \/ \E decision \in Workflow!Decisions : Workflow!RecordApproval(d, decision)
  PROVE  Workflow!WorkflowInv' /\ Workflow!SettledIsFinal /\ Workflow!NoCompletionOverProof
<1>0. /\ s5 \in [WorkflowTargets -> Workflow!Target] /\ s6 \subseteq Workflow!Proof /\ s1 \in Workflow!ContentStatus /\ s2 \in BOOLEAN
      /\ s3 \subseteq Subjects /\ s4 \subseteq Subjects /\ (s4 # {} => s2)
  BY DEF Workflow!WorkflowInv, Workflow!TypeOK, Workflow!ApprovedIsSourced
<1>1. ASSUME Workflow!AddSource PROVE Workflow!WorkflowInv' /\ Workflow!SettledIsFinal /\ Workflow!NoCompletionOverProof
  BY <1>0, <1>1, ItemMoves DEF Workflow!AddSource, Workflow!Outdate, Workflow!review
<1>2. ASSUME Workflow!ResearchCommit PROVE Workflow!WorkflowInv' /\ Workflow!SettledIsFinal /\ Workflow!NoCompletionOverProof
  <2>1. s2' \in {s2, TRUE}
    BY <1>2 DEF Workflow!ResearchCommit
  <2>2. s2' \in BOOLEAN /\ (s2 => s2')
    BY <1>0, <2>1, Zenon
  <2>3. s1' \in Workflow!ContentStatus /\ s7' = {} /\ UNCHANGED <<s3, s4, s5, s6>>
    BY <1>2 DEF Workflow!ResearchCommit, Workflow!Outdate, Workflow!review, Workflow!ContentStatus
  <2> QED BY <1>0, <2>2, <2>3, ItemMoves
<1>3. ASSUME NEW to \in Workflow!ContentStatus, Workflow!Transition(to) PROVE Workflow!WorkflowInv' /\ Workflow!SettledIsFinal /\ Workflow!NoCompletionOverProof
  BY <1>0, <1>3, ItemMoves DEF Workflow!Transition, Workflow!Outdate, Workflow!review
<1>4. ASSUME NEW d \in Subjects, Workflow!AddDraft(d) PROVE Workflow!WorkflowInv' /\ Workflow!SettledIsFinal /\ Workflow!NoCompletionOverProof
  BY <1>0, <1>4, ItemMoves DEF Workflow!AddDraft, Workflow!Outdate, Workflow!ContentStatus
<1>5. ASSUME NEW d \in Subjects, Workflow!RecordInstagramCollaboratorApproval(d) PROVE Workflow!WorkflowInv' /\ Workflow!SettledIsFinal /\ Workflow!NoCompletionOverProof
  BY <1>0, <1>5, ItemMoves DEF Workflow!RecordInstagramCollaboratorApproval, Workflow!Outdate
<1>6. ASSUME NEW d \in Subjects, NEW decision \in Workflow!Decisions, Workflow!RecordApproval(d, decision)
      PROVE  Workflow!WorkflowInv' /\ Workflow!SettledIsFinal /\ Workflow!NoCompletionOverProof
  <2>1. /\ s1' \in Workflow!ContentStatus /\ s4 \subseteq s4' /\ s4' \subseteq Subjects /\ (s4' # {} => s2)
        /\ s7' = {} /\ UNCHANGED <<s2, s3, s5, s6>>
    BY <1>0, <1>6 DEF Workflow!RecordApproval, Workflow!Outdate, Workflow!ContentStatus
  <2> QED BY <1>0, <2>1, ItemMoves
<1> QED BY <1>1, <1>2, <1>3, <1>4, <1>5, <1>6

\* A step that writes one target that is not settled keeps the invariant.
LEMMA TargetMoves ==
  ASSUME Workflow!WorkflowInv, NEW t \in WorkflowTargets, NEW r \in Workflow!Target, s5' = [s5 EXCEPT ![t] = r],
         s5[t].status \notin {"published", "cancelled"}, r.status # "published",
         s5[t] = Workflow!NoTarget \/ r.mode = s5[t].mode, r.draft \in s4,
         s1' \in Workflow!ContentStatus, UNCHANGED <<s2, Workflow!review, s6>>,
         s7' = {} \/ (s7' = {t} /\ r.status = "publishing" /\ r.mode = "auto_publish" /\ ~\E p \in s6 : p.draft = r.draft)
  PROVE  Workflow!WorkflowInv' /\ Workflow!SettledIsFinal /\ Workflow!NoCompletionOverProof
<1>1. s5 \in [WorkflowTargets -> Workflow!Target]
  BY DEF Workflow!WorkflowInv, Workflow!TypeOK
<1>2. s5' \in [WorkflowTargets -> Workflow!Target] /\ s5'[t] = r /\ \A u \in WorkflowTargets \ {t} : s5'[u] = s5[u]
  BY <1>1
<1>3. UNCHANGED <<s2, s3, s4, s6>> /\ s2 \in BOOLEAN /\ s3 \subseteq Subjects /\ s4 \subseteq Subjects
      /\ (s4 # {} => s2)
  BY DEF Workflow!review, Workflow!WorkflowInv, Workflow!TypeOK, Workflow!ApprovedIsSourced
<1>4. \A u \in WorkflowTargets :
           \/ s5'[u] = s5[u]
           \/ /\ s5[u].status \notin {"published", "cancelled"} /\ s5'[u].status # "published"
              /\ s5[u] = Workflow!NoTarget \/ s5'[u].mode = s5[u].mode
              /\ s5'[u].draft \in s4
  BY <1>2
<1>5. s7' = {} \/ \E u \in WorkflowTargets : /\ s7' = {u} /\ s5'[u].status = "publishing" /\ s5'[u].mode = "auto_publish"
                                             /\ ~(\E p \in s6 : p.draft = s5'[u].draft)
  BY <1>2
<1> QED BY <1>2, <1>3, <1>4, <1>5, ItemMoves

\* A status that a handler or an operator gives a target keeps the invariant.
LEMMA Marked ==
  ASSUME Workflow!WorkflowInv, NEW t \in WorkflowTargets, NEW value \in {"publishing", "action_required", "acknowledged", "failed"},
         Workflow!MarkTargetStatus(t, value), s5[t].status \notin {"none", "published", "cancelled"},
         s7' = {} \/ (s7' = {t} /\ value = "publishing" /\ s5[t].mode = "auto_publish" /\ ~Workflow!hasCompletePublishProof(t))
  PROVE  Workflow!WorkflowInv' /\ Workflow!SettledIsFinal /\ Workflow!NoCompletionOverProof
<1>0. s5 \in [WorkflowTargets -> Workflow!Target] /\ s5[t] # Workflow!NoTarget /\ s5[t].draft \in s4
  BY NoTargetIs DEF Workflow!WorkflowInv, Workflow!TypeOK, Workflow!OnlyApprovedIsQueued
<1>1. PICK r \in Workflow!Target : r = [s5[t] EXCEPT !.status = value] /\ r.status = value /\ r.draft = s5[t].draft
                          /\ r.mode = s5[t].mode
  <2>1. value \in Workflow!TargetStatus
    BY DEF Workflow!TargetStatus
  <2> QED BY <1>0, <2>1, Restated
<1>2. s5' = [s5 EXCEPT ![t] = r] /\ UNCHANGED <<s2, Workflow!review, s6>>
  BY <1>1 DEF Workflow!MarkTargetStatus, Workflow!SetTarget
<1>3. s1' \in Workflow!ContentStatus
  BY DEF Workflow!MarkTargetStatus, Workflow!ContentStatus
<1> QED BY <1>0, <1>1, <1>2, <1>3, TargetMoves DEF Workflow!hasCompletePublishProof

\* Scheduling, rescheduling and cancelling keep the invariant.
LEMMA ScheduleStep ==
  ASSUME Workflow!WorkflowInv, NEW t \in WorkflowTargets,
         \/ \E d \in Subjects, mode \in Workflow!Modes : Workflow!ScheduleTarget(t, d, mode)
         \/ \E u \in WorkflowTargets : Workflow!RescheduleTarget(t, u)
         \/ Workflow!CancelTarget(t)
  PROVE  Workflow!WorkflowInv' /\ Workflow!SettledIsFinal /\ Workflow!NoCompletionOverProof
<1>0. s5 \in [WorkflowTargets -> Workflow!Target] /\ s6 \subseteq Workflow!Proof /\ s1 \in Workflow!ContentStatus
      /\ s2 \in BOOLEAN /\ s3 \subseteq Subjects /\ s4 \subseteq Subjects /\ (s4 # {} => s2)
  BY DEF Workflow!WorkflowInv, Workflow!TypeOK, Workflow!ApprovedIsSourced
<1>1. ASSUME NEW d \in Subjects, NEW mode \in Workflow!Modes, Workflow!ScheduleTarget(t, d, mode)
      PROVE  Workflow!WorkflowInv' /\ Workflow!SettledIsFinal /\ Workflow!NoCompletionOverProof
  <2>1. PICK r \in Workflow!Target : r = [status |-> "queued", draft |-> d, mode |-> mode] /\ r.status = "queued" /\ r.draft = d
    <3>1. PICK r : r = [status |-> "queued", draft |-> d, mode |-> mode]
      OBVIOUS
    <3> QED BY <3>1 DEF Workflow!Target, Workflow!TargetStatus
  <2> QED BY <1>0, <1>1, <2>1, TargetMoves, NoTargetIs DEF Workflow!ScheduleTarget, Workflow!Outdate,
     Workflow!ContentStatus
<1>2. ASSUME NEW u \in WorkflowTargets, Workflow!RescheduleTarget(t, u) PROVE Workflow!WorkflowInv' /\ Workflow!SettledIsFinal /\ Workflow!NoCompletionOverProof
  <2>1. s5[t].status = "queued" /\ s5[u] = Workflow!NoTarget /\ u # t /\ s5[t].draft \in s4
    BY <1>2, NoTargetIs DEF Workflow!RescheduleTarget, Workflow!WorkflowInv, Workflow!OnlyApprovedIsQueued
  <2>2. PICK r \in Workflow!Target : r = [s5[t] EXCEPT !.status = "cancelled"] /\ r.status = "cancelled" /\ r.draft = s5[t].draft
                            /\ r.mode = s5[t].mode
    BY <1>0, Restated DEF Workflow!TargetStatus
  <2>3. s5' = [s5 EXCEPT ![t] = r, ![u] = s5[t]]
    BY <1>2, <2>2 DEF Workflow!RescheduleTarget
  <2>4. s5' \in [WorkflowTargets -> Workflow!Target] /\ s5'[t] = r /\ s5'[u] = s5[t] /\ \A v \in WorkflowTargets \ {t, u} : s5'[v] = s5[v]
    BY <1>0, <2>1, <2>3
  <2>5. \A v \in WorkflowTargets :
           \/ s5'[v] = s5[v]
           \/ /\ s5[v].status \notin {"published", "cancelled"} /\ s5'[v].status # "published"
              /\ s5[v] = Workflow!NoTarget \/ s5'[v].mode = s5[v].mode
              /\ s5'[v].draft \in s4
    BY <2>1, <2>2, <2>4, NoTargetIs
  <2>6. s1' = "scheduled" /\ s7' = {} /\ UNCHANGED <<s2, s3, s4, s6>>
    BY <1>2 DEF Workflow!RescheduleTarget, Workflow!Outdate, Workflow!review
  <2> QED BY <1>0, <2>4, <2>5, <2>6, ItemMoves DEF Workflow!ContentStatus
<1>3. ASSUME Workflow!CancelTarget(t) PROVE Workflow!WorkflowInv' /\ Workflow!SettledIsFinal /\ Workflow!NoCompletionOverProof
  <2>1. s1' \in Workflow!ContentStatus /\ s7' = {} /\ UNCHANGED <<s2, s3, s4, s6>>
    BY <1>0, <1>3 DEF Workflow!CancelTarget, Workflow!Outdate, Workflow!review, Workflow!ContentStatus
  <2>2. CASE s5[t].status = "queued"
    <3>1. PICK r \in Workflow!Target : r = [s5[t] EXCEPT !.status = "cancelled"] /\ r.status = "cancelled" /\ r.draft = s5[t].draft
                              /\ r.mode = s5[t].mode
      BY <1>0, Restated DEF Workflow!TargetStatus
    <3>2. s5' = [s5 EXCEPT ![t] = r] /\ s5[t].draft \in s4
      BY <1>3, <2>2, <3>1, NoTargetIs DEF Workflow!CancelTarget, Workflow!SetTarget, Workflow!WorkflowInv,
         Workflow!OnlyApprovedIsQueued
    <3> QED BY <2>1, <2>2, <3>1, <3>2, TargetMoves DEF Workflow!review
  <2>3. CASE s5[t].status = "cancelled"
    <3>1. PICK r : r = [s5[t] EXCEPT !.status = "cancelled"]
      OBVIOUS
    <3>2. r = s5[t]
      BY <1>0, <2>3, <3>1 DEF Workflow!Target
    <3>3. s5' = s5
      BY <1>0, <1>3, <3>1, <3>2 DEF Workflow!CancelTarget, Workflow!SetTarget
    <3> QED BY <1>0, <2>1, <3>3, ItemMoves
  <2> QED BY <1>3, <2>2, <2>3 DEF Workflow!CancelTarget
<1> QED BY <1>1, <1>2, <1>3

\* What the publish handler does keeps the invariant.
LEMMA HandlerStep ==
  ASSUME Workflow!WorkflowInv, NEW t \in WorkflowTargets,
         Workflow!Deliver(t) \/ Workflow!CompleteAutomaticPublication(t) \/ Workflow!NeedsReview(t) \/ Workflow!ClaimLost(t) \/ Workflow!MarkFailed(t)
  PROVE  Workflow!WorkflowInv' /\ Workflow!SettledIsFinal /\ Workflow!NoCompletionOverProof
<1>0. s5 \in [WorkflowTargets -> Workflow!Target] /\ s6 \subseteq Workflow!Proof
  BY DEF Workflow!WorkflowInv, Workflow!TypeOK
<1>h. t \in s7 => s5[t].status = "publishing" /\ s5[t].mode = "auto_publish" /\ ~Workflow!hasCompletePublishProof(t)
  BY DEF Workflow!WorkflowInv, Workflow!HeldIsUnproven
<1>1. ASSUME Workflow!DeliverHandoff(t) \/ Workflow!NeedsReview(t) \/ Workflow!ClaimLost(t) \/ Workflow!MarkFailed(t)
      PROVE  Workflow!WorkflowInv' /\ Workflow!SettledIsFinal /\ Workflow!NoCompletionOverProof
  BY <1>h, <1>1, Marked DEF Workflow!DeliverHandoff, Workflow!NeedsReview, Workflow!ClaimLost, Workflow!MarkFailed,
     Workflow!Outdate, Workflow!Settled
<1>2. ASSUME Workflow!BeginPublishing(t) PROVE Workflow!WorkflowInv' /\ Workflow!SettledIsFinal /\ Workflow!NoCompletionOverProof
  BY <1>2, Marked DEF Workflow!BeginPublishing, Workflow!Settled
<1>3. ASSUME Workflow!CompleteAutomaticPublication(t) PROVE Workflow!WorkflowInv' /\ Workflow!SettledIsFinal /\ Workflow!NoCompletionOverProof
  <2>1. t \in s7 /\ s7' = {} /\ Workflow!SetTarget(t, "published") /\ s1' = "published" /\ UNCHANGED <<s2, Workflow!review>>
    BY <1>3 DEF Workflow!CompleteAutomaticPublication, Workflow!Outdate
  <2>2. s5[t].draft \in s4 /\ s4 \subseteq Subjects
    BY <1>h, <2>1, NoTargetIs DEF Workflow!WorkflowInv, Workflow!OnlyApprovedIsQueued, Workflow!TypeOK
  <2>3. PICK x \in Workflow!Proof : x = [draft |-> s5[t].draft, post |-> t]
    BY <2>2 DEF Workflow!Proof
  <2>4. x.draft = s5[t].draft /\ x.post = t /\ s6' = s6 \cup {x}
    BY <1>3, <2>3 DEF Workflow!CompleteAutomaticPublication
  <2>5. \A p \in s6 : p.post # t
    BY <1>h, <2>1 DEF Workflow!WorkflowInv, Workflow!PostsAreMadeFor
  <2> QED BY <1>h, <2>1, <2>4, <2>5, Proven
<1> QED BY <1>1, <1>2, <1>3 DEF Workflow!Deliver

\* What an operator does keeps the invariant.
LEMMA OperatorStep ==
  ASSUME Workflow!WorkflowInv, NEW t \in WorkflowTargets,
         Workflow!AcknowledgeManualHandoff(t) \/ (\E p \in WorkflowTargets : Workflow!ConfirmManualPublication(t, p)) \/ Workflow!ConfirmProviderPublication(t)
  PROVE  Workflow!WorkflowInv' /\ Workflow!SettledIsFinal /\ Workflow!NoCompletionOverProof
<1>0. s5 \in [WorkflowTargets -> Workflow!Target] /\ s6 \subseteq Workflow!Proof /\ s1 \in Workflow!ContentStatus
      /\ s2 \in BOOLEAN /\ s3 \subseteq Subjects /\ s4 \subseteq Subjects /\ (s4 # {} => s2)
  BY DEF Workflow!WorkflowInv, Workflow!TypeOK, Workflow!ApprovedIsSourced
<1>1. ASSUME Workflow!AcknowledgeManualHandoff(t) PROVE Workflow!WorkflowInv' /\ Workflow!SettledIsFinal /\ Workflow!NoCompletionOverProof
  <2>1. CASE s5[t].status = "action_required" /\ Workflow!MarkTargetStatus(t, "acknowledged")
    BY <1>1, <2>1, Marked DEF Workflow!AcknowledgeManualHandoff, Workflow!Outdate
  <2>2. CASE UNCHANGED <<s1, s2, Workflow!review, s5, s6>>
    BY <1>0, <1>1, <2>2, ItemMoves DEF Workflow!AcknowledgeManualHandoff, Workflow!Outdate, Workflow!review
  <2> QED BY <1>1, <2>1, <2>2 DEF Workflow!AcknowledgeManualHandoff
<1>2. ASSUME NEW q \in WorkflowTargets, Workflow!RecordProof(t, q), s5[q].mode = "manual_handoff" \/ q = t,
             s5[t].status \in {"action_required", "acknowledged"}
      PROVE  Workflow!WorkflowInv' /\ Workflow!SettledIsFinal /\ Workflow!NoCompletionOverProof
  <2>1. PICK x \in Workflow!Proof : x = [draft |-> s5[t].draft, post |-> q]
    BY <1>0, <1>2 DEF Workflow!Proof, Workflow!RecordProof
  <2>2. x.draft = s5[t].draft /\ x.post = q /\ s6' = s6 \cup {x}
    BY <1>2, <2>1 DEF Workflow!RecordProof
  <2>3. s7' = {} /\ Workflow!SetTarget(t, "published") /\ s1' = "published" /\ UNCHANGED <<s2, Workflow!review>> /\ \A p \in s6 : p.post # q
    BY <1>2 DEF Workflow!RecordProof, Workflow!Outdate
  <2> QED BY <1>2, <2>2, <2>3, Proven
<1> QED BY <1>1, <1>2 DEF Workflow!ConfirmManualPublication, Workflow!ConfirmProviderPublication

\* Every step of the workflow keeps its invariant; what is settled stays, and no completion overwrites a proof.
LEMMA WorkflowNextKeeps ==
  ASSUME Workflow!WorkflowInv, Workflow!Next
  PROVE  Workflow!WorkflowInv' /\ Workflow!SettledIsFinal /\ Workflow!NoCompletionOverProof
  BY EditStep, ScheduleStep, HandlerStep, OperatorStep DEF Workflow!Next, Workflow!TargetStep

\* An item nobody touches keeps its invariant.
LEMMA WorkflowStands == ASSUME Workflow!WorkflowInv, UNCHANGED Workflow!vars PROVE Workflow!WorkflowInv'
  BY DEF Workflow!vars, Workflow!WorkflowInv, Workflow!TypeOK, Workflow!OnlyApprovedIsQueued,
     Workflow!OneProofPerTarget, Workflow!Published, Workflow!ApprovedIsSourced, Workflow!HeldIsUnproven,
    Workflow!hasCompletePublishProof, Workflow!PostsAreMadeFor

-----------------------------------------------------------------------------
(* Proofs.  Imports.                                                       *)

\* The invariant of the imports holds before there is a session.
LEMMA ImportStarts == Import!ImportInit => Import!ImportInv
<1> SUFFICES ASSUME Import!ImportInit PROVE Import!ImportInv
  OBVIOUS
<1>1. Import!ImportTypeOK
  BY DEF Import!ImportInit, Import!ImportTypeOK, Import!AutomationImportRowStatus
<1>2. Import!ReportedRowsExist /\ Import!CommitsAreTrue /\ Import!PreviewIsKept
  BY DEF Import!ImportInit, Import!ReportedRowsExist, Import!CommitsAreTrue, Import!PreviewIsKept
<1> QED BY <1>1, <1>2 DEF Import!ImportInv

\* The preview, its expiry and the idempotent create keep the invariant.
LEMMA SessionSteps ==
  ASSUME Import!ImportInv, Import!previewImport \/ Import!importGrowsStale \/ (\E c \in Actors : Import!writePublicCreate(c) \/ \E b \in Subjects : Import!publicCreate(c, b))
  PROVE  Import!ImportInv' /\ Import!CommittedIsFinal
<1>0. /\ s1 \in [status : {"none", "staged", "processing", "committed", "failed"}, stale : BOOLEAN]
      /\ s2 \in [Rows -> Import!AutomationImportRowStatus] /\ s6 \in [Actors -> Subjects \cup {Nothing}] /\ s5 \in Subjects \cup {Nothing}
  BY DEF Import!ImportInv, Import!ImportTypeOK
<1>1. CASE Import!previewImport
  <2>1. s1.status = "none" /\ s1' = [s1 EXCEPT !.status = "staged"] /\ UNCHANGED <<s3, s4, s5, s6>>
        /\ s2' = [r \in Rows |-> Import!normalizeContentImportRow(r)]
    BY <1>1 DEF Import!previewImport
  <2>2. /\ s1' \in [status : {"none", "staged", "processing", "committed", "failed"}, stale : BOOLEAN]
        /\ s1'.status = "staged"
    BY <1>0, <2>1
  <2>3. /\ \A r \in Rows : s2'[r] \in {"valid", "invalid"} /\ (r \in InvalidRows => s2'[r] = "invalid")
        /\ s2' \in [Rows -> Import!AutomationImportRowStatus]
    BY <2>1 DEF Import!normalizeContentImportRow, Import!AutomationImportRowStatus
  <2>4. Import!ImportTypeOK'
    BY <2>1, <2>2, <2>3 DEF Import!ImportInv, Import!ImportTypeOK
  <2>5. Import!NotedRowsExist(s2)' /\ Import!ReportedRowsExist'
    BY <2>1, <2>3 DEF Import!ImportInv, Import!NotedRowsExist, Import!ReportedRowsExist
  <2>6. Import!CommitsAreTrue'
    BY <2>1 DEF Import!ImportInv, Import!CommitsAreTrue
  <2> QED BY <2>1, <2>4, <2>5, <2>6 DEF Import!ImportInv, Import!PreviewIsKept, Import!CommittedIsFinal
<1>2. CASE Import!importGrowsStale
  <2>1. s1' \in [status : {"none", "staged", "processing", "committed", "failed"}, stale : BOOLEAN] /\ s1'.status = s1.status
        /\ UNCHANGED <<s2, s3, s4, s5, s6>>
    BY <1>0, <1>2 DEF Import!importGrowsStale
  <2> QED BY <2>1 DEF Import!ImportInv, Import!ImportTypeOK, Import!CommitsAreTrue, Import!PreviewIsKept,
     Import!ReportedRowsExist, Import!NotedRowsExist, Import!CommittedIsFinal
<1>3. CASE \E c \in Actors : Import!writePublicCreate(c) \/ \E b \in Subjects : Import!publicCreate(c, b)
  <2>1. /\ s5' \in Subjects \cup {Nothing} /\ s6' \in [Actors -> Subjects \cup {Nothing}] /\ UNCHANGED <<s1, s2, s3, s4>>
    BY <1>0, <1>3 DEF Import!writePublicCreate, Import!publicCreate
  <2> QED BY <2>1 DEF Import!ImportInv, Import!ImportTypeOK, Import!CommitsAreTrue, Import!PreviewIsKept,
     Import!ReportedRowsExist, Import!NotedRowsExist, Import!CommittedIsFinal
<1> QED BY <1>1, <1>2, <1>3

\* One commit that goes on with true results keeps the invariant.
LEMMA CallerMoves ==
  ASSUME Import!ImportInv, NEW c \in Actors, NEW q \in {Nothing} \cup [rows : [Rows -> Import!AutomationImportRowStatus], left : SUBSET Rows, at : Rows \cup {Nothing}],
         s4' = [s4 EXCEPT ![c] = q], UNCHANGED <<s5, s6>>,
         s1' \in [status : {"none", "staged", "processing", "committed", "failed"}, stale : BOOLEAN], s1'.status # "none",
         s2' \in [Rows -> Import!AutomationImportRowStatus], Import!NotedRowsExist(s2)',
         s3 \subseteq s3', s3' \subseteq Rows \ InvalidRows,
         q = Nothing \/ /\ \A r \in Rows : /\ q.rows[r] \in {"created", "existing"} => r \in s3'
                                           /\ r \in InvalidRows => q.rows[r] = "invalid"
                        /\ q.at \notin InvalidRows
  PROVE  Import!ImportInv'
<1>1. Import!ImportTypeOK'
  BY DEF Import!ImportInv, Import!ImportTypeOK
<1>2. Import!CommitsAreTrue'
  <2>1. ASSUME NEW k \in Actors, s4'[k] # Nothing
        PROVE  /\ \A r \in Rows : /\ s4'[k].rows[r] \in {"created", "existing"} => r \in s3'
                                  /\ r \in InvalidRows => s4'[k].rows[r] = "invalid"
               /\ s4'[k].at \notin InvalidRows
    BY <2>1 DEF Import!ImportInv, Import!ImportTypeOK, Import!CommitsAreTrue, Import!NotedRowsExist
  <2> QED BY <2>1 DEF Import!CommitsAreTrue, Import!NotedRowsExist
<1>3. Import!ReportedRowsExist' /\ Import!PreviewIsKept'
  BY DEF Import!ReportedRowsExist, Import!PreviewIsKept, Import!NotedRowsExist
<1> QED BY <1>1, <1>2, <1>3 DEF Import!ImportInv

\* So does one that notes the result of a row.
LEMMA Answered ==
  ASSUME Import!ImportInv, NEW c \in Actors, NEW r \in Rows, NEW st \in Import!AutomationImportRowStatus, s4[c] # Nothing, Import!Answer(c, r, st),
         UNCHANGED <<s1, s2, s5, s6>>, s3 \subseteq s3', s3' \subseteq Rows \ InvalidRows,
         st \in {"created", "existing"} => r \in s3', r \in InvalidRows => st = "invalid"
  PROVE  Import!ImportInv'
<1> DEFINE Note == [rows : [Rows -> Import!AutomationImportRowStatus], left : SUBSET Rows, at : Rows \cup {Nothing}]
<1>1. PICK p \in Note : p = s4[c]
  BY DEF Import!ImportInv, Import!ImportTypeOK
<1>2. PICK rs \in [Rows -> Import!AutomationImportRowStatus] : rs = [p.rows EXCEPT ![r] = st]
  BY <1>1
<1>3. PICK q : q = [p EXCEPT !.rows = rs, !.left = p.left \ {r}, !.at = Nothing]
  OBVIOUS
<1>4. q \in Note /\ q.rows = rs /\ q.at = Nothing
  BY <1>1, <1>2, <1>3
<1>5. s4' = [s4 EXCEPT ![c] = q]
  BY <1>1, <1>2, <1>3 DEF Import!Answer, Import!ImportInv, Import!ImportTypeOK
<1>6. /\ \A u \in Rows : /\ rs[u] \in {"created", "existing"} => u \in s3'
                         /\ u \in InvalidRows => rs[u] = "invalid"
  BY <1>1, <1>2 DEF Import!ImportInv, Import!CommitsAreTrue, Import!NotedRowsExist
<1>7. s1.status # "none" /\ Import!NotedRowsExist(s2)'
  BY DEF Import!ImportInv, Import!CommitsAreTrue, Import!PreviewIsKept, Import!NotedRowsExist
<1> HIDE DEF Note
<1>8. q.at \notin InvalidRows
  BY <1>4, ImportAssumption
<1> QED BY <1>4, <1>5, <1>6, <1>7, <1>8, CallerMoves DEF Note, Import!ImportInv, Import!ImportTypeOK

\* Every step of a commit keeps the invariant.
LEMMA CommitSteps ==
  ASSUME Import!ImportInv, NEW c \in Actors,
         Import!commitImport(c) \/ Import!lookUpRow(c) \/ Import!createRow(c) \/ Import!completeImportSession(c) \/ Import!failImportSession(c) \/ Import!callerStops(c)
  PROVE  Import!ImportInv' /\ Import!CommittedIsFinal
<1> DEFINE Note == [rows : [Rows -> Import!AutomationImportRowStatus], left : SUBSET Rows, at : Rows \cup {Nothing}]
<1>0. /\ s1 \in [status : {"none", "staged", "processing", "committed", "failed"}, stale : BOOLEAN]
      /\ s2 \in [Rows -> Import!AutomationImportRowStatus] /\ s3 \subseteq Rows \ InvalidRows
      /\ s4 \in [Actors -> {Nothing} \cup Note]
      /\ (s4[c] # Nothing => s1.status # "none")
      /\ (s1.status # "none" => Import!NotedRowsExist(s2))
  BY DEF Import!ImportInv, Import!ImportTypeOK, Import!CommitsAreTrue, Import!PreviewIsKept, Import!ReportedRowsExist
<1>1. CASE Import!commitImport(c)
  <2>1. PICK q \in Note : q = [rows |-> s2, left |-> Rows, at |-> Nothing]
    BY <1>0
  <2>2. q.rows = s2 /\ q.at = Nothing
    BY <2>1
  <2>3. s4' = [s4 EXCEPT ![c] = q] /\ UNCHANGED <<s2, s3, s5, s6>> /\ s1.status \in {"staged", "processing"}
        /\ s1' = [status |-> "processing", stale |-> FALSE]
    BY <1>1, <2>1 DEF Import!commitImport, Import!claimImportSession
  <2>4. s1' \in [status : {"none", "staged", "processing", "committed", "failed"}, stale : BOOLEAN] /\ s1'.status = "processing"
    BY <2>3
  <2>5. Import!NotedRowsExist(s2) /\ Import!NotedRowsExist(s2)'
    BY <1>0, <2>3 DEF Import!NotedRowsExist
  <2> HIDE DEF Note
  <2>6. Import!ImportInv'
    BY <1>0, <2>2, <2>3, <2>4, <2>5, ImportAssumption, CallerMoves DEF Note, Import!NotedRowsExist
  <2> QED BY <2>3, <2>6 DEF Import!CommittedIsFinal
<1>2. CASE Import!lookUpRow(c)
  <2>0. s4[c] # Nothing /\ UNCHANGED <<s1, s2, s3, s5, s6>>
    BY <1>2 DEF Import!lookUpRow
  <2>1. PICK r \in Rows :
       \/ s2[r] = "invalid" /\ Import!Answer(c, r, "invalid")
       \/ s2[r] # "invalid" /\ r \in s3 /\ Import!Answer(c, r, "existing")
       \/ s2[r] # "invalid" /\ r \notin s3 /\ s4' = [s4 EXCEPT ![c].at = r]
    BY <1>0, <1>2 DEF Import!lookUpRow
  <2>2. Import!NotedRowsExist(s2)
    BY <1>0, <2>0
  <2>3. CASE s2[r] = "invalid" /\ Import!Answer(c, r, "invalid")
    BY <1>0, <2>0, <2>2, <2>3, Answered DEF Import!AutomationImportRowStatus, Import!CommittedIsFinal
  <2>4. CASE s2[r] # "invalid" /\ r \in s3 /\ Import!Answer(c, r, "existing")
    BY <1>0, <2>0, <2>2, <2>4, Answered DEF Import!AutomationImportRowStatus, Import!CommittedIsFinal
  <2>5. CASE s2[r] # "invalid" /\ r \notin s3 /\ s4' = [s4 EXCEPT ![c].at = r]
    <3>1. PICK q : q = [s4[c] EXCEPT !.at = r]
      OBVIOUS
    <3>2. q \in Note /\ q.rows = s4[c].rows /\ q.at = r
      BY <1>0, <2>0, <3>1
    <3>3. s4' = [s4 EXCEPT ![c] = q]
      BY <2>5, <3>1
    <3>4. r \notin InvalidRows
      BY <2>2, <2>5 DEF Import!NotedRowsExist
    <3>5. Import!NotedRowsExist(s4[c].rows) /\ Import!NotedRowsExist(s2)'
      BY <2>0, <2>2 DEF Import!NotedRowsExist, Import!ImportInv, Import!CommitsAreTrue
    <3> HIDE DEF Note
    <3>6. Import!ImportInv'
      BY <1>0, <2>0, <3>2, <3>3, <3>4, <3>5, CallerMoves DEF Note, Import!NotedRowsExist
    <3> QED BY <2>0, <3>6 DEF Import!CommittedIsFinal
  <2> QED BY <2>1, <2>3, <2>4, <2>5
<1>3. CASE Import!createRow(c)
  <2>0. s4[c] # Nothing /\ UNCHANGED <<s1, s2, s5, s6>> /\ s4[c].at # Nothing
    BY <1>3 DEF Import!createRow
  <2>1. PICK r \in Rows : r = s4[c].at
    BY <1>0, <2>0
  <2>2. r \notin InvalidRows
    BY <2>0, <2>1 DEF Import!ImportInv, Import!CommitsAreTrue
  <2>3. CASE s3' = s3 \cup {r} /\ Import!Answer(c, r, "created")
    BY <1>0, <2>0, <2>2, <2>3, Answered DEF Import!AutomationImportRowStatus, Import!CommittedIsFinal
  <2>4. CASE UNCHANGED s3 /\ Import!Answer(c, r, "failed")
    BY <1>0, <2>0, <2>2, <2>4, Answered DEF Import!AutomationImportRowStatus, Import!CommittedIsFinal
  <2> QED BY <1>3, <2>1, <2>3, <2>4 DEF Import!createRow
<1>4. CASE Import!completeImportSession(c) \/ Import!failImportSession(c) \/ Import!callerStops(c)
  <2>1. s4[c] # Nothing /\ s4' = [s4 EXCEPT ![c] = Nothing] /\ UNCHANGED <<s3, s5, s6>>
    BY <1>4 DEF Import!completeImportSession, Import!failImportSession, Import!callerStops
  <2>2. /\ s1' \in [status : {"none", "staged", "processing", "committed", "failed"}, stale : BOOLEAN] /\ s1'.status # "none"
        /\ s1.status = "committed" => s1' = s1 /\ s2' = s2
        /\ s2' = s2 \/ s2' = s4[c].rows
    BY <1>0, <1>4, <2>1 DEF Import!completeImportSession, Import!failImportSession, Import!callerStops
  <2>3. Import!NotedRowsExist(s2)' /\ s2' \in [Rows -> Import!AutomationImportRowStatus]
    BY <1>0, <2>1, <2>2 DEF Import!NotedRowsExist, Import!ImportInv, Import!CommitsAreTrue
  <2>4. Import!ImportInv'
    BY <1>0, <2>1, <2>2, <2>3, CallerMoves
  <2> QED BY <2>2, <2>4 DEF Import!CommittedIsFinal
<1> QED BY <1>1, <1>2, <1>3, <1>4

\* Every step of the imports keeps their invariant, and a committed import stays.
LEMMA ImportNextKeeps == ASSUME Import!ImportInv, Import!ImportNext PROVE Import!ImportInv' /\ Import!CommittedIsFinal
  BY SessionSteps, CommitSteps DEF Import!ImportNext

\* Imports nobody moves keep their invariant.
LEMMA ImportStands == ASSUME Import!ImportInv, UNCHANGED Import!importVars PROVE Import!ImportInv'
  BY DEF Import!importVars, Import!ImportInv, Import!ImportTypeOK, Import!ReportedRowsExist, Import!CommitsAreTrue,
     Import!PreviewIsKept, Import!NotedRowsExist

-----------------------------------------------------------------------------
(* Proofs.  Monitoring.                                                    *)

\* The invariant of the monitoring holds before there is a run.
LEMMA MonitoringStarts == Monitor!MonitoringInit => Monitor!MonitoringInv
<1> SUFFICES ASSUME Monitor!MonitoringInit PROVE Monitor!MonitoringInv
  OBVIOUS
<1>1. Monitor!MonitoringTypeOK
  <2>1. s1 \in Monitor!MonitorRule
    BY DEF Monitor!MonitoringInit, Monitor!MonitorRule
  <2>2. s3 \in Seq(Monitor!MonitorRun) /\ Len(s3) = 0 /\ s2 = 0 /\ MaxRuns \in Nat
    BY MonitorAssumption DEF Monitor!MonitoringInit
  <2>3. Len(s3) <= MaxRuns /\ s2 \in 0..MaxRuns
    BY <2>2
  <2> QED BY <2>1, <2>2, <2>3 DEF Monitor!MonitoringInit, Monitor!MonitoringTypeOK
<1>2. Monitor!RunInv
  <2>1. Monitor!JobsAreBounded
    BY MonitorAssumption DEF Monitor!MonitoringInit, Monitor!JobsAreBounded
  <2> QED BY <2>1 DEF Monitor!MonitoringInit, Monitor!RunInv, Monitor!NoRepeatAcrossRuns, Monitor!OneRunIsWorked,
     Monitor!PrintsOfSuggestions, Monitor!GroupsAreFresh
<1>3. Monitor!SignalInv
  BY DEF Monitor!MonitoringInit, Monitor!SignalInv, Monitor!SavedSignalHasItem, Monitor!ItemsAreOfSignals,
     Monitor!SaversAreInOrder
<1> QED BY <1>1, <1>2, <1>3 DEF Monitor!MonitoringInv

\* Signals nobody writes keep their part of the invariant.
LEMMA SignalsStand == ASSUME Monitor!MonitoringInv, Monitor!UnchangedSignals PROVE Monitor!SignalInv'
  BY DEF Monitor!UnchangedSignals, Monitor!MonitoringInv, Monitor!SignalInv, Monitor!SavedSignalHasItem,
     Monitor!ItemsAreOfSignals, Monitor!SaversAreInOrder

\* So do runs.
LEMMA RunsStand == ASSUME Monitor!MonitoringInv, Monitor!UnchangedRuns PROVE Monitor!RunInv'
  BY DEF Monitor!UnchangedRuns, Monitor!MonitoringInv, Monitor!RunInv, Monitor!NoRepeatAcrossRuns,
     Monitor!JobsAreBounded, Monitor!OneRunIsWorked, Monitor!PrintsOfSuggestions, Monitor!GroupsAreFresh

\* Changes of the rule, its schedule and a trigger keep the invariant.
LEMMA RuleStep ==
  ASSUME Monitor!MonitoringInv, (\E enabled \in BOOLEAN : Monitor!update(enabled)) \/ Monitor!recoverSchedulers \/ Monitor!trigger PROVE Monitor!MonitoringInv'
<1>0. s1 \in Monitor!MonitorRule /\ s2 \in 0..MaxRuns /\ s3 \in Seq(Monitor!MonitorRun) /\ Len(s3) \in Nat /\ MaxRuns \in Nat
      /\ s2 + Len(s3) <= MaxRuns
  BY MonitorAssumption DEF Monitor!MonitoringInv, Monitor!MonitoringTypeOK, Monitor!RunInv, Monitor!JobsAreBounded
<1>1. s1' \in Monitor!MonitorRule /\ s2' \in 0..MaxRuns /\ s2' + Len(s3) <= MaxRuns
  <2>1. ASSUME NEW enabled \in BOOLEAN, Monitor!update(enabled) PROVE s1' \in Monitor!MonitorRule /\ s2' = s2
    BY <1>0, <2>1 DEF Monitor!update, Monitor!MonitorRule
  <2>2. CASE Monitor!recoverSchedulers
    BY <1>0, <2>2 DEF Monitor!recoverSchedulers, Monitor!MonitorRule
  <2>3. CASE Monitor!trigger
    BY <1>0, <2>3 DEF Monitor!trigger
  <2> QED BY <1>0, <2>1, <2>2, <2>3
<1>2. UNCHANGED <<s3, s4, s5, s6>> /\ Monitor!UnchangedSignals
  BY DEF Monitor!update, Monitor!recoverSchedulers, Monitor!trigger
<1>3. Monitor!MonitoringTypeOK'
  BY <1>1, <1>2 DEF Monitor!MonitoringInv, Monitor!MonitoringTypeOK, Monitor!UnchangedSignals
<1>4. Monitor!RunInv'
  BY <1>1, <1>2 DEF Monitor!MonitoringInv, Monitor!RunInv, Monitor!NoRepeatAcrossRuns, Monitor!JobsAreBounded,
     Monitor!OneRunIsWorked, Monitor!PrintsOfSuggestions, Monitor!GroupsAreFresh
<1> QED BY <1>2, <1>3, <1>4, SignalsStand DEF Monitor!MonitoringInv

\* The one run that is worked may go on when what it is about to write is not suggested yet.
LEMMA RunMoves ==
  ASSUME Monitor!MonitoringInv, NEW w \in Actors, NEW q \in Monitor!WorkerRun \cup {Nothing}, s4' = [s4 EXCEPT ![w] = q],
         \A x \in Actors \ {w} : s4[x] = Nothing,
         UNCHANGED s1, s2' \in Nat, s3' \in Seq(Monitor!MonitorRun), s2' + Len(s3') <= MaxRuns,
         s5' \subseteq Prints, s6' \subseteq [run : 1..MaxRuns, urls : SUBSET Subjects],
         Monitor!NoRepeatAcrossRuns', Monitor!PrintsOfSuggestions',
         q = Nothing \/ (q.run \in 1..Len(s3') /\ s3'[q.run] = "running"),
         q # Nothing /\ q.pc = "write" =>
           \A group \in q.groups, s \in s6' : s.run # q.run => Monitor!PrintsOf(s) \cap {PrintOf[u] : u \in group} = {}
  PROVE  Monitor!RunInv' /\ (s7' \in [Prints -> Monitor!SourceSignal \cup {Nothing}] /\ UNCHANGED <<s8, s9>> => Monitor!MonitoringTypeOK')
<1>0. s4 \in [Actors -> Monitor!WorkerRun \cup {Nothing}] /\ MaxRuns \in Nat /\ Len(s3') \in Nat
  BY MonitorAssumption DEF Monitor!MonitoringInv, Monitor!MonitoringTypeOK
<1>1. s4' \in [Actors -> Monitor!WorkerRun \cup {Nothing}] /\ s4'[w] = q /\ \A x \in Actors \ {w} : s4'[x] = Nothing
  BY <1>0
<1>2. Monitor!JobsAreBounded' /\ s2' \in 0..MaxRuns /\ Len(s3') <= MaxRuns
  BY <1>0 DEF Monitor!JobsAreBounded
<1>3. Monitor!OneRunIsWorked'
  BY <1>1 DEF Monitor!OneRunIsWorked
<1>4. Monitor!GroupsAreFresh'
  BY <1>1 DEF Monitor!GroupsAreFresh, Monitor!PrintsOf
<1>5. s7' \in [Prints -> Monitor!SourceSignal \cup {Nothing}] /\ UNCHANGED <<s8, s9>> => Monitor!MonitoringTypeOK'
  BY <1>1, <1>2 DEF Monitor!MonitoringInv, Monitor!MonitoringTypeOK
<1> QED BY <1>2, <1>3, <1>4, <1>5 DEF Monitor!RunInv

\* What the invariant says of the one worker that is in a run.
LEMMA WorkerIs ==
  ASSUME Monitor!MonitoringInv, NEW w \in Actors, s4[w] # Nothing
  PROVE  /\ s4[w] \in Monitor!WorkerRun /\ s4[w].run \in 1..Len(s3) /\ s3[s4[w].run] = "running"
         /\ s4[w].run \in 1..MaxRuns /\ s4[w].groups \in SUBSET (SUBSET Subjects)
         /\ \A x \in Actors \ {w} : s4[x] = Nothing
  BY DEF Monitor!MonitoringInv, Monitor!MonitoringTypeOK, Monitor!RunInv, Monitor!OneRunIsWorked, Monitor!WorkerRun

\* The types of the runs and of what they write.
LEMMA RunsAre ==
  ASSUME Monitor!MonitoringInv
  PROVE  /\ s2 \in Nat /\ s3 \in Seq(Monitor!MonitorRun) /\ Len(s3) \in Nat /\ MaxRuns \in Nat /\ s2 + Len(s3) <= MaxRuns
         /\ s5 \subseteq Prints /\ s6 \subseteq [run : 1..MaxRuns, urls : SUBSET Subjects]
         /\ s7 \in [Prints -> Monitor!SourceSignal \cup {Nothing}] /\ s4 \in [Actors -> Monitor!WorkerRun \cup {Nothing}]
  BY MonitorAssumption DEF Monitor!MonitoringInv, Monitor!MonitoringTypeOK, Monitor!RunInv, Monitor!JobsAreBounded

\* A run starts only when no other is worked.
LEMMA StartStep == ASSUME Monitor!MonitoringInv, NEW w \in Actors, Monitor!startRun(w) PROVE Monitor!MonitoringInv'
<1>0. /\ s2 > 0 /\ s4[w] = Nothing /\ s2' = s2 - 1 /\ UNCHANGED <<s1, s5, s6>> /\ Monitor!UnchangedSignals
  BY DEF Monitor!startRun
<1>n. Monitor!NoRepeatAcrossRuns' /\ Monitor!PrintsOfSuggestions'
  BY <1>0 DEF Monitor!MonitoringInv, Monitor!RunInv, Monitor!NoRepeatAcrossRuns, Monitor!PrintsOfSuggestions,
     Monitor!PrintsOf
<1>1. CASE Monitor!startRunHolds /\ s3' = Append(s3, "running") /\ s4' = [s4 EXCEPT ![w] = [run |-> Len(s3) + 1, pc |-> "research", groups |-> {}]]
  <2>1. \A x \in Actors : s4[x] = Nothing
    BY <1>1, RunsAre, WorkerIs DEF Monitor!startRunHolds
  <2>2. PICK n \in 1..MaxRuns : n = Len(s3) + 1
    BY <1>0, RunsAre
  <2>3. PICK q \in Monitor!WorkerRun : q = [run |-> n, pc |-> "research", groups |-> {}]
    BY DEF Monitor!WorkerRun
  <2>4. q.run = n /\ q.pc = "research"
    BY <2>3
  <2>5. s4' = [s4 EXCEPT ![w] = q]
    BY <1>1, <2>2, <2>3
  <2>6. s3' \in Seq(Monitor!MonitorRun) /\ Len(s3') = n /\ s3'[n] = "running" /\ n \in 1..Len(s3') /\ s2' \in Nat /\ s2' + Len(s3') <= MaxRuns
    <3>1. "running" \in Monitor!MonitorRun
      BY DEF Monitor!MonitorRun
    <3> QED BY <1>0, <1>1, <2>2, <3>1, RunsAre
  <2>7. Monitor!RunInv' /\ Monitor!MonitoringTypeOK'
    BY <1>0, <1>n, <2>1, <2>4, <2>5, <2>6, RunsAre, RunMoves DEF Monitor!UnchangedSignals
  <2> QED BY <1>0, <2>7, SignalsStand DEF Monitor!MonitoringInv
<1>2. CASE UNCHANGED s4 /\ (UNCHANGED s3 \/ s3' = Append(s3, "skipped"))
  <2>1. /\ s3' \in Seq(Monitor!MonitorRun) /\ s2' \in 0..MaxRuns /\ s2' + Len(s3') <= MaxRuns /\ Len(s3') \in Nat
        /\ \A r \in 1..Len(s3) : r \in 1..Len(s3') /\ s3'[r] = s3[r]
    <3>1. "skipped" \in Monitor!MonitorRun
      BY DEF Monitor!MonitorRun
    <3>2. CASE UNCHANGED s3
      BY <1>0, <3>2, RunsAre
    <3>3. CASE s3' = Append(s3, "skipped")
      BY <1>0, <3>1, <3>3, RunsAre
    <3> QED BY <1>2, <3>2, <3>3
  <2>2. Monitor!MonitoringTypeOK'
    BY <1>0, <1>2, <2>1, RunsAre DEF Monitor!MonitoringInv, Monitor!MonitoringTypeOK, Monitor!UnchangedSignals
  <2>3. Monitor!OneRunIsWorked' /\ Monitor!JobsAreBounded'
    BY <1>2, <2>1 DEF Monitor!MonitoringInv, Monitor!RunInv, Monitor!OneRunIsWorked, Monitor!JobsAreBounded
  <2>4. Monitor!GroupsAreFresh'
    BY <1>0, <1>2 DEF Monitor!MonitoringInv, Monitor!RunInv, Monitor!GroupsAreFresh, Monitor!PrintsOf
  <2> QED BY <1>0, <1>n, <2>2, <2>3, <2>4, SignalsStand DEF Monitor!MonitoringInv, Monitor!RunInv
<1> QED BY <1>1, <1>2 DEF Monitor!startRun

\* Research keeps the invariant: the groups it is about to write hold no fingerprint on record.
LEMMA ResearchStep == ASSUME Monitor!MonitoringInv, NEW w \in Actors, Monitor!research(w) PROVE Monitor!MonitoringInv'
<1> DEFINE k == s4[w]
<1>0. k # Nothing /\ UNCHANGED <<s1, s2, s3, s5, s6>> /\ Monitor!UnchangedSignals
  BY DEF Monitor!research
<1>n. Monitor!NoRepeatAcrossRuns' /\ Monitor!PrintsOfSuggestions'
  BY <1>0 DEF Monitor!MonitoringInv, Monitor!RunInv, Monitor!NoRepeatAcrossRuns, Monitor!PrintsOfSuggestions,
     Monitor!PrintsOf
<1>1. ASSUME NEW groups \in SUBSET (SUBSET Subjects), NEW step \in {"ingest", "write"}, Monitor!afterResearch(w, groups, step),
             step = "write" => \A group \in groups : \A u \in group : PrintOf[u] \notin s5
      PROVE  Monitor!MonitoringInv'
  <2>1. PICK pc \in {"finish", "ingest", "write"} : pc = (IF groups = {} THEN "finish" ELSE step) /\ (pc = "write" => step = "write")
    OBVIOUS
  <2>2. PICK q : q = [k EXCEPT !.pc = pc, !.groups = groups]
    OBVIOUS
  <2>3. q \in Monitor!WorkerRun /\ q.run = k.run /\ q.pc = pc /\ q.groups = groups
    BY <1>0, <2>2, WorkerIs DEF Monitor!WorkerRun
  <2>4. s4' = [s4 EXCEPT ![w] = q]
    BY <1>1, <2>1, <2>2 DEF Monitor!afterResearch
  <2>5. pc = "write" => \A group \in groups, s \in s6 : Monitor!PrintsOf(s) \cap {PrintOf[u] : u \in group} = {}
    BY <1>1, <2>1 DEF Monitor!MonitoringInv, Monitor!RunInv, Monitor!PrintsOfSuggestions
  <2> HIDE DEF k
  <2>6. Monitor!RunInv' /\ Monitor!MonitoringTypeOK'
    BY <1>0, <1>n, <2>3, <2>4, <2>5, RunsAre, WorkerIs, RunMoves DEF Monitor!UnchangedSignals, k
  <2> QED BY <1>0, <2>6, SignalsStand DEF Monitor!MonitoringInv
<1>2. ASSUME NEW results \in [{"feed", "luma", "page"} -> Monitor!CollectorResults], Monitor!selectMonitorSourcingProvider(results) # Nothing,
             Monitor!afterResearch(w, Monitor!rankSourceSignals(Monitor!selectMonitorSourcingProvider(results)), "ingest")
      PROVE  Monitor!MonitoringInv'
  <2>1. Monitor!selectMonitorSourcingProvider(results) \subseteq Subjects
    <3> DEFINE fulfilled == {results[c] : c \in DOMAIN results} \ {Nothing}
    <3>0. \A c \in {"feed", "luma", "page"} : results[c] \in (SUBSET Subjects) \cup {Nothing}
      BY DEF Monitor!CollectorResults
    <3>1. \A u \in fulfilled : u \in SUBSET Subjects
      <4> SUFFICES ASSUME NEW u \in fulfilled PROVE u \in SUBSET Subjects
        OBVIOUS
      <4>1. DOMAIN results = {"feed", "luma", "page"} /\ u # Nothing
        OBVIOUS
      <4>2. PICK c \in {"feed", "luma", "page"} : u = results[c]
        BY <4>1
      <4>3. results[c] \in (SUBSET Subjects) \cup {Nothing}
        BY <3>0
      <4> QED BY <4>1, <4>2, <4>3
    <3>2. UNION fulfilled \subseteq Subjects
      BY <3>1
    <3>3. Monitor!selectMonitorSourcingProvider(results) = UNION fulfilled
      BY <1>2 DEF Monitor!selectMonitorSourcingProvider
    <3> QED BY <3>2, <3>3
  <2>2. Monitor!rankSourceSignals(Monitor!selectMonitorSourcingProvider(results)) \in SUBSET (SUBSET Subjects)
    BY <2>1 DEF Monitor!rankSourceSignals
  <2> QED BY <1>1, <1>2, <2>2
<1>3. ASSUME NEW found \in SUBSET Subjects, NEW events \in SUBSET (SUBSET Subjects),
             Monitor!afterResearch(w, Monitor!groupMonitorSuggestions(events, {u \in found : PrintOf[u] \notin s5}), "write")
      PROVE  Monitor!MonitoringInv'
  <2> DEFINE fresh == {u \in found : PrintOf[u] \notin s5}
  <2>1. \A group \in Monitor!groupMonitorSuggestions(events, fresh) : group \subseteq fresh
    BY DEF Monitor!groupMonitorSuggestions
  <2>2. Monitor!groupMonitorSuggestions(events, fresh) \in SUBSET (SUBSET Subjects)
    BY <2>1
  <2>3. \A group \in Monitor!groupMonitorSuggestions(events, fresh) : \A u \in group : PrintOf[u] \notin s5
    BY <2>1
  <2> QED BY <1>1, <1>3, <2>2, <2>3
<1> QED BY <1>2, <1>3 DEF Monitor!research

\* A suggestion keeps the invariant: its fingerprints are recorded with it.
LEMMA CommitStep ==
  ASSUME Monitor!MonitoringInv, NEW w \in Actors, Monitor!commitSuggestion(w)
  PROVE  Monitor!MonitoringInv'
<1> DEFINE k == s4[w]
<1>0. k # Nothing /\ UNCHANGED <<s1, s2, s3>> /\ Monitor!UnchangedSignals /\ k.pc = "write"
  BY DEF Monitor!commitSuggestion
<1>1. PICK group \in k.groups :
         /\ s6' = s6 \cup {[run |-> k.run, urls |-> group]} /\ s5' = s5 \cup {PrintOf[u] : u \in group}
         /\ s4' = [s4 EXCEPT ![w].groups = @ \ {group}, ![w].pc = IF k.groups = {group} THEN "finish" ELSE "write"]
  BY DEF Monitor!commitSuggestion, Monitor!commitPrints
<1>2. group \in SUBSET Subjects /\ k.run \in 1..MaxRuns
  BY <1>0, <1>1, WorkerIs
<1>3. PICK t \in [run : 1..MaxRuns, urls : SUBSET Subjects] : t = [run |-> k.run, urls |-> group] /\ t.run = k.run /\ t.urls = group
  <2>1. PICK t : t = [run |-> k.run, urls |-> group]
    OBVIOUS
  <2> QED BY <1>2, <2>1
<1>4. s6' = s6 \cup {t} /\ Monitor!PrintsOf(t) = {PrintOf[u] : u \in group}
  BY <1>1, <1>3 DEF Monitor!PrintsOf
<1>5. PICK q : q = [k EXCEPT !.groups = k.groups \ {group}, !.pc = IF k.groups = {group} THEN "finish" ELSE "write"]
  OBVIOUS
<1>6. q \in Monitor!WorkerRun /\ q.run = k.run /\ q.groups = k.groups \ {group}
  BY <1>0, <1>5, WorkerIs DEF Monitor!WorkerRun
<1>7. s4' = [s4 EXCEPT ![w] = q]
  BY <1>0, <1>1, <1>5, WorkerIs, RunsAre DEF Monitor!WorkerRun
<1>8. \A g \in k.groups, s \in s6 : s.run # k.run => Monitor!PrintsOf(s) \cap {PrintOf[u] : u \in g} = {}
  BY <1>0 DEF Monitor!MonitoringInv, Monitor!RunInv, Monitor!GroupsAreFresh
<1>9. Monitor!NoRepeatAcrossRuns'
  <2>1. \A s \in s6 : s.run # t.run => Monitor!PrintsOf(s) \cap Monitor!PrintsOf(t) = {}
    BY <1>1, <1>3, <1>4, <1>8
  <2>2. \A s, u \in s6 : s.run # u.run => Monitor!PrintsOf(s) \cap Monitor!PrintsOf(u) = {}
    BY DEF Monitor!MonitoringInv, Monitor!RunInv, Monitor!NoRepeatAcrossRuns
  <2>3. \A s, u \in s6' : s.run # u.run => Monitor!PrintsOf(s) \cap Monitor!PrintsOf(u) = {}
    BY <1>4, <2>1, <2>2
  <2> QED BY <2>3 DEF Monitor!NoRepeatAcrossRuns, Monitor!PrintsOf
<1>10. Monitor!PrintsOfSuggestions'
  <2>1. \A s \in s6' : Monitor!PrintsOf(s) \subseteq s5'
    BY <1>1, <1>4 DEF Monitor!MonitoringInv, Monitor!RunInv, Monitor!PrintsOfSuggestions
  <2> QED BY <2>1 DEF Monitor!PrintsOfSuggestions, Monitor!PrintsOf
<1>11. \A g \in q.groups, s \in s6' : s.run # q.run => Monitor!PrintsOf(s) \cap {PrintOf[u] : u \in g} = {}
  BY <1>3, <1>4, <1>6, <1>8
<1>12. s5' \subseteq Prints /\ s6' \subseteq [run : 1..MaxRuns, urls : SUBSET Subjects]
  BY <1>1, <1>2, <1>4, RunsAre, MonitorAssumption
<1> HIDE DEF k
<1>13. Monitor!RunInv' /\ Monitor!MonitoringTypeOK'
  BY <1>0, <1>6, <1>7, <1>9, <1>10, <1>11, <1>12, RunsAre, WorkerIs, RunMoves DEF Monitor!UnchangedSignals, k
<1> QED BY <1>0, <1>13, SignalsStand DEF Monitor!MonitoringInv

\* The end of a run keeps the invariant.
LEMMA EndStep ==
  ASSUME Monitor!MonitoringInv, NEW w \in Actors, Monitor!failRun(w) \/ Monitor!finishRun(w) \/ Monitor!workerStops(w)
  PROVE  Monitor!MonitoringInv'
<1>0. s4[w] # Nothing /\ UNCHANGED <<s1, s5, s6>> /\ Monitor!UnchangedSignals /\ s4' = [s4 EXCEPT ![w] = Nothing]
  BY DEF Monitor!failRun, Monitor!finishRun, Monitor!workerStops
<1>n. Monitor!NoRepeatAcrossRuns' /\ Monitor!PrintsOfSuggestions'
  BY <1>0 DEF Monitor!MonitoringInv, Monitor!RunInv, Monitor!NoRepeatAcrossRuns, Monitor!PrintsOfSuggestions,
     Monitor!PrintsOf
<1>1. s3' \in Seq(Monitor!MonitorRun) /\ s2' \in Nat /\ s2' + Len(s3') <= MaxRuns
  <2>1. s4[w].run \in 1..Len(s3)
    BY <1>0, WorkerIs
  <2>2. CASE Monitor!failRun(w) \/ Monitor!finishRun(w)
    <3>1. PICK st \in Monitor!MonitorRun : s3' = [s3 EXCEPT ![s4[w].run] = st] /\ UNCHANGED s2
      BY <2>2 DEF Monitor!failRun, Monitor!finishRun, Monitor!MonitorRun
    <3> QED BY <2>1, <3>1, RunsAre
  <2>3. CASE Monitor!workerStops(w)
    BY <2>3, RunsAre DEF Monitor!workerStops
  <2> QED BY <2>2, <2>3
<1>2. Monitor!RunInv' /\ Monitor!MonitoringTypeOK'
  BY <1>0, <1>n, <1>1, RunsAre, WorkerIs, RunMoves DEF Monitor!UnchangedSignals
<1> QED BY <1>0, <1>2, SignalsStand DEF Monitor!MonitoringInv

\* Signals and savers that move in the permitted way keep the invariant.
LEMMA SignalsMove ==
  ASSUME Monitor!MonitoringInv, s7' \in [Prints -> Monitor!SourceSignal \cup {Nothing}], s9' \in [Actors -> Monitor!SaveRequest \cup {Nothing}],
         s8 \subseteq s8', s8' \subseteq Prints,
         \A p \in Prints : /\ s7[p] # Nothing => s7'[p] # Nothing
                           /\ p \in s8' => s7'[p] # Nothing /\ s7'[p].state \in {"saving", "saved"}
                           /\ s7'[p] # Nothing /\ s7'[p].state = "saved" => p \in s8'
                           /\ s7'[p] # Nothing /\ s7'[p].state = "saving" => s7'[p].claim \in Actors
                           /\ s7[p] # Nothing /\ s7[p].state \in {"saving", "saved"} => s7'[p].state \in {"saving", "saved"},
         \A v \in Actors : \/ s9'[v] = s9[v]
                           \/ s9'[v] # Nothing =>
                                /\ s9'[v].found \/ s9'[v].pc = "finish" => s9'[v].signal \in s8'
                                /\ s9'[v].pc = "commit" => s7'[s9'[v].signal] # Nothing /\ s7'[s9'[v].signal].state \in {"saving", "saved"}
  PROVE  Monitor!SignalInv' /\ (Monitor!UnchangedRuns => Monitor!MonitoringInv')
<1>0. s9 \in [Actors -> Monitor!SaveRequest \cup {Nothing}]
  BY DEF Monitor!MonitoringInv, Monitor!MonitoringTypeOK
<1>1. Monitor!SavedSignalHasItem' /\ Monitor!ItemsAreOfSignals'
  BY DEF Monitor!SavedSignalHasItem, Monitor!ItemsAreOfSignals
<1>2. ASSUME NEW v \in Actors, s9'[v] # Nothing
      PROVE  /\ s9'[v].found \/ s9'[v].pc = "finish" => s9'[v].signal \in s8'
             /\ s9'[v].pc = "commit" => s7'[s9'[v].signal] # Nothing /\ s7'[s9'[v].signal].state \in {"saving", "saved"}
  <2>1. CASE s9'[v] = s9[v]
    <3>1. /\ s9[v].found \/ s9[v].pc = "finish" => s9[v].signal \in s8
          /\ s9[v].pc = "commit" => s7[s9[v].signal] # Nothing /\ s7[s9[v].signal].state \in {"saving", "saved"}
          /\ s9[v].signal \in Prints
      BY <1>0, <1>2, <2>1 DEF Monitor!MonitoringInv, Monitor!SignalInv, Monitor!SaversAreInOrder, Monitor!SaveRequest
    <3> QED BY <2>1, <3>1
  <2> QED BY <1>2, <2>1
<1>3. Monitor!SaversAreInOrder'
  BY <1>2 DEF Monitor!SaversAreInOrder
<1>4. Monitor!UnchangedRuns => Monitor!MonitoringTypeOK'
  BY DEF Monitor!MonitoringInv, Monitor!MonitoringTypeOK, Monitor!UnchangedRuns
<1> QED BY <1>1, <1>3, <1>4, RunsStand DEF Monitor!SignalInv, Monitor!MonitoringInv

\* What the invariant says of one signal.
LEMMA SignalIs ==
  ASSUME Monitor!MonitoringInv, NEW p \in Prints
  PROVE  /\ p \in s8 => s7[p] # Nothing /\ s7[p].state \in {"saving", "saved"}
         /\ s7[p] # Nothing => /\ s7[p] \in Monitor!SourceSignal /\ s7[p].version \in 1..MaxSignalVersion
                               /\ s7[p].state = "saved" => p \in s8
                               /\ s7[p].state = "saving" => s7[p].claim \in Actors
                               /\ s7[p].state \in {"new", "saving", "saved", "dismissed"}
  BY DEF Monitor!MonitoringInv, Monitor!MonitoringTypeOK, Monitor!SignalInv, Monitor!SavedSignalHasItem,
     Monitor!ItemsAreOfSignals, Monitor!SourceSignal

\* The fields of a signal have their types.
LEMMA SignalRecord ==
  ASSUME NEW n \in 1..MaxSignalVersion, NEW st \in {"new", "saving", "saved", "dismissed"}, NEW cl \in Actors \cup {Nothing}, NEW l \in BOOLEAN
  PROVE  [version |-> n, state |-> st, claim |-> cl, lease |-> l] \in Monitor!SourceSignal
  BY DEF Monitor!SourceSignal

\* What the invariant says of one saver.
LEMMA SaverIs ==
  ASSUME Monitor!MonitoringInv, NEW v \in Actors, s9[v] # Nothing
  PROVE  /\ s9[v] \in Monitor!SaveRequest /\ s9[v].signal \in Prints /\ s9[v].version \in 1..MaxSignalVersion
         /\ s9[v].pc \in {"claim", "commit", "finish"} /\ s9[v].found \in BOOLEAN /\ s9[v].claim \in Actors
         /\ s9[v].found \/ s9[v].pc = "finish" => s9[v].signal \in s8
         /\ s9[v].pc = "commit" => s7[s9[v].signal] # Nothing /\ s7[s9[v].signal].state \in {"saving", "saved"}
  BY DEF Monitor!MonitoringInv, Monitor!MonitoringTypeOK, Monitor!SignalInv, Monitor!SaversAreInOrder, Monitor!SaveRequest

\* A source that is found again keeps the invariant.
LEMMA IngestStep == ASSUME Monitor!MonitoringInv, NEW w \in Actors, Monitor!ingest(w) PROVE Monitor!MonitoringInv'
<1> DEFINE k == s4[w]
           seen == {PrintOf[u] : u \in IF k = Nothing THEN {} ELSE UNION k.groups}
           fresh == [version |-> 1, state |-> "new", claim |-> Nothing, lease |-> FALSE]
<1>0. k # Nothing /\ UNCHANGED <<s1, s2, s3, s5, s6, s8, s9>> /\ s4' = [s4 EXCEPT ![w].pc = "finish"]
      /\ \A o \in seen : s7[o] # Nothing => s7[o].version < MaxSignalVersion
  BY DEF Monitor!ingest
<1>s. s7' = [p \in Prints |-> IF p \notin seen THEN s7[p] ELSE IF s7[p] # Nothing THEN Monitor!updatedSignal(p) ELSE fresh]
  BY DEF Monitor!ingest
<1>n. Monitor!NoRepeatAcrossRuns' /\ Monitor!PrintsOfSuggestions'
  BY <1>0 DEF Monitor!MonitoringInv, Monitor!RunInv, Monitor!NoRepeatAcrossRuns, Monitor!PrintsOfSuggestions,
     Monitor!PrintsOf
<1>1. PICK q : q = [k EXCEPT !.pc = "finish"]
  OBVIOUS
<1>2. q \in Monitor!WorkerRun /\ q.run = k.run /\ q.pc = "finish"
  BY <1>0, <1>1, WorkerIs DEF Monitor!WorkerRun
<1>3. s4' = [s4 EXCEPT ![w] = q]
  BY <1>0, <1>1
<1>f. fresh \in Monitor!SourceSignal /\ fresh.state = "new"
  <2>1. fresh \in Monitor!SourceSignal
    <3>1. 1 \in 1..MaxSignalVersion
      BY MonitorAssumption
    <3> QED BY <3>1, SignalRecord
  <2>2. fresh.state = "new"
    OBVIOUS
  <2> QED BY <2>1, <2>2
<1> HIDE DEF seen, fresh
<1>4. ASSUME NEW p \in Prints
      PROVE  /\ s7'[p] \in Monitor!SourceSignal \cup {Nothing}
             /\ \/ s7'[p] = s7[p]
                \/ /\ s7[p] # Nothing /\ s7'[p] \in Monitor!SourceSignal /\ s7'[p].state = s7[p].state /\ s7'[p].claim = s7[p].claim
                \/ /\ s7[p] = Nothing /\ s7'[p] \in Monitor!SourceSignal /\ s7'[p].state = "new"
  <2>1. CASE p \notin seen
    BY <1>s, <2>1, RunsAre
  <2>2. CASE p \in seen /\ s7[p] # Nothing
    <3>1. PICK r : r = [s7[p] EXCEPT !.version = s7[p].version + 1]
      OBVIOUS
    <3>2. s7[p].version + 1 \in 1..MaxSignalVersion
      BY <1>0, <2>2, SignalIs, MonitorAssumption
    <3>3. r \in Monitor!SourceSignal /\ r.state = s7[p].state /\ r.claim = s7[p].claim
      BY <2>2, <3>1, <3>2, SignalIs DEF Monitor!SourceSignal
    <3>4. s7'[p] = r
      BY <1>s, <2>2, <3>1 DEF Monitor!updatedSignal
    <3> QED BY <2>2, <3>3, <3>4
  <2>3. CASE p \in seen /\ s7[p] = Nothing
    BY <1>s, <1>f, <2>3
  <2> QED BY <2>1, <2>2, <2>3
<1>5. s7' \in [Prints -> Monitor!SourceSignal \cup {Nothing}]
  BY <1>s, <1>4
<1> HIDE DEF k
<1>6. Monitor!RunInv' /\ Monitor!MonitoringTypeOK'
  BY <1>0, <1>n, <1>2, <1>3, <1>5, RunsAre, WorkerIs, RunMoves DEF k
<1>7. Monitor!SignalInv'
  <2>1. \A p \in Prints : s7[p] # Nothing => s7'[p] # Nothing
    BY <1>4, MonitorAssumption
  <2> QED BY <1>0, <1>4, <1>5, <2>1, SignalIs, SignalsMove DEF Monitor!MonitoringInv, Monitor!MonitoringTypeOK
<1> QED BY <1>6, <1>7 DEF Monitor!MonitoringInv

\* Triage and the end of a lease keep the invariant.
LEMMA DeskStep ==
  ASSUME Monitor!MonitoringInv, NEW p \in Prints, Monitor!triage(p) \/ Monitor!saveLeaseExpires(p)
  PROVE  Monitor!MonitoringInv'
<1>0. s7[p] # Nothing /\ Monitor!UnchangedRuns /\ UNCHANGED <<s8, s9>> /\ s7[p] \in Monitor!SourceSignal
  BY SignalIs DEF Monitor!triage, Monitor!saveLeaseExpires
<1>1. ASSUME NEW r \in Monitor!SourceSignal, s7' = [s7 EXCEPT ![p] = r], r # Nothing,
             s7[p].state = r.state \/ (s7[p].state \in {"new", "dismissed"} /\ r.state \in {"new", "dismissed"}), r.claim = s7[p].claim
      PROVE  Monitor!MonitoringInv'
  <2>1. s7' \in [Prints -> Monitor!SourceSignal \cup {Nothing}] /\ s7'[p] = r /\ \A o \in Prints \ {p} : s7'[o] = s7[o]
    BY <1>1, RunsAre
  <2> QED BY <1>0, <1>1, <2>1, SignalIs, SignalsMove DEF Monitor!MonitoringInv, Monitor!MonitoringTypeOK
<1>2. CASE Monitor!triage(p)
  <2>1. PICK st \in {"dismissed", "new"} : s7' = [s7 EXCEPT ![p] = [s7[p] EXCEPT !.version = @ + 1, !.state = st]]
    BY <1>2 DEF Monitor!triage
  <2>2. PICK r : r = [s7[p] EXCEPT !.version = s7[p].version + 1, !.state = st]
    OBVIOUS
  <2>3. s7[p].version + 1 \in 1..MaxSignalVersion /\ s7[p].state \in {"new", "dismissed"}
    BY <1>0, <1>2, SignalIs, MonitorAssumption DEF Monitor!triage, Monitor!mayDismiss
  <2>4. r \in Monitor!SourceSignal /\ r.state = st /\ r.claim = s7[p].claim
    BY <1>0, <2>2, <2>3 DEF Monitor!SourceSignal
  <2>5. s7' = [s7 EXCEPT ![p] = r]
    BY <1>0, <2>1, <2>2 DEF Monitor!SourceSignal
  <2> QED BY <1>1, <2>3, <2>4, <2>5, MonitorAssumption
<1>3. CASE Monitor!saveLeaseExpires(p)
  <2>1. PICK r : r = [s7[p] EXCEPT !.lease = FALSE]
    OBVIOUS
  <2>2. r \in Monitor!SourceSignal /\ r.state = s7[p].state /\ r.claim = s7[p].claim
    BY <1>0, <2>1 DEF Monitor!SourceSignal
  <2>3. s7' = [s7 EXCEPT ![p] = r]
    BY <1>3, <2>1 DEF Monitor!saveLeaseExpires
  <2> QED BY <1>1, <2>2, <2>3, MonitorAssumption
<1> QED BY <1>2, <1>3

\* One saver that moves while the signals move in the permitted way keeps the invariant.
LEMMA SaverMoves ==
  ASSUME Monitor!MonitoringInv, NEW v \in Actors, NEW q \in Monitor!SaveRequest \cup {Nothing}, s9' = [s9 EXCEPT ![v] = q],
         Monitor!UnchangedRuns, s7' \in [Prints -> Monitor!SourceSignal \cup {Nothing}], s8 \subseteq s8', s8' \subseteq Prints,
         \A p \in Prints : /\ s7[p] # Nothing => s7'[p] # Nothing
                           /\ p \in s8' => s7'[p] # Nothing /\ s7'[p].state \in {"saving", "saved"}
                           /\ s7'[p] # Nothing /\ s7'[p].state = "saved" => p \in s8'
                           /\ s7'[p] # Nothing /\ s7'[p].state = "saving" => s7'[p].claim \in Actors
                           /\ s7[p] # Nothing /\ s7[p].state \in {"saving", "saved"} => s7'[p].state \in {"saving", "saved"},
         q # Nothing => /\ q.found \/ q.pc = "finish" => q.signal \in s8'
                        /\ q.pc = "commit" => s7'[q.signal] # Nothing /\ s7'[q.signal].state \in {"saving", "saved"}
  PROVE  Monitor!MonitoringInv'
<1>1. s9' \in [Actors -> Monitor!SaveRequest \cup {Nothing}] /\ s9'[v] = q /\ \A u \in Actors \ {v} : s9'[u] = s9[u]
  BY DEF Monitor!MonitoringInv, Monitor!MonitoringTypeOK
<1> QED BY <1>1, SignalsMove

\* Asking for an item keeps the invariant.
LEMMA SaveStep ==
  ASSUME Monitor!MonitoringInv, NEW v \in Actors, NEW p \in Prints, Monitor!save(v, p)
  PROVE  Monitor!MonitoringInv'
<1> DEFINE s == s7[p]
<1>0. s9[v] = Nothing /\ s # Nothing /\ s.state \in {"new", "saving"} /\ Monitor!UnchangedRuns /\ UNCHANGED <<s7, s8>>
  BY DEF Monitor!save
<1>1. PICK pc \in {"finish", "claim"} : pc = (IF s.state = "saving" /\ p \in s8 THEN "finish" ELSE "claim") /\ (pc = "finish" => p \in s8)
  OBVIOUS
<1>2. PICK cl \in Actors : cl = IF s.state = "saving" THEN s.claim ELSE v
  <2>1. CASE s.state = "saving"
    BY <1>0, <2>1, SignalIs
  <2>2. CASE s.state # "saving"
    BY <2>2
  <2> QED BY <2>1, <2>2
<1>3. PICK f \in BOOLEAN : f = (p \in s8)
  <2>1. CASE p \in s8
    <3>1. TRUE = (p \in s8)
      BY <2>1
    <3> QED BY <3>1
  <2>2. CASE p \notin s8
    <3>1. FALSE = (p \in s8)
      BY <2>2
    <3> QED BY <3>1
  <2> QED BY <2>1, <2>2
<1>4. PICK q : q = [signal |-> p, pc |-> pc, version |-> s.version, claim |-> cl, found |-> f]
  OBVIOUS
<1>5. q \in Monitor!SaveRequest /\ q.signal = p /\ q.pc = pc /\ q.found = f
  BY <1>0, <1>4, SignalIs DEF Monitor!SaveRequest
<1>6. s9' = [s9 EXCEPT ![v] = q]
  BY <1>1, <1>2, <1>3, <1>4 DEF Monitor!save
<1> HIDE DEF s
<1> QED BY <1>0, <1>1, <1>3, <1>5, <1>6, SignalIs, RunsAre, SaverMoves DEF Monitor!MonitoringInv, Monitor!MonitoringTypeOK

\* Claiming a signal keeps the invariant.
LEMMA ClaimStep == ASSUME Monitor!MonitoringInv, NEW v \in Actors, Monitor!claimSave(v) PROVE Monitor!MonitoringInv'
<1> DEFINE k == s9[v]
<1>0. k # Nothing /\ k.pc = "claim" /\ Monitor!UnchangedRuns /\ UNCHANGED s8
  BY DEF Monitor!claimSave
<1>1. PICK p \in Prints : p = k.signal
  BY <1>0, SaverIs
<1>2. CASE s9' = [s9 EXCEPT ![v] = Nothing] /\ UNCHANGED s7
  BY <1>0, <1>2, SignalIs, RunsAre, SaverMoves DEF Monitor!MonitoringInv, Monitor!MonitoringTypeOK
<1>3. CASE /\ Monitor!Versioned(p, k.version) /\ s7[p].state \in {"new", "saving"}
           /\ s7' = [s7 EXCEPT ![p] = [version |-> k.version + 1, state |-> "saving", claim |-> v, lease |-> TRUE]]
           /\ s9' = [s9 EXCEPT ![v].pc = IF k.found THEN "finish" ELSE "commit", ![v].version = k.version + 1, ![v].claim = v]
  <2>1. PICK n \in 1..MaxSignalVersion : n = k.version + 1
    BY <1>0, <1>3, SaverIs, MonitorAssumption DEF Monitor!Versioned
  <2>2. PICK r : r = [version |-> n, state |-> "saving", claim |-> v, lease |-> TRUE]
    OBVIOUS
  <2>3. r \in Monitor!SourceSignal /\ r.state = "saving" /\ r.claim = v /\ r # Nothing
    <3>1. r \in Monitor!SourceSignal
      BY <2>2, SignalRecord
    <3>2. r.state = "saving" /\ r.claim = v
      BY <2>2
    <3> QED BY <3>1, <3>2, MonitorAssumption
  <2>4. s7' = [s7 EXCEPT ![p] = r] /\ s7[p] # Nothing
    BY <1>3, <2>1, <2>2 DEF Monitor!Versioned
  <2>5. s7' \in [Prints -> Monitor!SourceSignal \cup {Nothing}] /\ s7'[p] = r /\ \A o \in Prints \ {p} : s7'[o] = s7[o]
    BY <2>3, <2>4, RunsAre
  <2>6. PICK pc \in {"finish", "commit"} : pc = (IF k.found THEN "finish" ELSE "commit") /\ (pc = "finish" => k.found)
    OBVIOUS
  <2>7. PICK q : q = [k EXCEPT !.pc = pc, !.version = n, !.claim = v]
    OBVIOUS
  <2>8. q \in Monitor!SaveRequest /\ q.signal = p /\ q.pc = pc /\ q.found = k.found
    BY <1>0, <1>1, <2>7, SaverIs DEF Monitor!SaveRequest
  <2>9. s9' = [s9 EXCEPT ![v] = q]
    BY <1>0, <1>3, <2>1, <2>6, <2>7
  <2>10. k.found => p \in s8
    BY <1>0, <1>1, SaverIs
  <2>11. \A o \in Prints : /\ s7[o] # Nothing => s7'[o] # Nothing
                           /\ o \in s8 => s7'[o] # Nothing /\ s7'[o].state \in {"saving", "saved"}
                           /\ s7'[o] # Nothing /\ s7'[o].state = "saved" => o \in s8
                           /\ s7'[o] # Nothing /\ s7'[o].state = "saving" => s7'[o].claim \in Actors
                           /\ s7[o] # Nothing /\ s7[o].state \in {"saving", "saved"} => s7'[o].state \in {"saving", "saved"}
    BY <2>3, <2>5, SignalIs
  <2>12. q.found \/ q.pc = "finish" => q.signal \in s8
    BY <2>6, <2>8, <2>10
  <2>13. q.pc = "commit" => s7'[q.signal] # Nothing /\ s7'[q.signal].state \in {"saving", "saved"}
    BY <2>3, <2>5, <2>8
  <2> HIDE DEF k
  <2> QED BY <1>0, <2>5, <2>8, <2>9, <2>11, <2>12, <2>13, SaverMoves DEF Monitor!MonitoringInv, Monitor!MonitoringTypeOK
<1> QED BY <1>1, <1>2, <1>3 DEF Monitor!claimSave

\* Making the item keeps the invariant.
LEMMA ItemStep == ASSUME Monitor!MonitoringInv, NEW v \in Actors, Monitor!commitItem(v) PROVE Monitor!MonitoringInv'
<1> DEFINE k == s9[v]
<1>0. k # Nothing /\ k.pc = "commit" /\ Monitor!UnchangedRuns /\ UNCHANGED s7
  BY DEF Monitor!commitItem
<1>1. PICK p \in Prints : p = k.signal /\ s7[p] # Nothing /\ s7[p].state \in {"saving", "saved"}
  BY <1>0, SaverIs
<1>2. CASE s9' = [s9 EXCEPT ![v] = Nothing] /\ UNCHANGED s8
  BY <1>0, <1>2, SignalIs, RunsAre, SaverMoves DEF Monitor!MonitoringInv, Monitor!MonitoringTypeOK
<1>3. CASE s9' = [s9 EXCEPT ![v].pc = "finish"] /\ s8' = s8 \cup {p}
  <2>1. PICK q : q = [k EXCEPT !.pc = "finish"]
    OBVIOUS
  <2>2. q \in Monitor!SaveRequest /\ q.signal = p /\ q.pc = "finish" /\ q.found = k.found
    BY <1>0, <1>1, <2>1, SaverIs DEF Monitor!SaveRequest
  <2>3. s9' = [s9 EXCEPT ![v] = q]
    BY <1>3, <2>1
  <2>4. s8' \subseteq Prints
    BY <1>3 DEF Monitor!MonitoringInv, Monitor!MonitoringTypeOK
  <2> HIDE DEF k
  <2> QED BY <1>0, <1>1, <1>3, <2>2, <2>3, <2>4, SignalIs, RunsAre, SaverMoves
<1> QED BY <1>1, <1>2, <1>3 DEF Monitor!commitItem

\* Finishing a save, and stopping, keep the invariant: the signal reads saved only with its item.
LEMMA FinishStep ==
  ASSUME Monitor!MonitoringInv, NEW v \in Actors, Monitor!finishSave(v) \/ Monitor!saverStops(v)
  PROVE  Monitor!MonitoringInv'
<1> DEFINE k == s9[v]
<1>0. k # Nothing /\ s9' = [s9 EXCEPT ![v] = Nothing] /\ Monitor!UnchangedRuns /\ UNCHANGED s8
  BY DEF Monitor!finishSave, Monitor!saverStops
<1>1. CASE UNCHANGED s7
  BY <1>0, <1>1, SignalIs, RunsAre, SaverMoves DEF Monitor!MonitoringInv, Monitor!MonitoringTypeOK
<1>2. CASE /\ Monitor!finishSave(v) /\ Monitor!Versioned(k.signal, k.version) /\ s7[k.signal].state = "saving" /\ s7[k.signal].claim = k.claim
  <2>1. PICK p \in Prints : p = k.signal /\ p \in s8
    BY <1>0, <1>2, SaverIs DEF Monitor!finishSave
  <2>2. PICK n \in 1..MaxSignalVersion : n = k.version + 1
    BY <1>0, <1>2, SaverIs, MonitorAssumption DEF Monitor!Versioned
  <2>3. PICK r : r = [version |-> n, state |-> "saved", claim |-> Nothing, lease |-> FALSE]
    OBVIOUS
  <2>4. r \in Monitor!SourceSignal /\ r.state = "saved" /\ r # Nothing
    <3>1. r \in Monitor!SourceSignal
      BY <2>3, SignalRecord
    <3>2. r.state = "saved"
      BY <2>3
    <3> QED BY <3>1, <3>2, MonitorAssumption
  <2>5. s7' = [s7 EXCEPT ![p] = r] /\ s7[p] # Nothing
    BY <1>2, <2>1, <2>2, <2>3 DEF Monitor!Versioned, Monitor!finishSave
  <2>6. s7' \in [Prints -> Monitor!SourceSignal \cup {Nothing}] /\ s7'[p] = r /\ \A o \in Prints \ {p} : s7'[o] = s7[o]
    BY <2>4, <2>5, RunsAre
  <2> HIDE DEF k
  <2> QED BY <1>0, <2>1, <2>4, <2>6, SignalIs, SaverMoves DEF Monitor!MonitoringInv, Monitor!MonitoringTypeOK
<1> QED BY <1>1, <1>2 DEF Monitor!finishSave, Monitor!saverStops

\* Every step of the monitoring keeps its invariant.
LEMMA MonitoringNextKeeps ==
  ASSUME Monitor!MonitoringInv, [Monitor!MonitoringNext]_Monitor!monitoringVars
  PROVE  Monitor!MonitoringInv'
<1>1. CASE UNCHANGED Monitor!monitoringVars
  <2>1. Monitor!UnchangedSignals /\ Monitor!UnchangedRuns
    BY <1>1 DEF Monitor!monitoringVars, Monitor!UnchangedSignals, Monitor!UnchangedRuns
  <2> QED BY <1>1, <2>1, SignalsStand, RunsStand DEF Monitor!monitoringVars, Monitor!MonitoringInv,
     Monitor!MonitoringTypeOK
<1>2. CASE Monitor!MonitoringNext
  BY <1>2, RuleStep, StartStep, ResearchStep, CommitStep, EndStep, IngestStep, DeskStep, SaveStep, ClaimStep, ItemStep,
     FinishStep
    DEF Monitor!MonitoringNext
<1> QED BY <1>1, <1>2

-----------------------------------------------------------------------------
(* Proofs.  Analytics and reports.                                         *)

\* A job before its first attempt, or after its last, is a job.
LEMMA JobsBetweenAttempts ==
  ASSUME NEW pc \in {"idle", "start", "ask", "save", "fail", "done"}, NEW p \in Posts \cup {Nothing}
  PROVE  Analytics!jobAt(pc, p) \in Analytics!CaptureJob
<1>1. 0 \in 0..MaxTime
  BY AnalyticsAssumption
<1>2. ASSUME NEW z \in 0..MaxTime, NEW n \in Nat, NEW k \in Contracts \cup {0}
      PROVE  [pc |-> pc, post |-> p, started |-> z, tries |-> n, answer |-> "none", contract |-> k, at |-> z] \in Analytics!CaptureJob
  BY DEF Analytics!CaptureJob
<1> QED BY <1>1, <1>2 DEF Analytics!jobAt

\* The invariant of the analytics holds before there is a snapshot.
LEMMA AnalyticsStarts == Analytics!AnalyticsInit => Analytics!AnalyticsInv
<1> SUFFICES ASSUME Analytics!AnalyticsInit PROVE Analytics!AnalyticsInv
  OBVIOUS
<1>1. Analytics!AnalyticsTypeOK
  <2>1. Analytics!jobAt("idle", Nothing) \in Analytics!CaptureJob
    BY JobsBetweenAttempts
  <2>2. s2 \in [Actors -> Analytics!CaptureJob]
    BY <2>1 DEF Analytics!AnalyticsInit
  <2>3. s4 \in [status : {"active", "archived"}, scope : SUBSET Posts]
    BY DEF Analytics!AnalyticsInit
  <2>4. /\ s6.total = "none" /\ DOMAIN s6.rows = {}
    BY DEF Analytics!AnalyticsInit, Analytics!NoReport
  <2>5. /\ s1 \in 0..MaxTime /\ s3 = {} /\ s5 \in [pc : {"idle", "collect"}, at : 0..MaxTime]
        /\ s7 \in [Links -> {"none", "open", "revoked"}]
    BY AnalyticsAssumption DEF Analytics!AnalyticsInit
  <2> QED BY <2>2, <2>3, <2>4, <2>5 DEF Analytics!AnalyticsTypeOK
<1>2. Analytics!TotalsAreComparable
  BY DEF Analytics!AnalyticsInit, Analytics!NoReport, Analytics!TotalsAreComparable
<1>3. Analytics!ReadyOutlivesItsFailure /\ Analytics!ReadyIsTheLastAttempt /\ Analytics!FailedIsOver
  BY DEF Analytics!AnalyticsInit, Analytics!ReadyOutlivesItsFailure, Analytics!ReadyIsTheLastAttempt,
     Analytics!FailedIsOver
<1>4. Analytics!SharedIsProven /\ Analytics!ReportIsKept
  BY DEF Analytics!AnalyticsInit, Analytics!SharedIsProven, Analytics!ReportIsKept
<1>5. Analytics!AnswersFollowTheirStart
  BY AnalyticsAssumption DEF Analytics!AnalyticsInit, Analytics!AnswersFollowTheirStart, Analytics!jobAt
<1> QED BY <1>1, <1>2, <1>3, <1>4, <1>5 DEF Analytics!AnalyticsInv

\* What a set of snapshots S says of a job c that becomes j.
\* How the snapshots fit what their job goes on with.
SavedFits(S, c, j) ==
  /\ S \subseteq Analytics!PostAnalyticsSnapshot
  /\ s3 \subseteq S
  /\ \A s \in S \ s3 : s.job = c
  /\ \A s \in S : s.job = c /\ s.status = "ready" =>
        /\ s.contract \in Contracts /\ j.pc \in {"fail", "done"}
        /\ j.pc = "fail" => j.answer = "provider_failed" /\ j.started <= s.at
  /\ \A s \in S : s.job = c /\ s.status = "failed" => j.pc = "done"
  /\ \A s, f \in S : s.job = c /\ f.job = c /\ s.post = f.post /\ s.status = "ready" /\ f.status = "failed" => f.at <= s.at

\* One job that moves, with snapshots that fit it, keeps the invariant.
LEMMA CaptureMoves ==
  ASSUME Analytics!AnalyticsInv, NEW c \in Actors, NEW j \in Analytics!CaptureJob, s2' = [s2 EXCEPT ![c] = j],
         UNCHANGED <<s1, Analytics!others>>,
         j.pc \notin {"idle", "done"} => j.post \in Posts, j.started <= s1,
         j.pc = "save" => /\ j.answer \in {"ready", "pending", "unavailable"} /\ j.started <= j.at
                          /\ j.answer = "ready" => j.contract \in Contracts,
         SavedFits(s3', c, j)
  PROVE  Analytics!AnalyticsInv'
<1>0. /\ s3' \subseteq Analytics!PostAnalyticsSnapshot
      /\ s3 \subseteq s3'
      /\ \A s \in s3' \ s3 : s.job = c
      /\ \A s \in s3' : s.job = c /\ s.status = "ready" =>
            /\ s.contract \in Contracts /\ j.pc \in {"fail", "done"}
            /\ j.pc = "fail" => j.answer = "provider_failed" /\ j.started <= s.at
      /\ \A s \in s3' : s.job = c /\ s.status = "failed" => j.pc = "done"
      /\ \A s, f \in s3' : s.job = c /\ f.job = c /\ s.post = f.post /\ s.status = "ready" /\ f.status = "failed" => f.at <= s.at
  BY DEF SavedFits
<1>1. s2 \in [Actors -> Analytics!CaptureJob]
  BY DEF Analytics!AnalyticsInv, Analytics!AnalyticsTypeOK
<1>2. /\ s2' \in [Actors -> Analytics!CaptureJob] /\ s2'[c] = j
      /\ \A d \in Actors : d # c => s2'[d] = s2[d]
  BY <1>1
<1>3. /\ UNCHANGED <<s1, s4, s5, s6, s7>>
  BY DEF Analytics!others
<1>4. \A s \in s3' : s.job \in Actors
  BY <1>0 DEF Analytics!PostAnalyticsSnapshot
<1>5. Analytics!AnalyticsTypeOK'
  BY <1>0, <1>2, <1>3 DEF Analytics!AnalyticsInv, Analytics!AnalyticsTypeOK
<1>6. Analytics!AnswersFollowTheirStart'
  BY <1>2, <1>3 DEF Analytics!AnalyticsInv, Analytics!AnswersFollowTheirStart
<1>7. Analytics!ReadyIsTheLastAttempt'
  <2> SUFFICES ASSUME NEW s \in s3', s.status = "ready"
               PROVE  /\ s.contract \in Contracts /\ s2'[s.job].pc \in {"fail", "done"}
                      /\ s2'[s.job].pc = "fail" => s2'[s.job].answer = "provider_failed" /\ s2'[s.job].started <= s.at
    BY DEF Analytics!ReadyIsTheLastAttempt
  <2>1. CASE s.job = c
    BY <1>0, <1>2, <2>1
  <2>2. CASE s.job # c
    <3>1. s \in s3 /\ s2'[s.job] = s2[s.job]
      BY <1>0, <1>2, <1>4, <2>2
    <3> QED BY <3>1 DEF Analytics!AnalyticsInv, Analytics!ReadyIsTheLastAttempt
  <2> QED BY <2>1, <2>2
<1>8. Analytics!FailedIsOver'
  <2> SUFFICES ASSUME NEW s \in s3', s.status = "failed" PROVE s2'[s.job].pc = "done"
    BY DEF Analytics!FailedIsOver
  <2>1. CASE s.job = c
    BY <1>0, <1>2, <2>1
  <2>2. CASE s.job # c
    <3>1. s \in s3 /\ s2'[s.job] = s2[s.job]
      BY <1>0, <1>2, <1>4, <2>2
    <3> QED BY <3>1 DEF Analytics!AnalyticsInv, Analytics!FailedIsOver
  <2> QED BY <2>1, <2>2
<1>9. Analytics!ReadyOutlivesItsFailure'
  <2> SUFFICES ASSUME NEW s \in s3', NEW f \in s3', s.post = f.post, s.job = f.job, s.status = "ready", f.status = "failed"
               PROVE  f.at <= s.at
    BY DEF Analytics!ReadyOutlivesItsFailure
  <2>1. CASE s.job = c
    BY <1>0, <2>1
  <2>2. CASE s.job # c
    BY <1>0, <2>2 DEF Analytics!AnalyticsInv, Analytics!ReadyOutlivesItsFailure
  <2> QED BY <2>1, <2>2
<1>10. /\ Analytics!TotalsAreComparable' /\ Analytics!SharedIsProven' /\ Analytics!ReportIsKept'
  BY <1>3 DEF Analytics!AnalyticsInv, Analytics!TotalsAreComparable, Analytics!SharedIsProven, Analytics!ReportIsKept,
     Analytics!measured
<1> QED BY <1>5, <1>6, <1>7, <1>8, <1>9, <1>10 DEF Analytics!AnalyticsInv

\* What the invariant says of one job and its snapshots.
LEMMA EarlierSnapshots ==
  ASSUME Analytics!AnalyticsInv, NEW c \in Actors
  PROVE  /\ s3 \subseteq Analytics!PostAnalyticsSnapshot
         /\ \A s \in s3 : s.job = c /\ s.status = "ready" =>
              /\ s.contract \in Contracts /\ s2[c].pc \in {"fail", "done"}
              /\ s2[c].pc = "fail" => s2[c].answer = "provider_failed" /\ s2[c].started <= s.at
         /\ \A s \in s3 : s.job = c /\ s.status = "failed" => s2[c].pc = "done"
         /\ \A s, f \in s3 : s.job = c /\ f.job = c /\ s.post = f.post /\ s.status = "ready" /\ f.status = "failed" => f.at <= s.at
         /\ s2[c] \in Analytics!CaptureJob /\ s2[c].started <= s1
         /\ s2[c].pc \notin {"idle", "done"} => s2[c].post \in Posts
         /\ s2[c].pc = "save" =>
              /\ s2[c].answer \in {"ready", "pending", "unavailable"} /\ s2[c].started <= s2[c].at
              /\ s2[c].answer = "ready" => s2[c].contract \in Contracts
  BY DEF Analytics!AnalyticsInv, Analytics!AnalyticsTypeOK, Analytics!ReadyIsTheLastAttempt, Analytics!FailedIsOver,
     Analytics!ReadyOutlivesItsFailure, Analytics!AnswersFollowTheirStart

\* A job that saves nothing keeps the invariant.
LEMMA CaptureTurns ==
  ASSUME Analytics!AnalyticsInv, NEW c \in Actors, NEW j \in Analytics!CaptureJob, s2' = [s2 EXCEPT ![c] = j],
         UNCHANGED <<s1, s3, Analytics!others>>, s2[c].pc \in {"idle", "start", "ask"},
         j.pc \in {"start", "ask", "save", "fail"}, j.post \in Posts, j.started <= s1,
         j.pc = "save" => /\ j.answer \in {"ready", "pending", "unavailable"} /\ j.started <= j.at
                          /\ j.answer = "ready" => j.contract \in Contracts
  PROVE  Analytics!AnalyticsInv'
<1>1. \A s \in s3 : s.job = c => s.status \notin {"ready", "failed"}
  BY EarlierSnapshots
<1>2. /\ s3' = s3 /\ UNCHANGED <<s1, Analytics!others>> /\ s3 \subseteq Analytics!PostAnalyticsSnapshot
  BY EarlierSnapshots
<1>3. \A s \in s3' : s.job = c => s.status \notin {"ready", "failed"}
  BY <1>1, <1>2
<1>4. \A s \in s3' : s.job = c /\ s.status = "ready" =>
            /\ s.contract \in Contracts /\ j.pc \in {"fail", "done"}
            /\ j.pc = "fail" => j.answer = "provider_failed" /\ j.started <= s.at
  BY <1>3
<1>5. \A s, f \in s3' : s.job = c /\ f.job = c /\ s.post = f.post /\ s.status = "ready" /\ f.status = "failed" => f.at <= s.at
  BY <1>3
<1>6. \A s \in s3' : s.job = c /\ s.status = "failed" => j.pc = "done"
  BY <1>3
<1>7. s3' \subseteq Analytics!PostAnalyticsSnapshot /\ s3 \subseteq s3' /\ \A s \in s3' \ s3 : s.job = c
  BY <1>2
<1>8. SavedFits(s3', c, j)
  BY <1>4, <1>5, <1>6, <1>7 DEF SavedFits
<1> QED BY <1>2, <1>8, CaptureMoves

\* Queueing, starting and asking keep the invariant.
LEMMA CaptureBegins ==
  ASSUME Analytics!AnalyticsInv, NEW c \in Actors, (\E p \in Posts : Analytics!refresh(c, p)) \/ Analytics!StartCapture(c) \/ Analytics!Ask(c)
  PROVE  Analytics!AnalyticsInv'
<1>0. s1 \in 0..MaxTime /\ 0 \in 0..MaxTime
  BY AnalyticsAssumption DEF Analytics!AnalyticsInv, Analytics!AnalyticsTypeOK
<1> DEFINE k == s2[c]
<1>00. k \in Analytics!CaptureJob /\ k.tries \in Nat /\ k.started \in 0..MaxTime
  BY EarlierSnapshots DEF Analytics!CaptureJob
<1>1. ASSUME NEW p \in Posts, Analytics!refresh(c, p) PROVE Analytics!AnalyticsInv'
  <2>1. PICK j : j = Analytics!jobAt("start", p)
    OBVIOUS
  <2>2. j \in Analytics!CaptureJob
    BY <2>1, JobsBetweenAttempts
  <2>3. j.pc = "start" /\ j.post = p /\ j.started = 0
    BY <2>1 DEF Analytics!jobAt
  <2>5. /\ k.pc = "idle" /\ s2' = [s2 EXCEPT ![c] = j] /\ UNCHANGED <<s1, s3, Analytics!others>>
    BY <1>1, <2>1 DEF Analytics!refresh
  <2>7. j.post \in Posts /\ j.started <= s1 /\ j.pc # "save"
    BY <1>0, <2>3, AnalyticsAssumption
  <2> QED BY <2>2, <2>3, <2>5, <2>7, CaptureTurns
<1>2. CASE Analytics!StartCapture(c)
  <2>1. PICK account \in BOOLEAN : s2' = [s2 EXCEPT ![c] =
          [s2[c] EXCEPT !.pc = IF account THEN "ask" ELSE "fail",
                             !.answer = IF account THEN "none" ELSE "permission_missing",
                             !.started = s1, !.tries = s2[c].tries + 1]]
    BY <1>2, EarlierSnapshots DEF Analytics!StartCapture
  <2>2. PICK pc \in {"ask", "fail"}, answer \in {"none", "permission_missing"}, tries \in Nat :
          /\ pc = IF account THEN "ask" ELSE "fail"
          /\ answer = IF account THEN "none" ELSE "permission_missing"
          /\ tries = k.tries + 1
    BY <1>00
  <2>3. PICK j : j = [k EXCEPT !.pc = pc, !.answer = answer, !.started = s1, !.tries = tries]
    OBVIOUS
  <2>4. j \in Analytics!CaptureJob
    <3>1. [k EXCEPT !.pc = pc, !.answer = answer, !.started = s1, !.tries = tries] \in Analytics!CaptureJob
      <4> HIDE DEF k
      <4> QED BY <1>0, <1>00 DEF Analytics!CaptureJob
    <3> QED BY <2>3, <3>1
  <2>5. j.pc = pc /\ j.post = k.post /\ j.started = s1
    BY <1>00, <2>3 DEF Analytics!CaptureJob
  <2>6. k.pc = "start" /\ s2' = [s2 EXCEPT ![c] = j] /\ UNCHANGED <<s1, s3, Analytics!others>>
    BY <1>2, <2>1, <2>2, <2>3 DEF Analytics!StartCapture
  <2>8. j.post \in Posts /\ j.started <= s1 /\ j.pc # "save"
    BY <1>0, <2>5, <2>6, EarlierSnapshots, AnalyticsAssumption
  <2> QED BY <2>4, <2>5, <2>6, <2>8, CaptureTurns
<1>3. CASE Analytics!Ask(c)
  <2>1. PICK answer \in Analytics!readPostAnalytics(s2[c].post), m \in Contracts : s2' = [s2 EXCEPT ![c] =
            [s2[c] EXCEPT !.answer = answer,
                      !.at = IF answer \in {"ready", "pending", "unavailable"} THEN s1 ELSE 0,
                      !.contract = IF answer = "ready" THEN m ELSE 0,
                      !.pc = IF answer \in {"ready", "pending", "unavailable"} THEN "save" ELSE "fail"]]
    BY <1>3, EarlierSnapshots DEF Analytics!Ask
  <2>2. answer \in {"ready", "pending", "unavailable", "unsupported", "permission_missing", "transient", "provider_failed"}
    BY DEF Analytics!readPostAnalytics, Analytics!instagramAnalytics, Analytics!facebookAnalytics,
       Analytics!youtubeAnalytics
  <2>3. PICK pc \in {"save", "fail"}, at \in {s1, 0}, contract \in Contracts \cup {0} :
          /\ pc = IF answer \in {"ready", "pending", "unavailable"} THEN "save" ELSE "fail"
          /\ at = IF answer \in {"ready", "pending", "unavailable"} THEN s1 ELSE 0
          /\ contract = IF answer = "ready" THEN m ELSE 0
    OBVIOUS
  <2>4. PICK j : j = [k EXCEPT !.answer = answer, !.at = at, !.contract = contract, !.pc = pc]
    OBVIOUS
  <2>5. j \in Analytics!CaptureJob
    <3>1. [k EXCEPT !.answer = answer, !.at = at, !.contract = contract, !.pc = pc] \in Analytics!CaptureJob
      <4>1. at \in 0..MaxTime
        BY <1>0
      <4> HIDE DEF k
      <4> QED BY <1>00, <2>2, <4>1 DEF Analytics!CaptureJob
    <3> QED BY <2>4, <3>1
  <2>6. j.pc = pc /\ j.post = k.post /\ j.started = k.started /\ j.answer = answer /\ j.at = at /\ j.contract = contract
    BY <1>00, <2>4 DEF Analytics!CaptureJob
  <2>7. k.pc = "ask" /\ s2' = [s2 EXCEPT ![c] = j] /\ UNCHANGED <<s1, s3, Analytics!others>>
    BY <1>3, <2>1, <2>3, <2>4 DEF Analytics!Ask
  <2>9. j.post \in Posts /\ j.started <= s1 /\ j.pc \in {"save", "fail"}
    BY <1>0, <2>6, <2>7, EarlierSnapshots
  <2>10. /\ j.pc = "save" => j.answer \in {"ready", "pending", "unavailable"} /\ j.started <= j.at
         /\ j.pc = "save" /\ j.answer = "ready" => j.contract \in Contracts
    <3>1. j.pc = "save" => answer \in {"ready", "pending", "unavailable"} /\ at = s1
      BY <2>3, <2>6
    <3>2. answer = "ready" => contract \in Contracts
      BY <2>3
    <3> QED BY <2>6, <2>9, <3>1, <3>2
  <2> QED BY <2>5, <2>7, <2>9, <2>10, CaptureTurns
<1> QED BY <1>1, <1>2, <1>3

\* Saving an answer keeps the invariant.
LEMMA CaptureSaves ==
  ASSUME Analytics!AnalyticsInv, NEW c \in Actors, Analytics!saveSnapshot(c)
  PROVE  Analytics!AnalyticsInv'
<1> DEFINE k == s2[c]
<1>0. /\ s1 \in 0..MaxTime /\ 0 \in 0..MaxTime /\ k \in Analytics!CaptureJob /\ k.pc = "save" /\ k.post \in Posts /\ k.started \in 0..MaxTime /\ k.at \in 0..MaxTime
      /\ k.answer \in {"ready", "pending", "unavailable"} /\ k.started <= k.at /\ k.contract \in Contracts \cup {0}
      /\ k.answer = "ready" => k.contract \in Contracts
  <2>1. s1 \in 0..MaxTime /\ 0 \in 0..MaxTime
    BY AnalyticsAssumption DEF Analytics!AnalyticsInv, Analytics!AnalyticsTypeOK
  <2>2. k.pc = "save" /\ k \in Analytics!CaptureJob
    BY EarlierSnapshots DEF Analytics!saveSnapshot
  <2>3. k.started \in 0..MaxTime /\ k.at \in 0..MaxTime /\ k.contract \in Contracts \cup {0}
    BY <2>2 DEF Analytics!CaptureJob
  <2> QED BY <2>1, <2>2, <2>3, EarlierSnapshots
<1>1. PICK n : n = [post |-> k.post, at |-> k.at, status |-> k.answer, contract |-> k.contract, job |-> c]
  OBVIOUS
<1>2. n \in Analytics!PostAnalyticsSnapshot
  BY <1>0, <1>1 DEF Analytics!PostAnalyticsSnapshot, Analytics!AnalyticsSnapshotStatus
<1>3. n.post = k.post /\ n.at = k.at /\ n.status = k.answer /\ n.contract = k.contract /\ n.job = c
  BY <1>1
<1>4. PICK done : done = Analytics!jobAt("done", Nothing)
  OBVIOUS
<1>5. done \in Analytics!CaptureJob /\ done.pc = "done" /\ done.started <= s1
  BY <1>0, <1>4, JobsBetweenAttempts DEF Analytics!jobAt
<1>6. PICK late : late = [k EXCEPT !.pc = "fail", !.answer = "provider_failed", !.contract = 0, !.at = 0]
  OBVIOUS
<1>7. late \in Analytics!CaptureJob
  <2> HIDE DEF k
  <2>1. ASSUME NEW z \in 0..MaxTime, NEW m \in Contracts \cup {0}
        PROVE  [k EXCEPT !.pc = "fail", !.answer = "provider_failed", !.contract = m, !.at = z] \in Analytics!CaptureJob
    BY <1>0 DEF Analytics!CaptureJob
  <2> QED BY <1>0, <1>6, <2>1
<1>8. late.pc = "fail" /\ late.answer = "provider_failed" /\ late.post = k.post /\ late.started = k.started
  BY <1>0, <1>6 DEF Analytics!CaptureJob
<1>9. /\ s3' = s3 \cup {n} \/ s3' = s3
      /\ (s2' = [s2 EXCEPT ![c] = done] /\ s3' = s3 \cup {n}) \/ s2' = [s2 EXCEPT ![c] = late]
      /\ UNCHANGED <<s1, Analytics!others>>
  BY <1>1, <1>4, <1>6, EarlierSnapshots DEF Analytics!saveSnapshot, Analytics!caught, Analytics!saved
<1>10. \A s \in s3 : s.job = c => s.status \notin {"ready", "failed"}
  BY <1>0, EarlierSnapshots
<1>11. \A s \in s3' : s.job = c => s.status # "failed" /\ (s.status = "ready" => s.contract \in Contracts /\ k.started <= s.at)
  BY <1>0, <1>3, <1>9, <1>10
<1>12. /\ s3' \subseteq Analytics!PostAnalyticsSnapshot /\ s3 \subseteq s3'
       /\ \A s \in s3' \ s3 : s.job = c
  BY <1>2, <1>3, <1>9, EarlierSnapshots
<1>13. PICK j \in {done, late} : s2' = [s2 EXCEPT ![c] = j]
  BY <1>9
<1>14. /\ j \in Analytics!CaptureJob /\ j.pc \in {"fail", "done"} /\ j.started <= s1
       /\ j.pc = "fail" => j.post \in Posts /\ j.answer = "provider_failed" /\ j.started = k.started
  BY <1>0, <1>5, <1>7, <1>8, <1>13, EarlierSnapshots
<1>15. \A s \in s3' : s.job = c /\ s.status = "ready" =>
            /\ s.contract \in Contracts /\ j.pc \in {"fail", "done"}
            /\ j.pc = "fail" => j.answer = "provider_failed" /\ j.started <= s.at
  BY <1>11, <1>14
<1>16. \A s, f \in s3' : s.job = c /\ f.job = c /\ s.post = f.post /\ s.status = "ready" /\ f.status = "failed" => f.at <= s.at
  BY <1>11
<1>17. \A s \in s3' : s.job = c /\ s.status = "failed" => j.pc = "done"
  BY <1>11
<1>18. SavedFits(s3', c, j)
  BY <1>12, <1>15, <1>16, <1>17 DEF SavedFits
<1> QED BY <1>9, <1>13, <1>14, <1>18, CaptureMoves

\* Saving a failure keeps the invariant: a ready snapshot of this job is not older.
LEMMA CaptureFails ==
  ASSUME Analytics!AnalyticsInv, NEW c \in Actors, Analytics!SaveFailure(c)
  PROVE  Analytics!AnalyticsInv'
<1> DEFINE k == s2[c]
<1>0. /\ s1 \in 0..MaxTime /\ 0 \in 0..MaxTime /\ k \in Analytics!CaptureJob /\ k.pc = "fail" /\ k.post \in Posts /\ k.started \in 0..MaxTime
      /\ k.started <= s1
  <2>1. s1 \in 0..MaxTime /\ 0 \in 0..MaxTime
    BY AnalyticsAssumption DEF Analytics!AnalyticsInv, Analytics!AnalyticsTypeOK
  <2>2. k.pc = "fail" /\ k \in Analytics!CaptureJob
    BY EarlierSnapshots DEF Analytics!SaveFailure
  <2>3. k.started \in 0..MaxTime
    BY <2>2 DEF Analytics!CaptureJob
  <2> QED BY <2>1, <2>2, <2>3, EarlierSnapshots
<1>1. PICK n : n = [post |-> k.post, at |-> k.started, status |-> Analytics!failureStatus(c), contract |-> 0, job |-> c]
  OBVIOUS
<1>2. /\ Analytics!failureStatus(c) \in Analytics!AnalyticsSnapshotStatus \ {"ready"}
      /\ Analytics!failureStatus(c) = "failed" => ~Analytics!retries(c)
      /\ Analytics!retries(c) => k.answer = "transient"
  BY DEF Analytics!failureStatus, Analytics!AnalyticsSnapshotStatus, Analytics!retries
<1>3. n \in Analytics!PostAnalyticsSnapshot
  <2>1. ASSUME NEW st \in Analytics!AnalyticsSnapshotStatus, NEW z \in Contracts \cup {0}
        PROVE  [post |-> k.post, at |-> k.started, status |-> st, contract |-> z, job |-> c] \in Analytics!PostAnalyticsSnapshot
    BY <1>0 DEF Analytics!PostAnalyticsSnapshot
  <2> QED BY <1>1, <1>2, <2>1
<1>4. n.post = k.post /\ n.at = k.started /\ n.status = Analytics!failureStatus(c) /\ n.job = c
  BY <1>1
<1>5. s3' = s3 \cup {n} /\ UNCHANGED <<s1, Analytics!others>>
  BY <1>1 DEF Analytics!SaveFailure, Analytics!saved, Analytics!stampOfFailure
<1>6. PICK j : j = IF Analytics!retries(c) THEN [k EXCEPT !.pc = "start"] ELSE Analytics!jobAt("done", Nothing)
  OBVIOUS
<1>7. s2' = [s2 EXCEPT ![c] = j]
  BY <1>6, EarlierSnapshots DEF Analytics!SaveFailure
<1>8. CASE Analytics!retries(c)
  <2>1. j \in Analytics!CaptureJob /\ j.pc = "start" /\ j.post = k.post /\ j.started = k.started
    <3>1. j = [k EXCEPT !.pc = "start"]
      BY <1>6, <1>8
    <3> HIDE DEF k
    <3> QED BY <1>0, <3>1 DEF Analytics!CaptureJob
  <2>2. \A s \in s3 : s.job = c => s.status \notin {"ready", "failed"}
    BY <1>0, <1>2, <1>8, EarlierSnapshots
  <2>3. \A s \in s3' : s.job = c => s.status \notin {"ready", "failed"}
    BY <1>2, <1>4, <1>5, <1>8, <2>2
  <2>4. \A s \in s3' : s.job = c /\ s.status = "ready" =>
            /\ s.contract \in Contracts /\ j.pc \in {"fail", "done"}
            /\ j.pc = "fail" => j.answer = "provider_failed" /\ j.started <= s.at
    BY <2>3
  <2>5. \A s, f \in s3' : s.job = c /\ f.job = c /\ s.post = f.post /\ s.status = "ready" /\ f.status = "failed" => f.at <= s.at
    BY <2>3
  <2>6. \A s \in s3' : s.job = c /\ s.status = "failed" => j.pc = "done"
    BY <2>3
  <2>7. /\ s3' \subseteq Analytics!PostAnalyticsSnapshot /\ s3 \subseteq s3' /\ \A s \in s3' \ s3 : s.job = c
    BY <1>3, <1>4, <1>5, EarlierSnapshots
  <2>8. j.post \in Posts /\ j.started <= s1 /\ j.pc # "save"
    BY <1>0, <2>1
  <2>9. SavedFits(s3', c, j)
    BY <2>4, <2>5, <2>6, <2>7 DEF SavedFits
  <2> QED BY <1>5, <1>7, <2>1, <2>8, <2>9, CaptureMoves
<1>9. CASE ~Analytics!retries(c)
  <2>1. j = Analytics!jobAt("done", Nothing)
    BY <1>6, <1>9
  <2>2. j \in Analytics!CaptureJob /\ j.pc = "done" /\ j.started <= s1
    BY <1>0, <2>1, JobsBetweenAttempts DEF Analytics!jobAt
  <2>3. /\ \A s \in s3 : s.job = c => s.status # "failed"
        /\ \A s \in s3 : s.job = c /\ s.status = "ready" => s.contract \in Contracts /\ k.started <= s.at
    BY <1>0, EarlierSnapshots
  <2>4. \A s \in s3' : s.job = c /\ s.status = "ready" =>
            /\ s.contract \in Contracts /\ j.pc \in {"fail", "done"}
            /\ j.pc = "fail" => j.answer = "provider_failed" /\ j.started <= s.at
    BY <1>2, <1>4, <1>5, <2>2, <2>3
  <2>5. \A s, f \in s3' : s.job = c /\ f.job = c /\ s.post = f.post /\ s.status = "ready" /\ f.status = "failed" => f.at <= s.at
    <3> SUFFICES ASSUME NEW s \in s3', NEW f \in s3', s.job = c, f.job = c, s.status = "ready", f.status = "failed" PROVE f.at <= s.at
      OBVIOUS
    <3>1. f = n /\ s \in s3
      BY <1>2, <1>4, <1>5, <2>3
    <3> QED BY <1>4, <2>3, <3>1
  <2>6. /\ s3' \subseteq Analytics!PostAnalyticsSnapshot /\ s3 \subseteq s3' /\ \A s \in s3' \ s3 : s.job = c
    BY <1>3, <1>4, <1>5, EarlierSnapshots
  <2>7. SavedFits(s3', c, j)
    BY <2>2, <2>4, <2>5, <2>6 DEF SavedFits
  <2> QED BY <1>5, <1>7, <2>2, <2>7, CaptureMoves
<1> QED BY <1>8, <1>9

\* A report has rows of the posts in scope, and totals of comparable numbers.
LEMMA ReportsHaveRows ==
  ASSUME Analytics!AnalyticsInv, Analytics!createAnalyticsReportSnapshot
  PROVE  /\ s6'.total \in {"none", "ready", "unavailable", "not_comparable"}
         /\ DOMAIN s6'.rows \subseteq Posts
         /\ \A p \in DOMAIN s6'.rows : s6'.rows[p] \in Analytics!AnalyticsReportProofRow
         /\ Analytics!TotalsAreComparable'
<1>1. PICK rows \in Analytics!proofRows(s5.at) : s6' = [rows |-> rows, total |-> Analytics!total(rows)]
  BY DEF Analytics!createAnalyticsReportSnapshot
<1>2. rows \in [s4.scope -> Analytics!AnalyticsReportProofRow] /\ DOMAIN rows = s4.scope
  BY DEF Analytics!proofRows
<1>3. s4.scope \subseteq Posts
  BY DEF Analytics!AnalyticsInv, Analytics!AnalyticsTypeOK
<1>4. s6'.rows = rows /\ s6'.total = Analytics!total(rows)
  BY <1>1
<1>5. Analytics!total(rows) \in {"ready", "unavailable", "not_comparable"}
  BY DEF Analytics!total
<1>6. \A p \in Analytics!measured(rows) : rows[p].contract \in Contracts
  <2> SUFFICES ASSUME NEW p \in DOMAIN rows, rows[p].status \in {"ready", "stale"} PROVE rows[p].contract \in Contracts
    BY DEF Analytics!measured
  <2>1. rows[p] # Analytics!NotFetched
    BY DEF Analytics!NotFetched
  <2>2. PICK s \in Analytics!latestOf(p) : rows[p] = Analytics!rowOf(s, s5.at)
    BY <1>2, <2>1 DEF Analytics!proofRows
  <2>3. s \in s3
    BY DEF Analytics!latestOf, Analytics!ofPost
  <2>4. s.status \in Analytics!AnalyticsSnapshotStatus
    BY <2>3 DEF Analytics!AnalyticsInv, Analytics!AnalyticsTypeOK, Analytics!PostAnalyticsSnapshot
  <2>5. s.status = "ready" /\ rows[p].contract = s.contract
    BY <2>2, <2>4 DEF Analytics!rowOf, Analytics!AnalyticsSnapshotStatus
  <2> QED BY <2>3, <2>5 DEF Analytics!AnalyticsInv, Analytics!ReadyIsTheLastAttempt
<1>7. Analytics!contractsOf(rows) \subseteq Contracts /\ IsFiniteSet(Analytics!contractsOf(rows))
  <2>1. Analytics!contractsOf(rows) \subseteq Contracts
    BY <1>6 DEF Analytics!contractsOf
  <2> QED BY <2>1, AnalyticsAssumption, FS_Subset
<1>8. ASSUME Analytics!total(rows) = "ready"
      PROVE  /\ Analytics!measured(rows) # {}
             /\ \E k \in Contracts \ NonAdditive : \A p \in Analytics!measured(rows) : rows[p].contract = k
  <2>1. Analytics!measured(rows) # {} /\ Analytics!Cardinality(Analytics!contractsOf(rows)) = 1 /\ ~(Analytics!contractsOf(rows) \subseteq NonAdditive)
    BY <1>8 DEF Analytics!total, Analytics!contractCount
  <2>5. Cardinality(Analytics!contractsOf(rows)) = 1
    BY <2>1 DEF Analytics!Cardinality, Cardinality
  <2>2. PICK k : Analytics!contractsOf(rows) = {k}
    BY <1>7, <2>5, FS_Singleton
  <2>3. k \in Contracts \ NonAdditive
    BY <1>7, <2>1, <2>2
  <2>4. \A p \in Analytics!measured(rows) : rows[p].contract \in Analytics!contractsOf(rows)
    BY DEF Analytics!contractsOf
  <2> QED BY <2>1, <2>2, <2>3, <2>4
<1>9. Analytics!TotalsAreComparable'
  <2> SUFFICES ASSUME Analytics!total(rows) = "ready"
               PROVE  /\ Analytics!measured(rows) # {}
                      /\ \A p, q \in Analytics!measured(rows) : rows[p].contract = rows[q].contract
                      /\ \A p \in Analytics!measured(rows) : rows[p].contract \notin NonAdditive \cup {0}
    <3>1. Analytics!measured(s6.rows)' = Analytics!measured(rows)
      BY <1>4 DEF Analytics!measured
    <3> QED BY <1>4, <3>1 DEF Analytics!TotalsAreComparable
  <2>1. PICK k \in Contracts \ NonAdditive : \A p \in Analytics!measured(rows) : rows[p].contract = k
    BY <1>8
  <2>2. Analytics!measured(rows) # {}
    BY <1>8
  <2>3. k \notin NonAdditive \cup {0}
    BY AnalyticsAssumption
  <2> QED BY <2>1, <2>2, <2>3
<1> QED BY <1>2, <1>3, <1>4, <1>5, <1>9

\* Generating, sharing and archiving reports keeps the invariant.
LEMMA ReportSteps ==
  ASSUME Analytics!AnalyticsInv, \/ Analytics!generate \/ Analytics!createAnalyticsReportSnapshot \/ Analytics!archiveAnalyticsReportDefinition \/ Analytics!Tick
                                 \/ \E l \in Links : Analytics!share(l) \/ Analytics!revokeShare(l)
  PROVE  Analytics!AnalyticsInv'
<1>0. /\ s1 \in 0..MaxTime /\ s7 \in [Links -> {"none", "open", "revoked"}]
      /\ s4 \in [status : {"active", "archived"}, scope : SUBSET Posts]
      /\ s2 \in [Actors -> Analytics!CaptureJob] /\ \A s \in s3 : s.job \in Actors
  BY DEF Analytics!AnalyticsInv, Analytics!AnalyticsTypeOK, Analytics!PostAnalyticsSnapshot
<1>1. UNCHANGED <<s2, s3>>
  BY DEF Analytics!generate, Analytics!createAnalyticsReportSnapshot, Analytics!archiveAnalyticsReportDefinition,
     Analytics!Tick, Analytics!others, Analytics!share, Analytics!revokeShare
<1>2. s1' \in 0..MaxTime /\ s1 <= s1'
  BY <1>0, AnalyticsAssumption DEF Analytics!generate, Analytics!createAnalyticsReportSnapshot,
     Analytics!archiveAnalyticsReportDefinition, Analytics!Tick, Analytics!others, Analytics!share,
     Analytics!revokeShare
<1>3. Analytics!ReadyOutlivesItsFailure' /\ Analytics!ReadyIsTheLastAttempt' /\ Analytics!FailedIsOver'
  BY <1>1 DEF Analytics!AnalyticsInv, Analytics!ReadyOutlivesItsFailure, Analytics!ReadyIsTheLastAttempt,
     Analytics!FailedIsOver
<1>4. Analytics!AnswersFollowTheirStart'
  <2>1. \A c \in Actors : s2[c].started \in 0..MaxTime
    BY <1>0 DEF Analytics!CaptureJob
  <2>2. \A c \in Actors : s2[c].started <= s1'
    BY <1>0, <1>2, <2>1, AnalyticsAssumption DEF Analytics!AnalyticsInv, Analytics!AnswersFollowTheirStart
  <2> QED BY <1>1, <2>2 DEF Analytics!AnalyticsInv, Analytics!AnswersFollowTheirStart
<1>5. CASE Analytics!generate
  <2>1. /\ s5' = [pc |-> "collect", at |-> s1] /\ s6 = Analytics!NoReport /\ UNCHANGED <<s1, s4, s6, s7>>
    BY <1>5 DEF Analytics!generate
  <2>2. s5' \in [pc : {"idle", "collect"}, at : 0..MaxTime]
    BY <1>0, <2>1
  <2>3. Analytics!AnalyticsTypeOK'
    BY <1>1, <2>1, <2>2 DEF Analytics!AnalyticsInv, Analytics!AnalyticsTypeOK
  <2> QED BY <1>3, <1>4, <2>1, <2>3 DEF Analytics!AnalyticsInv, Analytics!TotalsAreComparable, Analytics!SharedIsProven,
     Analytics!ReportIsKept, Analytics!measured
<1>6. CASE Analytics!createAnalyticsReportSnapshot
  <2>1. /\ s5' = [pc |-> "idle", at |-> 0] /\ s6 = Analytics!NoReport /\ UNCHANGED <<s1, s4, s7>>
    BY <1>6 DEF Analytics!createAnalyticsReportSnapshot, Analytics!AnalyticsInv, Analytics!ReportIsKept
  <2>2. s5' \in [pc : {"idle", "collect"}, at : 0..MaxTime] /\ s5'.pc = "idle"
    BY AnalyticsAssumption, <2>1
  <2>3. Analytics!AnalyticsTypeOK'
    BY <1>1, <1>6, <2>1, <2>2, ReportsHaveRows DEF Analytics!AnalyticsInv, Analytics!AnalyticsTypeOK
  <2>4. \A l \in Links : s7[l] # "open"
    BY <2>1 DEF Analytics!AnalyticsInv, Analytics!ReportIsKept
  <2> QED BY <1>3, <1>4, <1>6, <2>1, <2>2, <2>3, <2>4, ReportsHaveRows DEF Analytics!AnalyticsInv,
     Analytics!SharedIsProven, Analytics!ReportIsKept
<1>7. CASE Analytics!archiveAnalyticsReportDefinition
  <2>1. s4' \in [status : {"active", "archived"}, scope : SUBSET Posts] /\ UNCHANGED <<s1, s5, s6, s7>>
    BY <1>0, <1>7 DEF Analytics!archiveAnalyticsReportDefinition
  <2>2. Analytics!AnalyticsTypeOK'
    BY <1>1, <2>1 DEF Analytics!AnalyticsInv, Analytics!AnalyticsTypeOK
  <2> QED BY <1>3, <1>4, <2>1, <2>2 DEF Analytics!AnalyticsInv, Analytics!TotalsAreComparable, Analytics!SharedIsProven,
     Analytics!ReportIsKept, Analytics!measured
<1>8. CASE Analytics!Tick
  <2>1. UNCHANGED <<s4, s5, s6, s7>>
    BY <1>8 DEF Analytics!Tick, Analytics!others
  <2>2. Analytics!AnalyticsTypeOK'
    BY <1>1, <1>2, <2>1 DEF Analytics!AnalyticsInv, Analytics!AnalyticsTypeOK
  <2> QED BY <1>3, <1>4, <2>1, <2>2 DEF Analytics!AnalyticsInv, Analytics!TotalsAreComparable, Analytics!SharedIsProven,
     Analytics!ReportIsKept, Analytics!measured
<1>9. CASE \E l \in Links : Analytics!share(l) \/ Analytics!revokeShare(l)
  <2>1. PICK l \in Links : Analytics!share(l) \/ Analytics!revokeShare(l)
    BY <1>9
  <2>2. /\ s7' = [s7 EXCEPT ![l] = "open"] \/ s7' = [s7 EXCEPT ![l] = "revoked"]
        /\ s7' = [s7 EXCEPT ![l] = "open"] => s6 # Analytics!NoReport /\ Analytics!mayShare(s6.rows)
        /\ UNCHANGED <<s1, s4, s5, s6>>
    <3>1. CASE Analytics!share(l)
      BY <3>1 DEF Analytics!share
    <3>2. CASE Analytics!revokeShare(l)
      <4>1. s7' = [s7 EXCEPT ![l] = "revoked"] /\ UNCHANGED <<s1, s4, s5, s6>>
        BY <3>2 DEF Analytics!revokeShare
      <4>2. s7'[l] = "revoked"
        BY <1>0, <4>1
      <4>3. s7' # [s7 EXCEPT ![l] = "open"]
        BY <1>0, <4>2
      <4> QED BY <4>1, <4>3
    <3> QED BY <2>1, <3>1, <3>2
  <2>3. s7' \in [Links -> {"none", "open", "revoked"}]
    BY <1>0, <2>2
  <2>4. \A m \in Links : s7'[m] = "open" => s7[m] = "open" \/ (s6 # Analytics!NoReport /\ Analytics!mayShare(s6.rows))
    BY <1>0, <2>2
  <2>5. Analytics!mayShare(s6.rows) => \A p \in DOMAIN s6.rows : Mode[p] \notin {"simulation", "legacy_unknown"}
    BY DEF Analytics!mayShare, Analytics!isClientReportEligibleEvidenceMode
  <2>6. Analytics!AnalyticsTypeOK'
    BY <1>1, <2>2, <2>3 DEF Analytics!AnalyticsInv, Analytics!AnalyticsTypeOK
  <2>7. Analytics!SharedIsProven' /\ Analytics!ReportIsKept'
    BY <2>2, <2>4, <2>5 DEF Analytics!AnalyticsInv, Analytics!SharedIsProven, Analytics!ReportIsKept
  <2> QED BY <1>3, <1>4, <2>2, <2>6, <2>7 DEF Analytics!AnalyticsInv, Analytics!TotalsAreComparable, Analytics!measured
<1> QED BY <1>5, <1>6, <1>7, <1>8, <1>9

\* Every step of the analytics keeps its invariant.
LEMMA AnalyticsNextKeeps == Analytics!AnalyticsInv /\ Analytics!AnalyticsNext => Analytics!AnalyticsInv'
<1> SUFFICES ASSUME Analytics!AnalyticsInv, Analytics!AnalyticsNext PROVE Analytics!AnalyticsInv'
  OBVIOUS
<1>1. CASE \E c \in Actors : (\E p \in Posts : Analytics!refresh(c, p)) \/ Analytics!StartCapture(c) \/ Analytics!Ask(c)
  BY <1>1, CaptureBegins
<1>2. CASE \E c \in Actors : Analytics!saveSnapshot(c)
  BY <1>2, CaptureSaves
<1>3. CASE \E c \in Actors : Analytics!SaveFailure(c)
  BY <1>3, CaptureFails
<1>4. CASE Analytics!generate \/ Analytics!createAnalyticsReportSnapshot \/ Analytics!archiveAnalyticsReportDefinition \/ Analytics!Tick \/ \E l \in Links : Analytics!share(l) \/ Analytics!revokeShare(l)
  BY <1>4, ReportSteps
<1> QED BY <1>1, <1>2, <1>3, <1>4 DEF Analytics!AnalyticsNext

\* So does no step.
LEMMA AnalyticsStutters == Analytics!AnalyticsInv /\ UNCHANGED Analytics!analyticsVars => Analytics!AnalyticsInv'
BY DEF Analytics!AnalyticsInv, Analytics!analyticsVars, Analytics!AnalyticsTypeOK, Analytics!ReadyOutlivesItsFailure,
   Analytics!TotalsAreComparable, Analytics!SharedIsProven, Analytics!AnswersFollowTheirStart,
       Analytics!ReadyIsTheLastAttempt, Analytics!FailedIsOver, Analytics!ReportIsKept, Analytics!measured

-----------------------------------------------------------------------------
(* Proofs.  Batch plans.                                                   *)

\* A row without an item has an empty one.
LEMMA NoItemIsAnItem == Plan!NoItem \in Plan!Items
<1>1. ASSUME NEW z \in 0..MaxItemVersion, NEW n \in 0..2
      PROVE  [version |-> z, drafts |-> n, inReview |-> FALSE, approved |-> FALSE, targets |-> n] \in Plan!Items
  BY DEF Plan!Items
<1>2. 0 \in 0..MaxItemVersion /\ 0 \in 0..2
  BY PlanAssumption
<1> QED BY <1>1, <1>2 DEF Plan!NoItem

\* A request between two rows is a request.
LEMMA BetweenRows ==
  ASSUME NEW pc \in {"idle", "claim", "next"}, NEW mode \in {"commit", "approve"}, NEW v \in 1..MaxPlanVersion, NEW l \in SUBSET PlanRows
  PROVE  LET k == Plan!between(pc, mode, v, l) IN k \in Plan!BatchRequest /\ k.pc = pc /\ k.copy = Plan!NoItem
<1>1. ASSUME NEW r \in PlanRows, NEW i \in Plan!Items
      PROVE  [pc |-> pc, mode |-> mode, version |-> v, left |-> l, row |-> r, copy |-> i, result |-> "ready"] \in Plan!BatchRequest
  BY DEF Plan!BatchRequest, Plan!BatchRowStatus
<1>2. (CHOOSE r \in PlanRows : TRUE) \in PlanRows
  BY PlanAssumption
<1> QED BY <1>1, <1>2, NoItemIsAnItem DEF Plan!between

\* So is an idle one.
LEMMA IdleIsARequest == Plan!Idle \in Plan!BatchRequest /\ Plan!Idle.pc = "idle" /\ Plan!Idle.copy = Plan!NoItem
<1>1. 1 \in 1..MaxPlanVersion /\ {} \in SUBSET PlanRows
  BY PlanAssumption
<1> QED BY <1>1, BetweenRows DEF Plan!Idle

\* An empty copy is older than every version.
LEMMA OldestCopy == ASSUME NEW i \in Plan!Items, i.version = 0 => i = Plan!NoItem PROVE Plan!Older(Plan!NoItem, i)
<1>1. i.version \in Nat /\ i.drafts \in Nat /\ i.targets \in Nat
  BY PlanAssumption DEF Plan!Items
<1>2. Plan!NoItem.version = 0 /\ Plan!NoItem.drafts = 0 /\ Plan!NoItem.targets = 0 /\ Plan!NoItem.approved = FALSE /\ Plan!NoItem.inReview = FALSE
  BY DEF Plan!NoItem
<1> QED BY <1>1, <1>2 DEF Plan!Older

\* A copy that is older than an item is older than its next version.
LEMMA OlderStill ==
  ASSUME NEW a \in Plan!Items, NEW b \in Plan!Items, NEW n \in Plan!Items, Plan!Older(a, b), Plan!Older(b, n), n.version > b.version
  PROVE  Plan!Older(a, n)
<1>1. \A x \in Plan!Items : x.version \in Nat /\ x.drafts \in Nat /\ x.targets \in Nat
  BY PlanAssumption DEF Plan!Items
<1>2. a.version < n.version /\ a.drafts <= n.drafts /\ a.targets <= n.targets
  BY <1>1 DEF Plan!Older
<1>3. (a.approved => n.approved) /\ (a.inReview => n.inReview)
  BY DEF Plan!Older
<1>4. a.version <= n.version /\ a.version # n.version
  BY <1>1, <1>2
<1> QED BY <1>2, <1>3, <1>4 DEF Plan!Older

\* A version counts as older than itself.
LEMMA OlderThanItself == ASSUME NEW a \in Plan!Items PROVE Plan!Older(a, a)
<1>1. a.version \in Nat /\ a.drafts \in Nat /\ a.targets \in Nat
  BY PlanAssumption DEF Plan!Items
<1> QED BY <1>1 DEF Plan!Older

\* The invariant of the batch plans holds before the first request.
LEMMA BatchStarts == Plan!BatchInit => Plan!BatchInv
<1> SUFFICES ASSUME Plan!BatchInit PROVE Plan!BatchInv
  OBVIOUS
<1>1. /\ s2 = [r \in PlanRows |-> Plan!NoItem] /\ s3 = [q \in Actors |-> Plan!Idle]
      /\ s4 = [r \in PlanRows |-> 0] /\ s5 = [r \in PlanRows |-> 0]
  BY DEF Plan!BatchInit
<1>2. s1 \in Plan!BatchPlan /\ s1.rows \in [PlanRows -> {"ready", "invalid"}]
  <2>1. /\ s1 \in [version : {1}, status : {"ready"}, quiet : {FALSE}, rows : [PlanRows -> {"ready", "invalid"}],
                      step : {[r \in PlanRows |-> "none"]}, bulkApprovalEligible : SUBSET PlanRows, draftId : {{}}]
    BY DEF Plan!BatchInit
  <2>2. /\ s1 = [version |-> s1.version, status |-> s1.status, quiet |-> s1.quiet, rows |-> s1.rows, step |-> s1.step,
                   bulkApprovalEligible |-> s1.bulkApprovalEligible, draftId |-> s1.draftId]
        /\ s1.rows \in [PlanRows -> {"ready", "invalid"}] /\ s1.step = [r \in PlanRows |-> "none"] /\ s1.bulkApprovalEligible \in SUBSET PlanRows
        /\ s1.version = 1 /\ s1.status = "ready" /\ s1.quiet = FALSE /\ s1.draftId = {}
    BY <2>1
  <2>3. /\ s1.rows \in [PlanRows -> Plan!BatchRowStatus] /\ s1.step \in [PlanRows -> {"none", "prepare", "approval", "schedule"}]
        /\ s1.version \in 1..MaxPlanVersion /\ s1.draftId \in SUBSET PlanRows
    BY <2>2, PlanAssumption DEF Plan!BatchRowStatus
  <2>4. ASSUME NEW v \in 1..MaxPlanVersion, NEW rs \in [PlanRows -> Plan!BatchRowStatus],
               NEW st \in [PlanRows -> {"none", "prepare", "approval", "schedule"}], NEW b \in SUBSET PlanRows, NEW d \in SUBSET PlanRows
        PROVE  [version |-> v, status |-> "ready", quiet |-> FALSE, rows |-> rs, step |-> st, bulkApprovalEligible |-> b, draftId |-> d] \in Plan!BatchPlan
    BY DEF Plan!BatchPlan
  <2>5. s1 \in Plan!BatchPlan
    BY <2>2, <2>3, <2>4
  <2> QED BY <2>1, <2>5
<1>3. Plan!BatchTypeOK
  BY <1>1, <1>2, NoItemIsAnItem, IdleIsARequest DEF Plan!BatchTypeOK
<1>4. Plan!ItemsAreInOrder
  BY <1>1 DEF Plan!ItemsAreInOrder, Plan!NoItem
<1>5. Plan!CopiesAreOlder
  <2>1. Plan!Older(Plan!NoItem, Plan!NoItem)
    BY NoItemIsAnItem, OlderThanItself
  <2> QED BY <1>1, <2>1, IdleIsARequest DEF Plan!CopiesAreOlder, Plan!BatchRequest
<1>6. Plan!ResultsAreTrue
  BY <1>1, IdleIsARequest DEF Plan!ResultsAreTrue
<1>7. Plan!PlanResultsAreTrue
  BY <1>2 DEF Plan!PlanResultsAreTrue, Plan!HoldsOf
<1> QED BY <1>3, <1>4, <1>5, <1>6, <1>7 DEF Plan!BatchInv

\* What the invariant says of one request k.
InOrder(k) ==
  /\ k \in Plan!BatchRequest
  /\ Plan!Older(k.copy, s2[k.row])
  /\ k.pc = "review" => s2[k.row].drafts = 1
  /\ k.pc = "schedule" => s2[k.row].approved
  /\ k.pc = "save" => Plan!HoldsOf(k.row, k.result)

\* The invariant says of every request that it is in order.
LEMMA RequestsInOrder == Plan!BatchInv => \A q \in Actors : InOrder(s3[q])
BY DEF Plan!BatchInv, Plan!BatchTypeOK, Plan!CopiesAreOlder, Plan!ResultsAreTrue, InOrder

\* One request that moves, and stays in order, keeps the invariant.
LEMMA RequestTurns ==
  ASSUME Plan!BatchInv, NEW q \in Actors, NEW k, InOrder(k), s3' = [s3 EXCEPT ![q] = k], UNCHANGED <<s2, s4, s5>>,
         s1' \in Plan!BatchPlan, Plan!PlanResultsAreTrue'
  PROVE  Plan!BatchInv'
<1>1. s3' \in [Actors -> Plan!BatchRequest] /\ \A p \in Actors : s3'[p] = IF p = q THEN k ELSE s3[p]
  BY DEF Plan!BatchInv, Plan!BatchTypeOK, InOrder
<1>2. \A p \in Actors : InOrder(s3'[p])
  BY <1>1, RequestsInOrder
<1>3. Plan!BatchTypeOK'
  BY <1>1 DEF Plan!BatchInv, Plan!BatchTypeOK
<1>4. Plan!CopiesAreOlder' /\ Plan!ResultsAreTrue'
  BY <1>2 DEF Plan!CopiesAreOlder, Plan!ResultsAreTrue, InOrder, Plan!HoldsOf
<1>5. Plan!ItemsAreInOrder'
  BY DEF Plan!BatchInv, Plan!ItemsAreInOrder
<1> QED BY <1>3, <1>4, <1>5 DEF Plan!BatchInv

\* A plan nobody writes stays true.
LEMMA PlanIsKept == Plan!BatchInv /\ UNCHANGED <<s1, s2>> => s1' \in Plan!BatchPlan /\ Plan!PlanResultsAreTrue'
BY DEF Plan!BatchInv, Plan!BatchTypeOK, Plan!PlanResultsAreTrue, Plan!HoldsOf

\* A new version of one item leaves the plan true and every request in order.
LEMMA ItemTurns ==
  ASSUME Plan!BatchInv, NEW r \in PlanRows, NEW n \in Plan!Items, s2' = [s2 EXCEPT ![r] = n], Plan!Older(s2[r], n), n.version > s2[r].version,
         UNCHANGED s1, s4' \in [PlanRows -> 0..2], s5' \in [PlanRows -> 0..2],
         \A p \in PlanRows : s4[p] <= s4'[p] /\ (p # r => s5'[p] = s5[p]),
         n.drafts <= 1, n.targets <= 1, s5'[r] = n.targets,
         n.approved => n.drafts = 1 /\ s4'[r] > 0, n.targets = 1 => n.approved
  PROVE  /\ s1' \in Plan!BatchPlan /\ s2' \in [PlanRows -> Plan!Items] /\ Plan!ItemsAreInOrder' /\ Plan!PlanResultsAreTrue'
         /\ \A k \in Plan!BatchRequest : InOrder(k) => InOrder(k)'
<1>1. s2 \in [PlanRows -> Plan!Items] /\ s4 \in [PlanRows -> 0..2] /\ s5 \in [PlanRows -> 0..2] /\ s1 \in Plan!BatchPlan
  BY DEF Plan!BatchInv, Plan!BatchTypeOK
<1>2. s2' \in [PlanRows -> Plan!Items] /\ s2'[r] = n /\ \A p \in PlanRows : p # r => s2'[p] = s2[p]
  BY <1>1
<1>3. \A p \in PlanRows : Plan!Older(s2[p], s2'[p]) /\ s2'[p] \in Plan!Items /\ s2[p] \in Plan!Items
  BY <1>1, <1>2, OlderThanItself
<1>4. \A p \in PlanRows, x \in Plan!BatchRowStatus : Plan!HoldsOf(p, x) => Plan!HoldsOf(p, x)'
  <2> SUFFICES ASSUME NEW p \in PlanRows, NEW x \in Plan!BatchRowStatus, Plan!HoldsOf(p, x) PROVE Plan!HoldsOf(p, x)'
    OBVIOUS
  <2>1. CASE p # r
    BY <1>2, <2>1 DEF Plan!HoldsOf
  <2>2. CASE p = r
    <3>1. /\ s2[r].targets \in 0..2 /\ n.targets \in 0..2 /\ s2[r].drafts \in 0..2 /\ n.drafts \in 0..2
      BY <1>1 DEF Plan!Items
    <3>2. s2[r].targets <= n.targets /\ s2[r].drafts <= n.drafts /\ (s2[r].approved => n.approved) /\ (s2[r].inReview => n.inReview)
      BY DEF Plan!Older
    <3>3. (s2[r].targets = 1 => n.targets = 1) /\ (s2[r].drafts = 1 => n.drafts = 1)
      BY <3>1, <3>2
    <3> QED BY <1>2, <2>2, <3>2, <3>3 DEF Plan!HoldsOf
  <2> QED BY <2>1, <2>2
<1>5. Plan!ItemsAreInOrder'
  <2>1. n.version # 0
    BY <1>1, PlanAssumption DEF Plan!Items
  <2> SUFFICES ASSUME NEW p \in PlanRows
               PROVE  /\ s2'[p].version = 0 => s2'[p] = Plan!NoItem
                      /\ s2'[p].drafts <= 1 /\ s2'[p].targets <= 1 /\ s5'[p] = s2'[p].targets
                      /\ s2'[p].approved => s2'[p].drafts = 1 /\ s4'[p] > 0
                      /\ s2'[p].targets = 1 => s2'[p].approved
    BY DEF Plan!ItemsAreInOrder
  <2>2. CASE p = r
    BY <1>2, <2>1, <2>2
  <2>3. CASE p # r
    <3>1. s2'[p] = s2[p] /\ s5'[p] = s5[p] /\ s4[p] <= s4'[p]
      BY <1>2, <2>3
    <3>2. s4[p] > 0 => s4'[p] > 0
      BY <1>1, <3>1
    <3> QED BY <3>1, <3>2 DEF Plan!BatchInv, Plan!ItemsAreInOrder
  <2> QED BY <2>2, <2>3
<1>6. Plan!PlanResultsAreTrue'
  <2>1. \A p \in PlanRows : s1.rows[p] \in Plan!BatchRowStatus
    BY <1>1 DEF Plan!BatchPlan
  <2>2. \A p \in PlanRows : Plan!HoldsOf(p, s1.rows[p])
    BY DEF Plan!BatchInv, Plan!PlanResultsAreTrue
  <2>3. \A p \in PlanRows : Plan!HoldsOf(p, s1.rows[p])'
    <3> SUFFICES ASSUME NEW p \in PlanRows PROVE Plan!HoldsOf(p, s1.rows[p])'
      OBVIOUS
    <3>1. PICK x \in Plan!BatchRowStatus : x = s1.rows[p]
      BY <2>1
    <3>2. Plan!HoldsOf(p, x)'
      BY <1>4, <2>2, <3>1
    <3>3. s1.rows[p]' = x
      BY <3>1
    <3> QED BY <3>2, <3>3 DEF Plan!HoldsOf
  <2> QED BY <2>3 DEF Plan!PlanResultsAreTrue
<1>7. ASSUME NEW k \in Plan!BatchRequest, InOrder(k) PROVE InOrder(k)'
  <2>1. /\ Plan!Older(k.copy, s2[k.row]) /\ k.row \in PlanRows /\ k.copy \in Plan!Items /\ k.result \in Plan!BatchRowStatus
        /\ k.pc = "review" => s2[k.row].drafts = 1
        /\ k.pc = "schedule" => s2[k.row].approved
        /\ k.pc = "save" => Plan!HoldsOf(k.row, k.result)
    BY <1>7 DEF InOrder, Plan!BatchRequest
  <2>2. Plan!Older(k.copy, s2'[k.row])
    <3>1. CASE k.row = r
      BY <1>2, <1>3, <2>1, <3>1, OlderStill
    <3>2. CASE k.row # r
      BY <1>2, <2>1, <3>2
    <3> QED BY <3>1, <3>2
  <2>3. k.pc = "save" => Plan!HoldsOf(k.row, k.result)'
    BY <1>4, <2>1
  <2>4. /\ k.pc = "review" => s2'[k.row].drafts = 1
        /\ k.pc = "schedule" => s2'[k.row].approved
    <3>1. Plan!HoldsOf(k.row, "approved") => Plan!HoldsOf(k.row, "approved")'
      BY <1>4, <2>1 DEF Plan!BatchRowStatus
    <3>2. s2[k.row].approved => s2'[k.row].approved
      BY <3>1 DEF Plan!HoldsOf
    <3>3. s2[k.row].drafts = 1 => s2'[k.row].drafts = 1
      <4>1. s2[k.row].drafts \in 0..2 /\ s2'[k.row].drafts \in 0..2 /\ s2[k.row].drafts <= s2'[k.row].drafts
        BY <1>3, <2>1 DEF Plan!Older, Plan!Items
      <4>2. s2'[k.row].drafts <= 1
        BY <1>5, <2>1 DEF Plan!ItemsAreInOrder
      <4> QED BY <4>1, <4>2
    <3> QED BY <2>1, <3>2, <3>3
  <2> QED BY <1>7, <2>2, <2>3, <2>4 DEF InOrder
<1> QED BY <1>1, <1>2, <1>5, <1>6, <1>7

\* What an edited item next must be: more than i, the item that it replaces, and in order with the history of row r.
Gains(r, i, next, then, result, approvals, schedules) ==
  /\ i.drafts <= next.drafts /\ i.targets <= next.targets /\ (i.approved => next.approved) /\ (i.inReview => next.inReview)
  /\ next.drafts <= 1 /\ next.targets <= 1 /\ schedules[r] = next.targets
  /\ (next.approved => next.drafts = 1 /\ approvals[r] > 0) /\ (next.targets = 1 => next.approved)
  /\ (then = "review" => next.drafts = 1) /\ (then = "schedule" => next.approved)
  /\ then = "save" => /\ result = "scheduled" => next.targets = 1
                      /\ result = "approved" => next.approved
                      /\ result = "review_ready" => next.drafts = 1 /\ next.inReview

\* How the histories, approvals and schedules after the step, may go on when the item of row r was written.
HistoryGrows(r, approvals, schedules) ==
  /\ approvals \in [PlanRows -> 0..2] /\ schedules \in [PlanRows -> 0..2]
  /\ \A p \in PlanRows : s4[p] <= approvals[p] /\ (p # r => schedules[p] = s5[p])

\* A new version that one request writes, or a person, keeps the invariant.
LEMMA ItemAndRequestTurn ==
  ASSUME Plan!BatchInv, NEW r \in PlanRows, NEW n \in Plan!Items, s2' = [s2 EXCEPT ![r] = n], n.version > s2[r].version,
         UNCHANGED s1, HistoryGrows(r, s4', s5'),
         NEW q \in Actors, NEW k \in Plan!BatchRequest, s3' = [s3 EXCEPT ![q] = k] \/ UNCHANGED s3, k.copy = n, k.row = r,
         Gains(r, s2[r], n, k.pc, k.result, s4', s5')
  PROVE  Plan!BatchInv'
<1>0. /\ s4' \in [PlanRows -> 0..2] /\ s5' \in [PlanRows -> 0..2]
      /\ \A p \in PlanRows : s4[p] <= s4'[p] /\ (p # r => s5'[p] = s5[p])
  BY DEF HistoryGrows
<1>00. /\ n.drafts <= 1 /\ n.targets <= 1 /\ s5'[r] = n.targets
       /\ n.approved => n.drafts = 1 /\ s4'[r] > 0
       /\ n.targets = 1 => n.approved
  BY DEF Gains
<1>000. Plan!Older(s2[r], n)
  <2>1. s2[r].version \in Nat /\ n.version \in Nat
    BY PlanAssumption DEF Plan!Items, Plan!BatchInv, Plan!BatchTypeOK
  <2>2. s2[r].version <= n.version /\ s2[r].version # n.version
    BY <2>1
  <2> QED BY <2>2 DEF Gains, Plan!Older
<1>1. /\ s1' \in Plan!BatchPlan /\ s2' \in [PlanRows -> Plan!Items] /\ Plan!ItemsAreInOrder' /\ Plan!PlanResultsAreTrue'
      /\ \A m \in Plan!BatchRequest : InOrder(m) => InOrder(m)'
  BY <1>0, <1>00, <1>000, ItemTurns
<1>2. \A p \in Actors : s3[p] \in Plan!BatchRequest /\ InOrder(s3[p])
  BY RequestsInOrder DEF InOrder
<1>3. s2'[r] = n
  BY <1>1 DEF Plan!BatchInv, Plan!BatchTypeOK
<1>4. InOrder(k)'
  BY <1>3, OlderThanItself DEF InOrder, Plan!HoldsOf, Gains
<1>5. s3' \in [Actors -> Plan!BatchRequest] /\ \A p \in Actors : s3'[p] = k \/ s3'[p] = s3[p]
  BY DEF Plan!BatchInv, Plan!BatchTypeOK
<1>6. \A p \in Actors : InOrder(s3[p])'
  <2> SUFFICES ASSUME NEW p \in Actors PROVE InOrder(s3[p])'
    OBVIOUS
  <2>1. PICK m \in Plan!BatchRequest : m = s3'[p] /\ InOrder(m)'
    BY <1>1, <1>2, <1>4, <1>5
  <2> QED BY <2>1 DEF InOrder, Plan!HoldsOf
<1>7. Plan!CopiesAreOlder' /\ Plan!ResultsAreTrue'
  BY <1>6 DEF Plan!CopiesAreOlder, Plan!ResultsAreTrue, InOrder, Plan!HoldsOf
<1> QED BY <1>0, <1>1, <1>5, <1>7 DEF Plan!BatchInv, Plan!BatchTypeOK

\* A request between two rows is in order.
LEMMA BetweenInOrder ==
  ASSUME Plan!BatchInv, NEW k \in Plan!BatchRequest, k.pc \in {"idle", "claim", "next"}, k.copy = Plan!NoItem
  PROVE  InOrder(k)
<1>1. k.row \in PlanRows
  BY DEF Plan!BatchRequest
<1>2. s2[k.row] \in Plan!Items /\ (s2[k.row].version = 0 => s2[k.row] = Plan!NoItem)
  BY <1>1 DEF Plan!BatchInv, Plan!BatchTypeOK, Plan!ItemsAreInOrder
<1> QED BY <1>2, OldestCopy DEF InOrder

\* The types of the plan.
LEMMA PlanVersions ==
  ASSUME Plan!BatchInv
  PROVE  /\ s1 \in Plan!BatchPlan /\ s1.version \in 1..MaxPlanVersion /\ s1.rows \in [PlanRows -> Plan!BatchRowStatus]
         /\ s1.version < MaxPlanVersion => s1.version + 1 \in 1..MaxPlanVersion
<1>1. s1 \in Plan!BatchPlan /\ s1.version \in 1..MaxPlanVersion /\ s1.rows \in [PlanRows -> Plan!BatchRowStatus]
  BY DEF Plan!BatchInv, Plan!BatchTypeOK, Plan!BatchPlan
<1> QED BY <1>1, PlanAssumption

\* A plan with another version or status is a plan, and has its rows.
LEMMA PlansMove ==
  ASSUME NEW p \in Plan!BatchPlan, NEW v \in 1..MaxPlanVersion, NEW st \in {"ready", "processing", "review_ready", "partially_failed", "completed", "archived"}
  PROVE  /\ [p EXCEPT !.version = v, !.status = st, !.quiet = FALSE] \in Plan!BatchPlan
         /\ [p EXCEPT !.status = st, !.version = v] \in Plan!BatchPlan
         /\ [p EXCEPT !.quiet = TRUE] \in Plan!BatchPlan
         /\ [p EXCEPT !.version = v, !.status = st, !.quiet = FALSE].rows = p.rows
         /\ [p EXCEPT !.status = st, !.version = v].rows = p.rows /\ [p EXCEPT !.quiet = TRUE].rows = p.rows
<1>1. [p EXCEPT !.version = v, !.status = st, !.quiet = FALSE] \in Plan!BatchPlan
  BY DEF Plan!BatchPlan
<1>2. [p EXCEPT !.status = st, !.version = v] \in Plan!BatchPlan
  BY DEF Plan!BatchPlan
<1>3. [p EXCEPT !.quiet = TRUE] \in Plan!BatchPlan
  BY DEF Plan!BatchPlan
<1>4. [p EXCEPT !.version = v, !.status = st, !.quiet = FALSE].rows = p.rows
  BY DEF Plan!BatchPlan
<1>5. [p EXCEPT !.status = st, !.version = v].rows = p.rows /\ [p EXCEPT !.quiet = TRUE].rows = p.rows
  BY DEF Plan!BatchPlan
<1> QED BY <1>1, <1>2, <1>3, <1>4, <1>5

\* A plan that keeps its rows stays true.
LEMMA SameRows == ASSUME Plan!BatchInv, s1'.rows = s1.rows, s2' = s2 PROVE Plan!PlanResultsAreTrue'
BY DEF Plan!BatchInv, Plan!PlanResultsAreTrue, Plan!HoldsOf

\* Claiming, finishing, stopping, asking and archiving keep the invariant.
LEMMA PlanGoesOn ==
  ASSUME Plan!BatchInv,
         \/ Plan!archive \/ Plan!goesQuiet
         \/ \E q \in Actors : Plan!claim(q) \/ Plan!finish(q) \/ Plan!requestStops(q) \/ Plan!ask(q, "commit", PlanRows)
                                \/ \E rows \in (SUBSET PlanRows) \ {{}} : Plan!ask(q, "approve", rows)
  PROVE  Plan!BatchInv'
<1>0. \A q \in Actors : InOrder(s3[q]) /\ s3[q] \in Plan!BatchRequest
  BY RequestsInOrder DEF InOrder
<1>1. CASE Plan!archive \/ Plan!goesQuiet
  <2>1. s3' = s3 /\ UNCHANGED <<s2, s4, s5>>
    BY <1>1 DEF Plan!archive, Plan!goesQuiet, Plan!UnchangedItems
  <2>2. s1' \in Plan!BatchPlan /\ s1'.rows = s1.rows
    <3>1. CASE Plan!archive
      <4>1. s1' = [s1 EXCEPT !.status = "archived", !.version = s1.version + 1] /\ s1.version < MaxPlanVersion
        BY <3>1 DEF Plan!archive
      <4> QED BY <4>1, PlanVersions, PlansMove
    <3>2. CASE Plan!goesQuiet
      <4>1. s1' = [s1 EXCEPT !.quiet = TRUE]
        BY <3>2 DEF Plan!goesQuiet
      <4> QED BY <4>1, PlanVersions, PlansMove
    <3> QED BY <1>1, <3>1, <3>2
  <2>3. Plan!PlanResultsAreTrue'
    BY <2>1, <2>2, SameRows
  <2> QED BY <2>1, <2>2, <2>3 DEF Plan!BatchInv, Plan!BatchTypeOK, Plan!ItemsAreInOrder, Plan!CopiesAreOlder,
     Plan!ResultsAreTrue, Plan!HoldsOf
<1>2. ASSUME NEW q \in Actors, Plan!claim(q) PROVE Plan!BatchInv'
  <2>1. UNCHANGED <<s2, s4, s5>>
    BY <1>2 DEF Plan!claim, Plan!UnchangedItems
  <2>2. CASE Plan!replace(s3[q].version)
    <3>1. s1' = [s1 EXCEPT !.version = s1.version + 1, !.status = "processing", !.quiet = FALSE] /\ s1.version < MaxPlanVersion
      BY <1>2, <2>2 DEF Plan!claim, Plan!replace
    <3>2. s1' \in Plan!BatchPlan /\ s1'.rows = s1.rows
      BY <3>1, PlanVersions, PlansMove
    <3>3. PICK k : k = [s3[q] EXCEPT !.pc = "next", !.version = s1.version + 1]
      OBVIOUS
    <3>4. s3' = [s3 EXCEPT ![q] = k]
      BY <1>2, <2>2, <3>3 DEF Plan!claim
    <3>5. k \in Plan!BatchRequest /\ k.pc = "next" /\ k.copy = s3[q].copy /\ k.row = s3[q].row
      BY <1>0, <3>1, <3>3, PlanVersions DEF Plan!BatchRequest
    <3>6. InOrder(k)
      BY <1>0, <3>5 DEF InOrder
    <3> QED BY <2>1, <3>2, <3>4, <3>6, SameRows, RequestTurns
  <2>3. CASE ~Plan!replace(s3[q].version)
    <3>1. UNCHANGED s1 /\ s3' = [s3 EXCEPT ![q] = Plan!Idle]
      BY <1>2, <2>3 DEF Plan!claim
    <3> QED BY <2>1, <3>1, IdleIsARequest, BetweenInOrder, PlanIsKept, RequestTurns
  <2> QED BY <2>2, <2>3
<1>3. ASSUME NEW q \in Actors, Plan!finish(q) PROVE Plan!BatchInv'
  <2>1. UNCHANGED <<s2, s4, s5>> /\ s3' = [s3 EXCEPT ![q] = Plan!Idle]
    BY <1>3 DEF Plan!finish, Plan!UnchangedItems
  <2>2. InOrder(Plan!Idle)
    BY IdleIsARequest, BetweenInOrder
  <2>3. s1' \in Plan!BatchPlan /\ s1'.rows = s1.rows
    <3>1. CASE Plan!replace(s3[q].version)
      <4>1. PICK st : st = Plan!summarizeBatchPlan(s1.rows)
        OBVIOUS
      <4>2. st \in {"ready", "processing", "review_ready", "partially_failed", "completed", "archived"}
        BY <4>1 DEF Plan!summarizeBatchPlan
      <4>3. s1' = [s1 EXCEPT !.version = s1.version + 1, !.status = st, !.quiet = FALSE] /\ s1.version < MaxPlanVersion
        BY <1>3, <3>1, <4>1 DEF Plan!finish, Plan!replace
      <4>4. s1 \in Plan!BatchPlan /\ s1.version + 1 \in 1..MaxPlanVersion
        BY <4>3, PlanVersions
      <4>5. PICK p \in Plan!BatchPlan, v \in 1..MaxPlanVersion : p = s1 /\ v = s1.version + 1
        BY <4>4
      <4>6. LET n == [p EXCEPT !.version = v, !.status = st, !.quiet = FALSE] IN n \in Plan!BatchPlan /\ n.rows = p.rows
        BY <4>2, <4>5 DEF Plan!BatchPlan
      <4>7. s1' = [p EXCEPT !.version = v, !.status = st, !.quiet = FALSE]
        BY <4>3, <4>5
      <4> QED BY <4>5, <4>6, <4>7
    <3>2. CASE ~Plan!replace(s3[q].version)
      BY <1>3, <3>2, PlanVersions DEF Plan!finish
    <3> QED BY <3>1, <3>2
  <2> QED BY <2>1, <2>2, <2>3, SameRows, RequestTurns
<1>4. ASSUME NEW q \in Actors, Plan!requestStops(q) PROVE Plan!BatchInv'
  <2>1. UNCHANGED <<s1, s2, s4, s5>> /\ s3' = [s3 EXCEPT ![q] = Plan!Idle]
    BY <1>4 DEF Plan!requestStops, Plan!UnchangedItems
  <2> QED BY <2>1, IdleIsARequest, BetweenInOrder, PlanIsKept, RequestTurns
<1>5. ASSUME NEW q \in Actors, NEW mode \in {"commit", "approve"}, NEW rows \in SUBSET PlanRows, Plan!ask(q, mode, rows) PROVE Plan!BatchInv'
  <2>1. UNCHANGED <<s1, s2, s4, s5>> /\ s3' = [s3 EXCEPT ![q] = Plan!between("claim", mode, s1.version, rows)]
    BY <1>5 DEF Plan!ask, Plan!UnchangedItems
  <2>2. InOrder(Plan!between("claim", mode, s1.version, rows))
    BY PlanVersions, BetweenRows, BetweenInOrder
  <2> QED BY <2>1, <2>2, PlanIsKept, RequestTurns
<1> QED BY <1>1, <1>2, <1>3, <1>4, <1>5

\* The types of a request.
LEMMA RequestParts ==
  ASSUME Plan!BatchInv, NEW q \in Actors
  PROVE  /\ s3[q] \in Plan!BatchRequest /\ InOrder(s3[q]) /\ s3[q].row \in PlanRows /\ s3[q].copy \in Plan!Items
         /\ s3[q].left \in SUBSET PlanRows /\ s3[q].mode \in {"commit", "approve"} /\ s3[q].version \in 1..MaxPlanVersion
         /\ s3[q].result \in Plan!BatchRowStatus
<1>1. s3[q] \in Plan!BatchRequest /\ InOrder(s3[q])
  BY RequestsInOrder DEF InOrder
<1> QED BY <1>1 DEF Plan!BatchRequest

\* Taking the next row keeps the invariant.
LEMMA RowIsTaken ==
  ASSUME Plan!BatchInv, NEW q \in Actors, NEW r \in PlanRows, NEW pc \in {"create", "save", "approve"}, NEW result \in {"failed", "individual_review"},
         Plan!takes(q, r, pc, result), UNCHANGED <<s1, s2, s4, s5>>
  PROVE  Plan!BatchInv'
<1>1. PICK k : k = [pc |-> pc, mode |-> s3[q].mode, version |-> s3[q].version, left |-> s3[q].left \ {r},
                    row |-> r, copy |-> s2[r], result |-> result]
  OBVIOUS
<1>2. ASSUME NEW m \in {"commit", "approve"}, NEW v \in 1..MaxPlanVersion, NEW l \in SUBSET PlanRows, NEW i \in Plan!Items
      PROVE  [pc |-> pc, mode |-> m, version |-> v, left |-> l, row |-> r, copy |-> i, result |-> result] \in Plan!BatchRequest
  BY DEF Plan!BatchRequest, Plan!BatchRowStatus
<1>3. s2[r] \in Plan!Items /\ s3[q].left \ {r} \in SUBSET PlanRows
  BY RequestParts DEF Plan!BatchInv, Plan!BatchTypeOK
<1>4. k \in Plan!BatchRequest
  BY <1>1, <1>2, <1>3, RequestParts
<1>5. k.pc = pc /\ k.row = r /\ k.copy = s2[r] /\ k.result = result
  BY <1>1
<1>6. InOrder(k)
  BY <1>3, <1>4, <1>5, OlderThanItself DEF InOrder, Plan!HoldsOf
<1>7. s3' = [s3 EXCEPT ![q] = k]
  BY <1>1 DEF Plan!takes
<1> QED BY <1>6, <1>7, PlanIsKept, RequestTurns

\* So does going on to it, whatever the row calls for.
LEMMA NextRowKeeps == ASSUME Plan!BatchInv, NEW q \in Actors, Plan!nextRow(q) PROVE Plan!BatchInv'
<1>0. UNCHANGED <<s1, s2, s4, s5>> /\ s3[q].pc = "next"
  BY DEF Plan!nextRow, Plan!UnchangedItems
<1>1. CASE s3' = [s3 EXCEPT ![q] = [s3[q] EXCEPT !.pc = "finish"]]
  <2>1. PICK k : k = [s3[q] EXCEPT !.pc = "finish"]
    OBVIOUS
  <2>2. k \in Plan!BatchRequest /\ k.pc = "finish" /\ k.copy = s3[q].copy /\ k.row = s3[q].row
    BY <2>1, RequestParts DEF Plan!BatchRequest
  <2>3. InOrder(k)
    BY <2>2, RequestParts DEF InOrder
  <2> QED BY <1>0, <1>1, <2>1, <2>3, PlanIsKept, RequestTurns
<1>2. ASSUME NEW r \in s3[q].left, s3' = [s3 EXCEPT ![q] = [s3[q] EXCEPT !.left = s3[q].left \ {r}]] PROVE Plan!BatchInv'
  <2>1. PICK k : k = [s3[q] EXCEPT !.left = s3[q].left \ {r}]
    OBVIOUS
  <2>2. k \in Plan!BatchRequest /\ k.pc = s3[q].pc /\ k.copy = s3[q].copy /\ k.row = s3[q].row
    BY <2>1, RequestParts DEF Plan!BatchRequest
  <2>3. InOrder(k)
    BY <1>0, <2>2, RequestParts DEF InOrder
  <2> QED BY <1>0, <1>2, <2>1, <2>3, PlanIsKept, RequestTurns
<1>3. ASSUME NEW r \in s3[q].left, NEW pc \in {"create", "save", "approve"}, NEW result \in {"failed", "individual_review"}, Plan!takes(q, r, pc, result)
      PROVE Plan!BatchInv'
  BY <1>0, <1>3, RequestParts, RowIsTaken
<1>4. ASSUME NEW r \in s3[q].left,
             IF s3[q].mode = "commit" THEN Plan!takes(q, r, "create", "failed")
             ELSE IF r \notin s1.bulkApprovalEligible \/ s1.rows[r] = "individual_review" THEN Plan!takes(q, r, "save", "individual_review")
             ELSE IF r \notin s1.draftId THEN Plan!takes(q, r, "save", "failed")
             ELSE Plan!takes(q, r, "approve", "failed")
      PROVE Plan!BatchInv'
  BY <1>3, <1>4
<1> QED BY <1>1, <1>2, <1>4 DEF Plan!nextRow

\* A request that finds its work done keeps the invariant.
LEMMA KeepsKeeps ==
  ASSUME Plan!BatchInv, NEW q \in Actors, NEW then \in {"draft", "review", "schedule", "save"}, NEW result \in Plan!BatchRowStatus, Plan!keeps(q, then, result),
         UNCHANGED <<s1, s4, s5>>,
         then = "review" => s2[s3[q].row].drafts = 1, then = "schedule" => s2[s3[q].row].approved,
         then = "save" => Plan!HoldsOf(s3[q].row, result)
  PROVE  Plan!BatchInv'
<1>1. PICK k : k = [s3[q] EXCEPT !.pc = then, !.result = result]
  OBVIOUS
<1>2. /\ k \in Plan!BatchRequest /\ k.pc = then /\ k.copy = s3[q].copy /\ k.row = s3[q].row /\ k.result = result
  BY <1>1, RequestParts DEF Plan!BatchRequest
<1>3. InOrder(k)
  BY <1>2, RequestParts DEF InOrder
<1> QED BY <1>1, <1>3, PlanIsKept, RequestTurns DEF Plan!keeps

\* So does one that notes a failure.
LEMMA FailureKeeps ==
  ASSUME Plan!BatchInv, NEW q \in Actors, Plan!keeps(q, "save", "failed"), UNCHANGED <<s1, s4, s5>>
  PROVE  Plan!BatchInv'
BY KeepsKeeps DEF Plan!HoldsOf, Plan!BatchRowStatus

\* An edit that found the version it had read.
written(q, next, then, result) ==
  /\ s3[q].copy = s2[s3[q].row] /\ s2[s3[q].row] \in Plan!Items /\ s2' # s2
  /\ \E n \in Plan!Items :
       /\ s2' = [s2 EXCEPT ![s3[q].row] = n] /\ n.version > s2[s3[q].row].version
       /\ n.drafts = next.drafts /\ n.targets = next.targets /\ n.approved = next.approved /\ n.inReview = next.inReview
       /\ s3' = [s3 EXCEPT ![q] = [s3[q] EXCEPT !.pc = then, !.copy = n, !.result = result]]

\* An edit by version writes the item the copy was read from, or fails.
LEMMA EditsOrFails ==
  ASSUME Plan!BatchInv, NEW q \in Actors, NEW next \in Plan!Items, NEW then, NEW result, Plan!edits(q, next, then, result)
  PROVE  \/ Plan!keeps(q, "save", "failed") /\ s2' = s2
         \/ written(q, next, then, result)
<1> DEFINE r == s3[q].row
<1> DEFINE v == s3[q].copy.version
<1>0. /\ r \in PlanRows /\ s3[q].copy \in Plan!Items /\ v \in 0..MaxItemVersion /\ s2 \in [PlanRows -> Plan!Items]
      /\ Plan!Older(s3[q].copy, s2[r])
  BY RequestParts DEF Plan!Items, InOrder, Plan!BatchInv, Plan!BatchTypeOK
<1>1. CASE s2[r].version = v /\ v < MaxItemVersion
  <2>1. PICK n : n = [next EXCEPT !.version = v + 1]
    OBVIOUS
  <2>2. v + 1 \in 0..MaxItemVersion /\ v + 1 > v
    BY <1>0, <1>1, PlanAssumption
  <2>3. /\ n \in Plan!Items /\ n.version = v + 1 /\ n.drafts = next.drafts /\ n.targets = next.targets
        /\ n.approved = next.approved /\ n.inReview = next.inReview
    BY <2>1, <2>2 DEF Plan!Items
  <2>4. s2' = [s2 EXCEPT ![r] = n]
    BY <1>1, <2>1 DEF Plan!edits
  <2>5. s2'[r] = n
    BY <1>0, <2>4
  <2>6. s3' = [s3 EXCEPT ![q] = [s3[q] EXCEPT !.pc = then, !.copy = n, !.result = result]]
    BY <1>1, <2>5 DEF Plan!edits
  <2>7. s3[q].copy = s2[r]
    BY <1>0, <1>1 DEF Plan!Older
  <2>8. s2' # s2
    BY <1>1, <2>2, <2>3, <2>5
  <2> QED BY <1>0, <1>1, <2>2, <2>3, <2>4, <2>6, <2>7, <2>8 DEF written
<1>2. CASE ~(s2[r].version = v /\ v < MaxItemVersion)
  BY <1>2 DEF Plan!edits, Plan!keeps
<1> QED BY <1>1, <1>2

\* An edit by version keeps the invariant.
LEMMA EditsKeep ==
  ASSUME Plan!BatchInv, NEW q \in Actors, NEW next \in Plan!Items, NEW then \in {"draft", "review", "schedule", "save"}, NEW result \in Plan!BatchRowStatus,
         Plan!edits(q, next, then, result), UNCHANGED s1,
         s2' = s2 => UNCHANGED <<s4, s5>>,
         HistoryGrows(s3[q].row, s4', s5'),
         s2' # s2 /\ s3[q].copy = s2[s3[q].row] =>
           Gains(s3[q].row, s2[s3[q].row], next, then, result, s4', s5')
  PROVE  Plan!BatchInv'
<1> DEFINE r == s3[q].row
<1>1. CASE Plan!keeps(q, "save", "failed") /\ s2' = s2
  BY <1>1, FailureKeeps
<1>2. ASSUME s3[q].copy = s2[r], s2[r] \in Plan!Items, s2' # s2,
             NEW n \in Plan!Items, s2' = [s2 EXCEPT ![r] = n], n.version > s2[r].version,
             n.drafts = next.drafts, n.targets = next.targets, n.approved = next.approved, n.inReview = next.inReview,
             s3' = [s3 EXCEPT ![q] = [s3[q] EXCEPT !.pc = then, !.copy = n, !.result = result]]
      PROVE  Plan!BatchInv'
  <2>1. Gains(r, s2[r], next, then, result, s4', s5') /\ r \in PlanRows
    BY <1>2, RequestParts
  <2>3. PICK k : k = [s3[q] EXCEPT !.pc = then, !.copy = n, !.result = result]
    OBVIOUS
  <2>4. k \in Plan!BatchRequest /\ k.pc = then /\ k.copy = n /\ k.row = r /\ k.result = result
    BY <2>3, RequestParts DEF Plan!BatchRequest
  <2>5. s3' = [s3 EXCEPT ![q] = k]
    BY <1>2, <2>3
  <2>6. Gains(r, s2[r], n, k.pc, k.result, s4', s5')
    BY <1>2, <2>1, <2>4 DEF Gains
  <2>7. HistoryGrows(r, s4', s5')
    OBVIOUS
  <2> HIDE DEF r
  <2> QED BY <1>2, <2>1, <2>4, <2>5, <2>6, <2>7, ItemAndRequestTurn
<1>3. CASE written(q, next, then, result)
  BY <1>2, <1>3 DEF written
<1> QED BY <1>1, <1>3, EditsOrFails

\* What the invariant says of the item of a row and of a copy of it.
LEMMA RowFacts ==
  ASSUME Plan!BatchInv, NEW q \in Actors
  PROVE  LET r == s3[q].row
             c == s3[q].copy IN
         /\ r \in PlanRows /\ c \in Plan!Items /\ s2[r] \in Plan!Items /\ s2[r].drafts \in {0, 1} /\ s2[r].targets \in {0, 1}
         /\ c.drafts \in {0, 1} /\ c.targets \in {0, 1} /\ s5[r] = s2[r].targets
         /\ (s2[r].approved => s2[r].drafts = 1 /\ s4[r] > 0) /\ (s2[r].targets = 1 => s2[r].approved)
         /\ (c.drafts = 1 => s2[r].drafts = 1) /\ (c.targets = 1 => s2[r].targets = 1)
         /\ (c.approved => s2[r].approved) /\ (c.inReview => s2[r].inReview)
         /\ s2[r].version = 0 => s2[r] = Plan!NoItem
         /\ c.version <= s2[r].version
<1>1. /\ s3[q].row \in PlanRows /\ s3[q].copy \in Plan!Items /\ s2[s3[q].row] \in Plan!Items
      /\ Plan!Older(s3[q].copy, s2[s3[q].row])
  BY RequestParts DEF InOrder, Plan!BatchInv, Plan!BatchTypeOK
<1>2. /\ s2[s3[q].row].drafts \in 0..2 /\ s2[s3[q].row].targets \in 0..2
      /\ s3[q].copy.drafts \in 0..2 /\ s3[q].copy.targets \in 0..2
  BY <1>1 DEF Plan!Items
<1>3. s2[s3[q].row].drafts <= 1 /\ s2[s3[q].row].targets <= 1
  BY <1>1 DEF Plan!BatchInv, Plan!ItemsAreInOrder
<1> QED BY <1>1, <1>2, <1>3 DEF Plan!BatchInv, Plan!ItemsAreInOrder, Plan!Older

\* An item with another draft is an item.
LEMMA DraftsAreAdded ==
  ASSUME NEW c \in Plan!Items, NEW d \in 0..2, NEW b \in BOOLEAN
  PROVE  [c EXCEPT !.drafts = d, !.approved = b] \in Plan!Items
BY DEF Plan!Items

\* Making the item, its draft and its review keeps the invariant.
LEMMA PreparationKeeps ==
  ASSUME Plan!BatchInv, NEW q \in Actors, Plan!createItem(q) \/ Plan!addDraft(q) \/ Plan!toReview(q)
  PROVE  Plan!BatchInv'
<1> DEFINE r == s3[q].row
<1> DEFINE c == s3[q].copy
<1>0. UNCHANGED <<s1, s4, s5>>
  BY DEF Plan!createItem, Plan!addDraft, Plan!toReview
<1>00. HistoryGrows(r, s4', s5')
  BY <1>0 DEF HistoryGrows, Plan!BatchInv, Plan!BatchTypeOK
<1>1. CASE Plan!createItem(q)
  <2>1. CASE c.version = 0
    <3>1. Plan!edits(q, Plan!NoItem, "draft", "ready")
      BY <1>1, <2>1 DEF Plan!createItem
    <3>2. s2' # s2 /\ c = s2[r] => Gains(r, s2[r], Plan!NoItem, "draft", "ready", s4', s5')
      <4>1. Plan!NoItem.drafts = 0 /\ Plan!NoItem.targets = 0 /\ Plan!NoItem.approved = FALSE /\ Plan!NoItem.inReview = FALSE
        BY DEF Plan!NoItem
      <4>2. c = s2[r] => s2[r] = Plan!NoItem
        BY <2>1, RowFacts
      <4> QED BY <1>0, <4>1, <4>2, RowFacts DEF Gains
    <3> QED BY <1>0, <1>00, <3>1, <3>2, NoItemIsAnItem, EditsKeep DEF Plan!BatchRowStatus
  <2>2. CASE c.version # 0
    <3>1. Plan!keeps(q, "draft", "ready")
      BY <1>1, <2>2 DEF Plan!createItem
    <3> QED BY <1>0, <3>1, KeepsKeeps DEF Plan!BatchRowStatus
  <2> QED BY <2>1, <2>2
<1>2. CASE Plan!addDraft(q)
  <2>1. CASE c.drafts = 0
    <3>1. PICK next : next = [c EXCEPT !.drafts = 1, !.approved = FALSE]
      OBVIOUS
    <3>2. next \in Plan!Items /\ next.drafts = 1 /\ next.approved = FALSE /\ next.targets = c.targets /\ next.inReview = c.inReview
      <4>1. c \in Plan!Items
        BY RowFacts
      <4>2. PICK x \in Plan!Items : x = c
        BY <4>1
      <4>3. next \in Plan!Items
        <5>1. next = [x EXCEPT !.drafts = 1, !.approved = FALSE]
          BY <3>1, <4>2
        <5> HIDE DEF c
        <5>2. 1 \in 0..2 /\ FALSE \in BOOLEAN
          OBVIOUS
        <5>3. [x EXCEPT !.drafts = 1, !.approved = FALSE] \in Plan!Items
          BY <4>2, <5>2 DEF Plan!Items
        <5> QED BY <5>1, <5>3
      <4>4. next.drafts = 1 /\ next.targets = c.targets
        <5> HIDE DEF c
        <5> QED BY <3>1, <4>1 DEF Plan!Items
      <4>5. next.approved = FALSE /\ next.inReview = c.inReview
        <5> HIDE DEF c
        <5> QED BY <3>1, <4>1 DEF Plan!Items
      <4> QED BY <4>3, <4>4, <4>5
    <3>3. Plan!edits(q, next, "review", "ready")
      BY <1>2, <2>1, <3>1 DEF Plan!addDraft
    <3>4. s2' # s2 /\ c = s2[r] => Gains(r, s2[r], next, "review", "ready", s4', s5')
      BY <1>0, <2>1, <3>2, RowFacts DEF Gains
    <3> QED BY <1>0, <1>00, <3>2, <3>3, <3>4, EditsKeep DEF Plan!BatchRowStatus
  <2>2. CASE c.drafts # 0
    <3>1. Plan!keeps(q, "review", "ready") /\ s2[r].drafts = 1
      BY <1>2, <2>2, RowFacts DEF Plan!addDraft
    <3> QED BY <1>0, <3>1, KeepsKeeps DEF Plan!BatchRowStatus
  <2> QED BY <2>1, <2>2
<1>3. CASE Plan!toReview(q)
  <2>0. s2[r].drafts = 1
    BY <1>3, RequestParts DEF Plan!toReview, InOrder
  <2>1. PICK done \in {"review_ready", "individual_review"} : done = IF r \in s1.bulkApprovalEligible THEN "review_ready" ELSE "individual_review"
    OBVIOUS
  <2>2. CASE c.inReview
    <3>1. Plan!keeps(q, "save", done)
      BY <1>3, <2>1, <2>2 DEF Plan!toReview
    <3>2. Plan!HoldsOf(r, done)
      BY <2>0, <2>1, <2>2, RowFacts DEF Plan!HoldsOf
    <3> QED BY <1>0, <2>1, <3>1, <3>2, KeepsKeeps DEF Plan!BatchRowStatus
  <2>3. CASE ~c.inReview
    <3>1. PICK next : next = [c EXCEPT !.inReview = TRUE]
      OBVIOUS
    <3>2. next \in Plan!Items /\ next.drafts = c.drafts /\ next.approved = c.approved /\ next.targets = c.targets /\ next.inReview = TRUE
      <4>1. c \in Plan!Items
        BY RowFacts
      <4> HIDE DEF c
      <4> QED BY <3>1, <4>1 DEF Plan!Items
    <3>3. Plan!edits(q, next, "save", done)
      BY <1>3, <2>1, <2>3, <3>1 DEF Plan!toReview
    <3>4. s2' # s2 /\ c = s2[r] => Gains(r, s2[r], next, "save", done, s4', s5')
      BY <1>0, <2>0, <2>1, <3>2, RowFacts DEF Gains
    <3> QED BY <1>0, <1>00, <2>1, <3>2, <3>3, <3>4, EditsKeep DEF Plan!BatchRowStatus
  <2> QED BY <2>2, <2>3
<1> QED BY <1>1, <1>2, <1>3

\* Approving a row keeps the invariant.
LEMMA ApprovalKeeps == ASSUME Plan!BatchInv, NEW q \in Actors, Plan!approveRow(q) PROVE Plan!BatchInv'
<1> DEFINE r == s3[q].row
<1> DEFINE c == s3[q].copy
<1>0. s3[q].pc = "approve" /\ UNCHANGED <<s1, s5>>
  BY DEF Plan!approveRow
<1>1. CASE c.drafts = 0
  <2>1. Plan!keeps(q, "save", "failed") /\ UNCHANGED s4
    BY <1>1 DEF Plan!approveRow
  <2> QED BY <1>0, <2>1, FailureKeeps
<1>2. CASE c.drafts # 0 /\ c.approved
  <2>1. Plan!keeps(q, "schedule", "approved") /\ UNCHANGED s4 /\ s2[r].approved
    BY <1>2, RowFacts DEF Plan!approveRow
  <2> QED BY <1>0, <2>1, KeepsKeeps DEF Plan!BatchRowStatus
<1>3. CASE c.drafts # 0 /\ ~c.approved
  <2>1. PICK next : next = [c EXCEPT !.approved = TRUE]
    OBVIOUS
  <2>2. next \in Plan!Items /\ next.drafts = c.drafts /\ next.approved = TRUE /\ next.targets = c.targets /\ next.inReview = c.inReview
    BY <2>1, RowFacts DEF Plan!Items
  <2>3. /\ Plan!edits(q, next, "schedule", "approved")
        /\ s4' = IF s2' # s2 /\ s4[r] < 2 THEN [s4 EXCEPT ![r] = @ + 1] ELSE s4
    BY <1>3, <2>1 DEF Plan!approveRow
  <2>4. s4 \in [PlanRows -> 0..2] /\ s5 \in [PlanRows -> 0..2] /\ r \in PlanRows
    BY RowFacts DEF Plan!BatchInv, Plan!BatchTypeOK
  <2>5. /\ s4' \in [PlanRows -> 0..2] /\ \A p \in PlanRows : s4[p] <= s4'[p]
        /\ s2' # s2 => s4'[r] > 0
        /\ s2' = s2 => s4' = s4
    <3>1. CASE s2' # s2 /\ s4[r] < 2
      BY <2>3, <2>4, <3>1
    <3>2. CASE ~(s2' # s2 /\ s4[r] < 2)
      BY <2>3, <2>4, <3>2
    <3> QED BY <3>1, <3>2
  <2>6. HistoryGrows(r, s4', s5')
    BY <1>0, <2>4, <2>5 DEF HistoryGrows
  <2>7. s2' # s2 /\ c = s2[r] => Gains(r, s2[r], next, "schedule", "approved", s4', s5')
    BY <1>0, <1>3, <2>2, <2>5, RowFacts DEF Gains
  <2> QED BY <1>0, <2>2, <2>3, <2>5, <2>6, <2>7, EditsKeep DEF Plan!BatchRowStatus
<1> QED BY <1>1, <1>2, <1>3

\* Scheduling a row keeps the invariant: what is scheduled was not, in the version that is written.
LEMMA ScheduleKeeps == ASSUME Plan!BatchInv, NEW q \in Actors, Plan!scheduleRow(q) PROVE Plan!BatchInv'
<1> DEFINE r == s3[q].row
<1> DEFINE c == s3[q].copy
<1>0. s3[q].pc = "schedule" /\ UNCHANGED <<s1, s4>>
  BY DEF Plan!scheduleRow
<1>1. s2[r].approved
  BY <1>0, RequestParts DEF InOrder
<1>2. CASE Plan!keeps(q, "save", "approved") /\ UNCHANGED s5
  <2>1. Plan!HoldsOf(r, "approved")
    BY <1>1 DEF Plan!HoldsOf
  <2> QED BY <1>0, <1>2, <2>1, KeepsKeeps DEF Plan!BatchRowStatus
<1>3. CASE ~Plan!maySchedule(c) /\ Plan!keeps(q, "save", "scheduled") /\ UNCHANGED s5
  <2>1. Plan!HoldsOf(r, "scheduled")
    BY <1>3, RowFacts DEF Plan!HoldsOf, Plan!maySchedule
  <2> QED BY <1>0, <1>3, <2>1, KeepsKeeps DEF Plan!BatchRowStatus
<1>4. CASE /\ Plan!maySchedule(c) /\ Plan!edits(q, [c EXCEPT !.targets = c.targets + 1], "save", "scheduled")
           /\ s5' = IF s2' # s2 THEN [s5 EXCEPT ![r] = @ + 1] ELSE s5
  <2>0. c.targets = 0 /\ c \in Plan!Items
    BY <1>4, RowFacts DEF Plan!maySchedule
  <2>1. PICK next : next = [c EXCEPT !.targets = c.targets + 1]
    OBVIOUS
  <2>2. next \in Plan!Items /\ next.drafts = c.drafts /\ next.approved = c.approved /\ next.targets = 1 /\ next.inReview = c.inReview
    BY <2>0, <2>1 DEF Plan!Items
  <2>3. Plan!edits(q, next, "save", "scheduled")
    BY <1>4, <2>1
  <2>4. s4 \in [PlanRows -> 0..2] /\ s5 \in [PlanRows -> 0..2] /\ r \in PlanRows /\ s5[r] = s2[r].targets /\ s2[r].targets \in {0, 1}
    BY RowFacts DEF Plan!BatchInv, Plan!BatchTypeOK
  <2>5. /\ s5' \in [PlanRows -> 0..2] /\ \A p \in PlanRows : p # r => s5'[p] = s5[p]
        /\ s2' # s2 => s5'[r] = s5[r] + 1
        /\ s2' = s2 => s5' = s5
    <3>1. CASE s2' # s2
      BY <1>4, <2>4, <3>1
    <3>2. CASE s2' = s2
      BY <1>4, <2>4, <3>2
    <3> QED BY <3>1, <3>2
  <2>6. HistoryGrows(r, s4', s5')
    BY <1>0, <2>4, <2>5 DEF HistoryGrows
  <2>7. s2' # s2 /\ c = s2[r] => Gains(r, s2[r], next, "save", "scheduled", s4', s5')
    BY <1>0, <1>1, <2>0, <2>2, <2>4, <2>5, RowFacts DEF Gains
  <2> QED BY <1>0, <2>2, <2>3, <2>5, <2>6, <2>7, EditsKeep DEF Plan!BatchRowStatus
<1> QED BY <1>2, <1>3, <1>4 DEF Plan!scheduleRow

\* Noting the result of a row keeps the invariant.
LEMMA CheckpointKeeps == ASSUME Plan!BatchInv, NEW q \in Actors, Plan!checkpoint(q) PROVE Plan!BatchInv'
<1> DEFINE k == s3[q]
<1>0. k.pc = "save" /\ UNCHANGED <<s2, s4, s5>> /\ k.row \in PlanRows /\ k.result \in Plan!BatchRowStatus /\ Plan!HoldsOf(k.row, k.result)
  BY RequestParts DEF Plan!checkpoint, Plan!UnchangedItems, InOrder
<1>1. CASE Plan!replace(k.version)
  <2>1. PICK d \in SUBSET PlanRows : d = s1.draftId \cup (IF k.mode = "commit" /\ k.result # "failed" THEN {k.row} ELSE {})
    <3>1. s1.draftId \in SUBSET PlanRows
      BY PlanVersions DEF Plan!BatchPlan
    <3> QED BY <1>0, <3>1
  <2>2. PICK st \in {"none", "prepare", "approval", "schedule"} : st = Plan!stepOfFailure(q)
    BY DEF Plan!stepOfFailure
  <2>3. PICK rs \in [PlanRows -> Plan!BatchRowStatus] : rs = [s1.rows EXCEPT ![k.row] = k.result]
    BY <1>0, PlanVersions
  <2>4. PICK sp \in [PlanRows -> {"none", "prepare", "approval", "schedule"}] : sp = [s1.step EXCEPT ![k.row] = st]
    <3>1. s1.step \in [PlanRows -> {"none", "prepare", "approval", "schedule"}]
      BY PlanVersions DEF Plan!BatchPlan
    <3> QED BY <3>1
  <2>5. s1.version < MaxPlanVersion /\ s1.version + 1 \in 1..MaxPlanVersion
    BY <1>1, PlanVersions DEF Plan!replace
  <2>6. PICK n : n = [s1 EXCEPT !.version = s1.version + 1, !.rows = rs, !.step = sp, !.quiet = FALSE, !.draftId = d]
    OBVIOUS
  <2>7. n \in Plan!BatchPlan /\ n.rows = rs
    BY <2>5, <2>6, PlanVersions DEF Plan!BatchPlan
  <2>8. s1' = n
    BY <1>1, <2>1, <2>2, <2>3, <2>4, <2>6 DEF Plan!checkpoint
  <2>9. s3' = [s3 EXCEPT ![q] = Plan!between("next", k.mode, s1.version + 1, k.left)]
    BY <1>1 DEF Plan!checkpoint
  <2>10. InOrder(Plan!between("next", k.mode, s1.version + 1, k.left))
    BY <2>5, RequestParts, BetweenRows, BetweenInOrder
  <2>11. Plan!PlanResultsAreTrue'
    <3> SUFFICES ASSUME NEW p \in PlanRows PROVE Plan!HoldsOf(p, s1'.rows[p]) /\ s2' = s2
      BY DEF Plan!PlanResultsAreTrue, Plan!HoldsOf
    <3>1. CASE p = k.row
      BY <1>0, <2>3, <2>7, <2>8, <3>1, PlanVersions
    <3>2. CASE p # k.row
      <4>1. s1'.rows[p] = s1.rows[p]
        BY <2>3, <2>7, <2>8, <3>2, PlanVersions
      <4> QED BY <1>0, <4>1 DEF Plan!BatchInv, Plan!PlanResultsAreTrue
    <3> QED BY <3>1, <3>2
  <2> HIDE DEF k
  <2> QED BY <1>0, <2>7, <2>8, <2>9, <2>10, <2>11, RequestTurns
<1>2. CASE ~Plan!replace(k.version)
  <2>1. UNCHANGED s1 /\ s3' = [s3 EXCEPT ![q] = Plan!Idle]
    BY <1>2 DEF Plan!checkpoint
  <2> QED BY <1>0, <2>1, IdleIsARequest, BetweenInOrder, PlanIsKept, RequestTurns
<1> QED BY <1>1, <1>2

\* An edit of an item by a person keeps the invariant.
LEMMA PeopleKeep == ASSUME Plan!BatchInv, NEW r \in PlanRows, Plan!editItem(r) PROVE Plan!BatchInv'
<1>1. /\ s2[r].version \in 1..(MaxItemVersion - 1) /\ s2' = [s2 EXCEPT ![r] = [s2[r] EXCEPT !.version = s2[r].version + 1]]
      /\ UNCHANGED <<s1, s3, s4, s5>>
  BY DEF Plan!editItem
<1>2. s2 \in [PlanRows -> Plan!Items] /\ s4 \in [PlanRows -> 0..2] /\ s5 \in [PlanRows -> 0..2] /\ s1 \in Plan!BatchPlan /\ s3 \in [Actors -> Plan!BatchRequest]
  BY DEF Plan!BatchInv, Plan!BatchTypeOK
<1>3. PICK n : n = [s2[r] EXCEPT !.version = s2[r].version + 1]
  OBVIOUS
<1>4. /\ n \in Plan!Items /\ n.version > s2[r].version /\ n.drafts = s2[r].drafts /\ n.targets = s2[r].targets /\ n.approved = s2[r].approved
      /\ n.inReview = s2[r].inReview
  BY <1>1, <1>2, <1>3, PlanAssumption DEF Plan!Items
<1>5. s2' = [s2 EXCEPT ![r] = n]
  BY <1>1, <1>3
<1>6. Plan!Older(s2[r], n)
  <2>1. s2[r].version \in Nat /\ n.version \in Nat /\ s2[r].drafts \in Nat /\ s2[r].targets \in Nat
    BY <1>2, <1>4, PlanAssumption DEF Plan!Items
  <2> QED BY <1>4, <2>1 DEF Plan!Older
<1>7. /\ n.drafts <= 1 /\ n.targets <= 1 /\ s5'[r] = n.targets
      /\ n.approved => n.drafts = 1 /\ s4'[r] > 0
      /\ n.targets = 1 => n.approved
  BY <1>1, <1>4 DEF Plan!BatchInv, Plan!ItemsAreInOrder
<1>8. /\ s4' \in [PlanRows -> 0..2] /\ s5' \in [PlanRows -> 0..2]
      /\ \A p \in PlanRows : s4[p] <= s4'[p] /\ (p # r => s5'[p] = s5[p])
  BY <1>1, <1>2
<1>9. /\ s1' \in Plan!BatchPlan /\ s2' \in [PlanRows -> Plan!Items] /\ Plan!ItemsAreInOrder' /\ Plan!PlanResultsAreTrue'
      /\ \A m \in Plan!BatchRequest : InOrder(m) => InOrder(m)'
  BY <1>1, <1>4, <1>5, <1>6, <1>7, <1>8, ItemTurns
<1>10. \A p \in Actors : InOrder(s3[p])'
  <2> SUFFICES ASSUME NEW p \in Actors PROVE InOrder(s3[p])'
    OBVIOUS
  <2>1. PICK m \in Plan!BatchRequest : m = s3[p] /\ m = s3'[p] /\ InOrder(m)'
    BY <1>1, <1>2, <1>9, RequestsInOrder
  <2> QED BY <2>1 DEF InOrder, Plan!HoldsOf
<1>11. Plan!CopiesAreOlder' /\ Plan!ResultsAreTrue'
  BY <1>10 DEF Plan!CopiesAreOlder, Plan!ResultsAreTrue, InOrder, Plan!HoldsOf
<1> QED BY <1>1, <1>2, <1>8, <1>9, <1>11 DEF Plan!BatchInv, Plan!BatchTypeOK

\* Every step of the batch plans keeps their invariant.
LEMMA BatchNextKeeps == Plan!BatchInv /\ Plan!BatchNext => Plan!BatchInv'
<1> SUFFICES ASSUME Plan!BatchInv, Plan!BatchNext PROVE Plan!BatchInv'
  OBVIOUS
<1>1. CASE \/ Plan!archive \/ Plan!goesQuiet
           \/ \E q \in Actors : Plan!claim(q) \/ Plan!finish(q) \/ Plan!requestStops(q) \/ Plan!ask(q, "commit", PlanRows)
                                  \/ \E rows \in (SUBSET PlanRows) \ {{}} : Plan!ask(q, "approve", rows)
  BY <1>1, PlanGoesOn
<1>2. CASE \E q \in Actors : Plan!nextRow(q)
  BY <1>2, NextRowKeeps
<1>3. CASE \E q \in Actors : Plan!createItem(q) \/ Plan!addDraft(q) \/ Plan!toReview(q)
  BY <1>3, PreparationKeeps
<1>4. CASE \E q \in Actors : Plan!approveRow(q) \/ Plan!scheduleRow(q) \/ Plan!checkpoint(q)
  BY <1>4, ApprovalKeeps, ScheduleKeeps, CheckpointKeeps
<1>5. CASE \E r \in PlanRows : Plan!editItem(r)
  BY <1>5, PeopleKeep
<1> QED BY <1>1, <1>2, <1>3, <1>4, <1>5 DEF Plan!BatchNext

\* The invariant of the batch plans implies what they promise.
LEMMA BatchInvShows == Plan!BatchInv => Plan!RowScheduledOnce /\ Plan!PlanTellsTheTruth
<1> SUFFICES ASSUME Plan!BatchInv PROVE Plan!RowScheduledOnce /\ Plan!PlanTellsTheTruth
  OBVIOUS
<1>1. Plan!RowScheduledOnce
  <2> SUFFICES ASSUME NEW r \in PlanRows PROVE s5[r] <= 1 /\ (s5[r] > 0 => s4[r] > 0)
    BY DEF Plan!RowScheduledOnce
  <2>1. s5[r] \in 0..2 /\ s5[r] <= 1 /\ s5[r] = s2[r].targets
    BY DEF Plan!BatchInv, Plan!BatchTypeOK, Plan!ItemsAreInOrder
  <2>2. s5[r] > 0 => s2[r].targets = 1
    BY <2>1
  <2> QED BY <2>1, <2>2 DEF Plan!BatchInv, Plan!ItemsAreInOrder
<1>2. Plan!PlanTellsTheTruth
  BY DEF Plan!BatchInv, Plan!ItemsAreInOrder, Plan!PlanResultsAreTrue, Plan!HoldsOf, Plan!PlanTellsTheTruth
<1> QED BY <1>1, <1>2

-----------------------------------------------------------------------------
(* Proofs.  The calendar.                                                  *)

\* A non-empty set of numbers has a least one.
LEMMA LeastNumber ==
  ASSUME NEW T \in SUBSET Nat, T # {}
  PROVE  \E x \in T : \A y \in T : x <= y
<1> DEFINE Less == OpToRel(<, Nat)
<1>1. Less = {ss \in Nat \X Nat : ss[1] < ss[2]}
  BY Zenon DEF OpToRel
<1>2. IsWellFoundedOn(Less, Nat)
  BY NatLessThanWellFounded, Zenon
<1> HIDE DEF Less
<1>3. \E x \in T : \A y \in T : ~(<<y, x>> \in Less)
  BY <1>2, WFMin, T \subseteq Nat, Zenon
<1>4. \A x, y \in Nat : <<y, x>> \notin Less => x <= y
  BY <1>1, SMT
<1> QED BY <1>3, <1>4

\* The types of the calendar.
LEMMA QueueParts ==
  ASSUME Calendar!QueueInv
  PROVE  /\ s1 \in Nat /\ s2 \in Calendar!AccountPostingQueueProfile /\ s2.slots \in Weeks /\ s2.version \in 1..(MaxWrites + 1)
         /\ s3 \in Seq(Calendar!PublishTarget) /\ Calendar!Targets = 1..Len(s3) /\ Len(s3) \in Nat
         /\ Len(s3) + s2.version <= MaxWrites + 1
         /\ s4 \in [Subjects -> Nat] /\ s5 \in [Actors -> Calendar!ScheduleRequest \cup {Nothing}]
         /\ \A t \in Calendar!Targets : s3[t] \in Calendar!PublishTarget
<1>1. /\ s1 \in Nat /\ s2 \in Calendar!AccountPostingQueueProfile /\ s3 \in Seq(Calendar!PublishTarget)
      /\ Len(s3) + s2.version <= MaxWrites + 1
      /\ s4 \in [Subjects -> Nat] /\ s5 \in [Actors -> Calendar!ScheduleRequest \cup {Nothing}]
  BY DEF Calendar!QueueInv, Calendar!QueueTypeOK
<1>2. s2.slots \in Weeks /\ s2.version \in 1..(MaxWrites + 1)
  BY <1>1 DEF Calendar!AccountPostingQueueProfile
<1>3. Calendar!Targets = 1..Len(s3) /\ Len(s3) \in Nat
  BY <1>1 DEF Calendar!Targets
<1>4. \A t \in 1..Len(s3) : s3[t] \in Calendar!PublishTarget
  BY <1>1
<1> QED BY <1>1, <1>2, <1>3, <1>4

\* The invariant of the calendar holds before anything is scheduled.
LEMMA QueueStarts == Calendar!QueueInit => Calendar!QueueInv
<1> SUFFICES ASSUME Calendar!QueueInit PROVE Calendar!QueueInv
  OBVIOUS
<1>1. s2 \in Calendar!AccountPostingQueueProfile /\ s2.version = 1
  <2>0. s2 \in [version : {1}, enabled : {TRUE}, slots : Weeks]
    BY DEF Calendar!QueueInit
  <2>1. /\ s2.version = 1 /\ s2.enabled = TRUE /\ s2.slots \in Weeks
        /\ s2 = [version |-> s2.version, enabled |-> s2.enabled, slots |-> s2.slots]
    BY <2>0
  <2>4. 1 \in 1..(MaxWrites + 1)
    BY CalendarAssumption
  <2>2. s2.version \in 1..(MaxWrites + 1) /\ s2.enabled \in BOOLEAN
    BY <2>1, <2>4
  <2>3. \A v \in 1..(MaxWrites + 1), b \in BOOLEAN, w \in Weeks : [version |-> v, enabled |-> b, slots |-> w] \in Calendar!AccountPostingQueueProfile
    BY DEF Calendar!AccountPostingQueueProfile
  <2> QED BY <2>1, <2>2, <2>3
<1>2. s3 = <<>> /\ Calendar!Targets = {} /\ Len(s3) = 0
  BY DEF Calendar!QueueInit, Calendar!Targets
<1>3. Calendar!QueueTypeOK
  BY <1>1, <1>2, CalendarAssumption DEF Calendar!QueueInit, Calendar!QueueTypeOK
<1>4. Calendar!Active = {}
  BY <1>2 DEF Calendar!Active
<1> QED BY <1>3, <1>4 DEF Calendar!QueueInv, Calendar!NoUnreviewedConflict, Calendar!QueueSlotsAreDistinct

\* The first free slot is one of the free slots.
LEMMA SlotsAreTimes ==
  ASSUME Calendar!QueueInv, Calendar!resolvePostingQueue # {}
  PROVE  Calendar!Min(Calendar!resolvePostingQueue) \in Calendar!resolvePostingQueue /\ Calendar!resolvePostingQueue \subseteq Times
<1>1. Calendar!resolvePostingQueue \subseteq s2.slots \ Gap
  BY DEF Calendar!resolvePostingQueue
<1>2. Calendar!resolvePostingQueue \subseteq Nat /\ Calendar!resolvePostingQueue \subseteq Times
  BY <1>1, QueueParts, CalendarAssumption
<1>3. \E x \in Calendar!resolvePostingQueue : \A y \in Calendar!resolvePostingQueue : x <= y
  BY <1>2, LeastNumber
<1>4. Calendar!Min(Calendar!resolvePostingQueue) \in Calendar!resolvePostingQueue
  BY <1>3 DEF Calendar!Min
<1> QED BY <1>2, <1>4

\* A step that writes no target keeps the invariant.
LEMMA OthersStay ==
  ASSUME Calendar!QueueInv, UNCHANGED s3, s1' \in Nat, s2' \in Calendar!AccountPostingQueueProfile, Len(s3) + s2'.version <= MaxWrites + 1,
         s4' \in [Subjects -> Nat], s5' \in [Actors -> Calendar!ScheduleRequest \cup {Nothing}]
  PROVE  Calendar!QueueInv'
<1>1. Calendar!QueueTypeOK'
  BY DEF Calendar!QueueInv, Calendar!QueueTypeOK
<1>2. Calendar!NoUnreviewedConflict'
  BY DEF Calendar!QueueInv, Calendar!NoUnreviewedConflict, Calendar!Active, Calendar!Targets, Calendar!Near
<1>3. Calendar!QueueSlotsAreDistinct'
  BY DEF Calendar!QueueInv, Calendar!QueueSlotsAreDistinct, Calendar!Active, Calendar!Targets
<1> QED BY <1>1, <1>2, <1>3 DEF Calendar!QueueInv

\* Time and a saved profile keep the invariant.
LEMMA SettingSteps ==
  ASSUME Calendar!QueueInv, Calendar!timePasses \/ \E slots \in Weeks, enabled \in BOOLEAN : Calendar!saveProfile(slots, enabled)
  PROVE  Calendar!QueueInv'
<1>1. CASE Calendar!timePasses
  <2>1. s1' = s1 + 1 /\ UNCHANGED <<s2, s3, s4, s5>>
    BY <1>1 DEF Calendar!timePasses
  <2> QED BY <2>1, QueueParts, OthersStay
<1>2. ASSUME NEW slots \in Weeks, NEW enabled \in BOOLEAN, Calendar!saveProfile(slots, enabled) PROVE Calendar!QueueInv'
  <2>1. /\ s2' = [version |-> s2.version + 1, enabled |-> enabled, slots |-> slots] /\ UNCHANGED <<s1, s3, s4, s5>>
        /\ s2.version + Len(s3) <= MaxWrites
    BY <1>2 DEF Calendar!saveProfile
  <2>2. s2.version + 1 \in 1..(MaxWrites + 1) /\ Len(s3) + (s2.version + 1) <= MaxWrites + 1
    BY <2>1, QueueParts, CalendarAssumption
  <2>3. s2' \in Calendar!AccountPostingQueueProfile /\ s2'.version = s2.version + 1
    BY <2>1, <2>2 DEF Calendar!AccountPostingQueueProfile
  <2> QED BY <2>1, <2>2, <2>3, QueueParts, OthersStay
<1> QED BY <1>1, <1>2

\* A check before the lock keeps the invariant.
LEMMA PreflightKeeps ==
  ASSUME Calendar!QueueInv, NEW q \in Actors, NEW op \in {"schedule", "next", "reschedule"}, NEW i \in Subjects, NEW at \in Times, NEW moved \in {0} \cup Calendar!Targets,
         Calendar!schedulePreflight(q, op, i, at, moved)
  PROVE  Calendar!QueueInv'
<1>1. PICK r : r = [op |-> op, item |-> i, at |-> at, version |-> s4[i], profile |-> s2.version, moved |-> moved,
                    acknowledged |-> Calendar!inspectScheduleConflicts(i, at, moved)]
  OBVIOUS
<1>2. /\ s5' = [s5 EXCEPT ![q] = r] /\ UNCHANGED <<s1, s2, s3, s4>>
  BY <1>1 DEF Calendar!schedulePreflight
<1>3. Calendar!Targets \subseteq 1..MaxWrites /\ moved \in 0..MaxWrites
  BY QueueParts, CalendarAssumption
<1>4. Calendar!inspectScheduleConflicts(i, at, moved) \in SUBSET ((1..MaxWrites) \X Calendar!activeStatuses)
  BY <1>3 DEF Calendar!inspectScheduleConflicts, Calendar!Active
<1>5. s4[i] \in Nat /\ s2.version \in 1..(MaxWrites + 1)
  BY QueueParts
<1>6. ASSUME NEW n \in Nat, NEW p \in 1..(MaxWrites + 1), NEW m \in 0..MaxWrites, NEW a \in SUBSET ((1..MaxWrites) \X Calendar!activeStatuses)
      PROVE  [op |-> op, item |-> i, at |-> at, version |-> n, profile |-> p, moved |-> m, acknowledged |-> a] \in Calendar!ScheduleRequest
  BY DEF Calendar!ScheduleRequest
<1>7. r \in Calendar!ScheduleRequest
  BY <1>1, <1>3, <1>4, <1>5, <1>6
<1>8. s5' \in [Actors -> Calendar!ScheduleRequest \cup {Nothing}]
  BY <1>2, <1>7, QueueParts
<1> QED BY <1>2, <1>8, QueueParts, OthersStay

\* Cancelling and publishing keep the invariant.
LEMMA StatusSteps ==
  ASSUME Calendar!QueueInv, NEW t \in Calendar!Targets, Calendar!commitCancellation(t) \/ Calendar!publish(t)
  PROVE  Calendar!QueueInv'
<1>1. PICK status \in {"cancelled", "publishing", "published"} :
        /\ s3' = [s3 EXCEPT ![t] = [s3[t] EXCEPT !.status = status]]
        /\ s4' = [s4 EXCEPT ![s3[t].item] = @ + 1] /\ UNCHANGED <<s1, s2, s5>> /\ t \in Calendar!Active
  BY DEF Calendar!commitCancellation, Calendar!publish
<1>2. PICK x : x = [s3[t] EXCEPT !.status = status]
  OBVIOUS
<1>3. /\ x \in Calendar!PublishTarget /\ x.item = s3[t].item /\ x.at = s3[t].at /\ x.queue = s3[t].queue
      /\ x.reviewed = s3[t].reviewed /\ s3[t].item \in Subjects
  BY <1>2, QueueParts DEF Calendar!PublishTarget, Calendar!activeStatuses
<1>4. s3' = [s3 EXCEPT ![t] = x]
  BY <1>1, <1>2
<1>5. /\ s3' \in Seq(Calendar!PublishTarget) /\ Len(s3') = Len(s3) /\ Calendar!Targets' = Calendar!Targets
      /\ s3'[t] = x /\ \A u \in Calendar!Targets : u # t => s3'[u] = s3[u]
  <2>1. DOMAIN s3 = 1..Len(s3) /\ s3 \in [1..Len(s3) -> Calendar!PublishTarget]
    BY QueueParts
  <2>2. s3' \in [1..Len(s3) -> Calendar!PublishTarget] /\ s3'[t] = x /\ \A u \in 1..Len(s3) : u # t => s3'[u] = s3[u]
    BY <1>3, <1>4, <2>1, QueueParts
  <2>3. s3' \in Seq(Calendar!PublishTarget) /\ Len(s3') = Len(s3)
    BY <2>2, QueueParts
  <2>4. DOMAIN s3' = DOMAIN s3
    BY <2>1, <2>2
  <2> QED BY <2>1, <2>2, <2>3, <2>4 DEF Calendar!Targets
<1>6. s4' \in [Subjects -> Nat]
  BY <1>1, <1>3, QueueParts
<1>7. Calendar!QueueTypeOK'
  BY <1>1, <1>5, <1>6 DEF Calendar!QueueInv, Calendar!QueueTypeOK
<1>8. /\ \A u \in Calendar!Targets : /\ s3'[u].item = s3[u].item /\ s3'[u].at = s3[u].at /\ s3'[u].queue = s3[u].queue
                                     /\ s3'[u].reviewed = s3[u].reviewed
      /\ Calendar!Active' \subseteq Calendar!Active /\ Calendar!Active \subseteq Calendar!Targets
  BY <1>1, <1>3, <1>5 DEF Calendar!Active
<1>9. Calendar!NoUnreviewedConflict'
  <2> SUFFICES ASSUME NEW u \in Calendar!Active', NEW v \in Calendar!Active', u < v, s3'[u].item = s3'[v].item \/ Calendar!Near(s3'[u].at, s3'[v].at)
               PROVE  u \in s3'[v].reviewed
    BY DEF Calendar!NoUnreviewedConflict, Calendar!Near
  <2> QED BY <1>8 DEF Calendar!QueueInv, Calendar!NoUnreviewedConflict
<1>10. Calendar!QueueSlotsAreDistinct'
  BY <1>8 DEF Calendar!QueueInv, Calendar!QueueSlotsAreDistinct
<1> QED BY <1>7, <1>9, <1>10 DEF Calendar!QueueInv

\* A new target keeps the invariant: its conflicts were seen, and the time the queue gave it is free.
LEMMA CommitKeeps ==
  ASSUME Calendar!QueueInv, NEW q \in Actors, s5[q] \in Calendar!ScheduleRequest, NEW at \in Times, NEW queue \in Actors \cup {Nothing},
         Calendar!commit(q, at, queue), Calendar!Finish(q), UNCHANGED <<s1, s2>>,
         Calendar!assertScheduleConflictAcknowledgement(q, at),
         queue # Nothing => \A t \in Calendar!Active : s3[t].at # at
  PROVE  Calendar!QueueInv'
<1> DEFINE r == s5[q]
<1>1. r.item \in Subjects /\ r.acknowledged \in SUBSET ((1..MaxWrites) \X Calendar!activeStatuses)
  BY DEF Calendar!ScheduleRequest
<1>2. PICK kept : kept = [t \in Calendar!Targets |-> IF t = r.moved THEN [s3[t] EXCEPT !.status = "cancelled"] ELSE s3[t]]
  OBVIOUS
<1>3. PICK x : x = [item |-> r.item, at |-> at, status |-> "queued", queue |-> queue, reviewed |-> {c[1] : c \in r.acknowledged}]
  OBVIOUS
<1>4. /\ s3' = Append(kept, x) /\ s4' = [s4 EXCEPT ![r.item] = @ + 1] /\ s2.version + Len(s3) <= MaxWrites
  BY <1>2, <1>3 DEF Calendar!commit
<1>5. x \in Calendar!PublishTarget
  <2>1. {c[1] : c \in r.acknowledged} \in SUBSET (1..MaxWrites)
    BY <1>1
  <2>2. ASSUME NEW i \in Subjects, NEW s \in SUBSET (1..MaxWrites)
        PROVE  [item |-> i, at |-> at, status |-> "queued", queue |-> queue, reviewed |-> s] \in Calendar!PublishTarget
    BY DEF Calendar!PublishTarget, Calendar!activeStatuses
  <2> QED BY <1>1, <1>3, <2>1, <2>2
<1>6. \A t \in Calendar!Targets : /\ kept[t] \in Calendar!PublishTarget /\ kept[t].item = s3[t].item /\ kept[t].at = s3[t].at
                                  /\ kept[t].queue = s3[t].queue /\ kept[t].reviewed = s3[t].reviewed
                                  /\ (kept[t].status \in Calendar!activeStatuses => s3[t].status \in Calendar!activeStatuses /\ t # r.moved)
  <2> SUFFICES ASSUME NEW t \in Calendar!Targets
               PROVE  /\ kept[t] \in Calendar!PublishTarget /\ kept[t].item = s3[t].item /\ kept[t].at = s3[t].at
                      /\ kept[t].queue = s3[t].queue /\ kept[t].reviewed = s3[t].reviewed
                      /\ (kept[t].status \in Calendar!activeStatuses => s3[t].status \in Calendar!activeStatuses /\ t # r.moved)
    OBVIOUS
  <2>0. s3[t] \in Calendar!PublishTarget
    BY QueueParts
  <2>1. CASE t # r.moved
    <3>1. kept[t] = s3[t]
      BY <1>2, <2>1
    <3> QED BY <2>0, <2>1, <3>1
  <2>2. CASE t = r.moved
    <3>1. kept[t] = [s3[t] EXCEPT !.status = "cancelled"]
      BY <1>2, <2>2
    <3> QED BY <2>0, <3>1 DEF Calendar!PublishTarget, Calendar!activeStatuses
  <2> QED BY <2>1, <2>2
<1>7. kept \in [1..Len(s3) -> Calendar!PublishTarget] /\ kept \in Seq(Calendar!PublishTarget) /\ Len(kept) = Len(s3)
  <2>1. kept \in [1..Len(s3) -> Calendar!PublishTarget]
    <3>1. Calendar!Targets = 1..Len(s3)
      BY QueueParts
    <3>2. DOMAIN kept = 1..Len(s3)
      BY <1>2, <3>1
    <3>3. kept = [t \in 1..Len(s3) |-> kept[t]]
      BY <1>2, <3>1
    <3>4. \A t \in 1..Len(s3) : kept[t] \in Calendar!PublishTarget
      BY <1>6, <3>1
    <3> QED BY <3>3, <3>4, Zenon
  <2>2. Len(s3) \in Nat
    BY QueueParts
  <2>3. kept \in Seq(Calendar!PublishTarget)
    BY <2>1, <2>2
  <2> QED BY <2>1, <2>2, <2>3
<1>8. /\ s3' \in Seq(Calendar!PublishTarget) /\ Len(s3') = Len(s3) + 1 /\ s3'[Len(s3) + 1] = x
      /\ \A t \in Calendar!Targets : s3'[t] = kept[t]
      /\ Calendar!Targets' = 1..(Len(s3) + 1)
  <2>1. /\ s3' \in Seq(Calendar!PublishTarget) /\ Len(s3') = Len(s3) + 1 /\ s3'[Len(s3) + 1] = x
        /\ \A t \in 1..Len(s3) : s3'[t] = kept[t]
    BY <1>4, <1>5, <1>7, QueueParts
  <2> QED BY <2>1, QueueParts DEF Calendar!Targets
<1>9. Calendar!QueueTypeOK'
  <2>1. s4' \in [Subjects -> Nat] /\ s5' \in [Actors -> Calendar!ScheduleRequest \cup {Nothing}]
    BY <1>1, <1>4, QueueParts DEF Calendar!Finish
  <2>2. Len(s3') + s2'.version <= MaxWrites + 1
    BY <1>4, <1>8, QueueParts, CalendarAssumption
  <2> QED BY <1>8, <2>1, <2>2 DEF Calendar!QueueInv, Calendar!QueueTypeOK
<1>10. /\ \A t \in Calendar!Active' : t \in Calendar!Targets \/ t = Len(s3) + 1
       /\ \A t \in Calendar!Active' : t \in Calendar!Targets => t \in Calendar!Active \ {r.moved}
       /\ \A t \in Calendar!Targets : t < Len(s3) + 1 /\ t \in Nat
  <2>1. \A t \in Calendar!Active' : t \in 1..(Len(s3) + 1) /\ s3'[t].status \in Calendar!activeStatuses
    BY <1>8 DEF Calendar!Active
  <2>2. Calendar!Targets = 1..Len(s3) /\ Len(s3) \in Nat
    BY QueueParts
  <2>3. \A t \in Calendar!Active' : t \in Calendar!Targets \/ t = Len(s3) + 1
    BY <2>1, <2>2
  <2>4. \A t \in Calendar!Targets : t < Len(s3) + 1 /\ t \in Nat
    BY <2>2
  <2>5. ASSUME NEW t \in Calendar!Active', t \in Calendar!Targets PROVE t \in Calendar!Active \ {r.moved}
    <3>1. s3'[t] = kept[t] /\ s3'[t].status \in Calendar!activeStatuses
      BY <1>8, <2>1, <2>5
    <3>3. kept[t].status \in Calendar!activeStatuses
      BY <3>1, Zenon
    <3>2. s3[t].status \in Calendar!activeStatuses /\ t # r.moved
      BY <1>6, <2>5, <3>3, Zenon
    <3> QED BY <2>5, <3>2 DEF Calendar!Active
  <2> QED BY <2>3, <2>4, <2>5
<1>11. \A t \in Calendar!Active \ {r.moved} : s3[t].item = r.item \/ Calendar!Near(s3[t].at, at) => t \in x.reviewed
  <2> SUFFICES ASSUME NEW t \in Calendar!Active \ {r.moved}, s3[t].item = r.item \/ Calendar!Near(s3[t].at, at) PROVE t \in x.reviewed
    OBVIOUS
  <2>1. <<t, s3[t].status>> \in Calendar!inspectScheduleConflicts(r.item, at, r.moved)
    BY DEF Calendar!inspectScheduleConflicts
  <2>2. <<t, s3[t].status>> \in r.acknowledged
    BY <2>1 DEF Calendar!assertScheduleConflictAcknowledgement
  <2> QED BY <1>3, <2>2
<1>14. ASSUME NEW t \in Calendar!Active', NEW u \in Calendar!Active', t < u PROVE t \in Calendar!Targets
  <2>1. u \in Nat /\ u <= Len(s3) + 1 /\ Len(s3) \in Nat
    BY <1>10, QueueParts
  <2>2. t # Len(s3) + 1
    BY <1>14, <2>1
  <2> QED BY <1>10, <2>2
<1>15. \A t \in Calendar!Targets : /\ s3'[t].item = s3[t].item /\ s3'[t].at = s3[t].at
                                   /\ s3'[t].queue = s3[t].queue /\ s3'[t].reviewed = s3[t].reviewed
  BY <1>6, <1>8, Zenon
<1>12. Calendar!NoUnreviewedConflict'
  <2> SUFFICES ASSUME NEW t \in Calendar!Active', NEW u \in Calendar!Active', t < u, s3'[t].item = s3'[u].item \/ Calendar!Near(s3'[t].at, s3'[u].at)
               PROVE  t \in s3'[u].reviewed
    BY DEF Calendar!NoUnreviewedConflict, Calendar!Near
  <2>1. t \in Calendar!Targets
    BY <1>14
  <2>2. CASE u \in Calendar!Targets
    <3>1. t \in Calendar!Active /\ u \in Calendar!Active
      BY <1>10, <2>1, <2>2
    <3>2. s3[t].item = s3[u].item \/ Calendar!Near(s3[t].at, s3[u].at)
      BY <1>15, <2>1, <2>2
    <3>3. t \in s3[u].reviewed
      BY <3>1, <3>2 DEF Calendar!QueueInv, Calendar!NoUnreviewedConflict
    <3> QED BY <1>15, <2>2, <3>3
  <2>3. CASE u = Len(s3) + 1
    <3>1. s3'[u] = x /\ s3'[t].item = s3[t].item /\ s3'[t].at = s3[t].at /\ t \in Calendar!Active \ {r.moved}
      BY <1>8, <1>10, <1>15, <2>1, <2>3
    <3>2. x.item = r.item /\ x.at = at
      BY <1>3
    <3> QED BY <1>11, <3>1, <3>2
  <2> QED BY <1>10, <2>2, <2>3
<1>13. Calendar!QueueSlotsAreDistinct'
  <2> SUFFICES ASSUME NEW t \in Calendar!Active', NEW u \in Calendar!Active', t < u, s3'[u].queue # Nothing PROVE s3'[t].at # s3'[u].at
    BY DEF Calendar!QueueSlotsAreDistinct
  <2>1. t \in Calendar!Targets
    BY <1>14
  <2>2. CASE u \in Calendar!Targets
    <3>1. t \in Calendar!Active /\ u \in Calendar!Active
      BY <1>10, <2>1, <2>2
    <3> QED BY <1>15, <2>1, <2>2, <3>1 DEF Calendar!QueueInv, Calendar!QueueSlotsAreDistinct
  <2>3. CASE u = Len(s3) + 1
    <3>1. s3'[u] = x /\ s3'[t].at = s3[t].at /\ t \in Calendar!Active
      BY <1>8, <1>10, <1>15, <2>1, <2>3
    <3>2. x.queue = queue /\ x.at = at
      BY <1>3
    <3> QED BY <3>1, <3>2
  <2> QED BY <1>10, <2>2, <2>3
<1> QED BY <1>9, <1>12, <1>13 DEF Calendar!QueueInv

\* Scheduling keeps the invariant.
LEMMA ScheduleSteps ==
  ASSUME Calendar!QueueInv, NEW q \in Actors, Calendar!schedule(q) \/ Calendar!scheduleNext(q)
  PROVE  Calendar!QueueInv'
<1>0. s5[q] \in Calendar!ScheduleRequest /\ Calendar!Finish(q) /\ UNCHANGED <<s1, s2>>
  BY QueueParts DEF Calendar!schedule, Calendar!scheduleNext
<1>1. CASE UNCHANGED <<s3, s4>>
  <2>1. s5' \in [Actors -> Calendar!ScheduleRequest \cup {Nothing}]
    BY <1>0, QueueParts DEF Calendar!Finish
  <2> QED BY <1>0, <1>1, <2>1, QueueParts, OthersStay
<1>2. CASE Calendar!assertScheduleConflictAcknowledgement(q, s5[q].at) /\ Calendar!commit(q, s5[q].at, Nothing)
  <2>1. s5[q].at \in Times
    BY <1>0 DEF Calendar!ScheduleRequest
  <2> QED BY <1>0, <1>2, <2>1, CommitKeeps
<1>3. CASE /\ Calendar!resolvePostingQueue # {} /\ Calendar!assertScheduleConflictAcknowledgement(q, Calendar!Min(Calendar!resolvePostingQueue))
           /\ Calendar!commit(q, Calendar!Min(Calendar!resolvePostingQueue), q)
  <2>1. Calendar!Min(Calendar!resolvePostingQueue) \in Times /\ \A t \in Calendar!Active : s3[t].at # Calendar!Min(Calendar!resolvePostingQueue)
    BY <1>3, SlotsAreTimes DEF Calendar!resolvePostingQueue
  <2> QED BY <1>0, <1>3, <2>1, CommitKeeps
<1>4. CASE Calendar!schedule(q)
  BY <1>1, <1>2, <1>4 DEF Calendar!schedule
<1>5. CASE Calendar!scheduleNext(q)
  BY <1>1, <1>3, <1>5 DEF Calendar!scheduleNext
<1> QED BY <1>4, <1>5

\* Every step of the calendar keeps its invariant.
LEMMA QueueNextKeeps == Calendar!QueueInv /\ Calendar!QueueNext => Calendar!QueueInv'
<1> SUFFICES ASSUME Calendar!QueueInv, Calendar!QueueNext PROVE Calendar!QueueInv'
  OBVIOUS
<1>1. CASE Calendar!timePasses \/ \E slots \in Weeks, enabled \in BOOLEAN : Calendar!saveProfile(slots, enabled)
  BY <1>1, SettingSteps
<1>2. CASE \E t \in Calendar!Targets : Calendar!commitCancellation(t) \/ Calendar!publish(t)
  BY <1>2, StatusSteps
<1>3. CASE \E q \in Actors : Calendar!schedule(q) \/ Calendar!scheduleNext(q)
  BY <1>3, ScheduleSteps
<1>4. CASE \E q \in Actors, op \in {"schedule", "next", "reschedule"}, item \in Subjects, at \in Times, moved \in {0} \cup Calendar!Targets :
             Calendar!schedulePreflight(q, op, item, at, moved)
  BY <1>4, PreflightKeeps
<1> QED BY <1>1, <1>2, <1>3, <1>4 DEF Calendar!QueueNext

-----------------------------------------------------------------------------
(* Proofs.  The components together.                                       *)

\* The invariant of the component that Init chose.
ContentInv ==
  /\ component = "workflow"   => Workflow!WorkflowInv
  /\ component = "monitoring" => Monitor!MonitoringInv
  /\ component = "batch plan" => Plan!BatchInv
  /\ component = "imports"    => Import!ImportInv
  /\ component = "calendar"   => Calendar!QueueInv
  /\ component = "analytics"  => Analytics!AnalyticsInv
  /\ component = "webhooks"   => Webhook!WebhookInv

\* It holds initially.
LEMMA ContentInit == Init => ContentInv
  BY WorkflowStarts, MonitoringStarts, BatchStarts, ImportStarts, QueueStarts, AnalyticsStarts, WebhooksStart
  DEF Init, ContentInv

\* A step is a step of the component that Init chose, or of none.
LEMMA ContentSteps ==
  ASSUME [Next]_vars
  PROVE  /\ UNCHANGED component
         /\ component = "workflow"   => [Workflow!Next]_Workflow!vars
         /\ component = "monitoring" => [Monitor!MonitoringNext]_Monitor!monitoringVars
         /\ component = "batch plan" => [Plan!BatchNext]_Plan!batchVars
         /\ component = "imports"    => [Import!ImportNext]_Import!importVars
         /\ component = "calendar"   => [Calendar!QueueNext]_Calendar!queueVars
         /\ component = "analytics"  => [Analytics!AnalyticsNext]_Analytics!analyticsVars
         /\ component = "webhooks"   => [Webhook!WebhookNext]_Webhook!webhookVars
<1>1. CASE UNCHANGED vars
  BY <1>1 DEF vars, Workflow!vars, Monitor!monitoringVars, Plan!batchVars, Import!importVars, Calendar!queueVars,
     Analytics!analyticsVars, Webhook!webhookVars
<1>2. CASE Next
  BY <1>2 DEF Next, WorkflowSteps, MonitorSteps, BatchSteps, ImportSteps, CalendarSteps, AnalyticsSteps, WebhookSteps
<1> QED BY <1>1, <1>2

\* A component that nobody moves keeps its invariant.
LEMMA ContentStands ==
  /\ Plan!BatchInv /\ UNCHANGED Plan!batchVars => Plan!BatchInv'
  /\ Calendar!QueueInv /\ UNCHANGED Calendar!queueVars => Calendar!QueueInv'
<1>1. ASSUME Plan!BatchInv, UNCHANGED Plan!batchVars PROVE Plan!BatchInv'
  BY <1>1 DEF Plan!batchVars, Plan!BatchInv, Plan!BatchTypeOK, Plan!ItemsAreInOrder, Plan!CopiesAreOlder, Plan!ResultsAreTrue,
     Plan!PlanResultsAreTrue, Plan!HoldsOf, Plan!Older
<1>2. ASSUME Calendar!QueueInv, UNCHANGED Calendar!queueVars PROVE Calendar!QueueInv'
  <2>1. UNCHANGED <<s1, s2, s3, s4, s5>>
    BY <1>2 DEF Calendar!queueVars
  <2> QED BY <1>2, <2>1, QueueParts, OthersStay
<1> QED BY <1>1, <1>2

\* Every step keeps it.
LEMMA ContentNext == ASSUME ContentInv, [Next]_vars PROVE ContentInv'
<1>1. /\ component = "workflow" => Workflow!WorkflowInv'
      /\ component = "webhooks" => Webhook!WebhookInv'
      /\ component = "imports" => Import!ImportInv'
  BY ContentSteps, WorkflowNextKeeps, WebhookNextKeeps, ImportNextKeeps, WorkflowStands, WebhookStands, ImportStands
  DEF ContentInv
<1>2. component = "monitoring" => Monitor!MonitoringInv'
  BY ContentSteps, MonitoringNextKeeps DEF ContentInv
<1>3. /\ component = "batch plan" => Plan!BatchInv'
      /\ component = "calendar" => Calendar!QueueInv'
      /\ component = "analytics" => Analytics!AnalyticsInv'
  BY ContentSteps, BatchNextKeeps, QueueNextKeeps, ContentStands, AnalyticsNextKeeps, AnalyticsStutters DEF ContentInv
<1> QED BY <1>1, <1>2, <1>3, ContentSteps DEF ContentInv

\* The invariants of the components contain what they promise.
LEMMA ContentShows == ContentInv => TypesOK /\ ScheduledAsReviewed /\ AutomationKeepsAccount /\ ReportsAreProven
<1> SUFFICES ASSUME ContentInv PROVE TypesOK /\ ScheduledAsReviewed /\ AutomationKeepsAccount /\ ReportsAreProven
  OBVIOUS
<1>1. TypesOK
  BY DEF ContentInv, TypesOK, Workflow!WorkflowInv, Monitor!MonitoringInv, Plan!BatchInv, Import!ImportInv,
     Calendar!QueueInv, Analytics!AnalyticsInv, Webhook!WebhookInv
<1>2. ScheduledAsReviewed
  BY BatchInvShows DEF ContentInv, ScheduledAsReviewed, Workflow!WorkflowInv, Calendar!QueueInv
<1>3. AutomationKeepsAccount /\ ReportsAreProven
  BY DEF ContentInv, AutomationKeepsAccount, ReportsAreProven, Monitor!MonitoringInv, Monitor!RunInv, Monitor!SignalInv,
     Import!ImportInv, Webhook!WebhookInv, Analytics!AnalyticsInv
<1> QED BY <1>1, <1>2, <1>3

\* Every variable keeps its type, for any number of targets, runs, rows, requests, slots, posts and deliveries.
THEOREM ContentTypes == Spec => []TypesOK
<1>1. ContentInv /\ [Next]_vars => ContentInv'
  BY ContentNext
<1> QED BY <1>1, ContentInit, ContentShows, PTL DEF Spec

\* What is scheduled was approved, once, and its conflicts were seen, for any number of drafts, targets, rows and requests.
THEOREM ContentScheduled == Spec => []ScheduledAsReviewed
<1>1. ContentInv /\ [Next]_vars => ContentInv'
  BY ContentNext
<1> QED BY <1>1, ContentInit, ContentShows, PTL DEF Spec

\* Monitoring, imports and webhooks account truly for themselves, for any number of workers, sources, rows and deliveries.
THEOREM ContentAutomation == Spec => []AutomationKeepsAccount
<1>1. ContentInv /\ [Next]_vars => ContentInv'
  BY ContentNext
<1> QED BY <1>1, ContentInit, ContentShows, PTL DEF Spec

\* What a client reads was measured, for any number of posts, jobs, metric contracts and links.
THEOREM ContentReports == Spec => []ReportsAreProven
<1>1. ContentInv /\ [Next]_vars => ContentInv'
  BY ContentNext
<1> QED BY <1>1, ContentInit, ContentShows, PTL DEF Spec

\* What is settled stays, for any number of targets, handlers, deliveries and commits.
THEOREM ContentSettles == Spec => SettledContentStays
<1> DEFINE Stays == /\ component = "workflow" => Workflow!SettledIsFinal /\ Workflow!NoCompletionOverProof
                    /\ component = "webhooks" => Webhook!DeliveredStays
                    /\ component = "imports"  => Import!CommittedIsFinal
<1>1. ContentInv /\ [Next]_vars => ContentInv' /\ [Stays]_vars
  <2> SUFFICES ASSUME ContentInv, [Next]_vars PROVE [Stays]_vars
    BY ContentNext
  <2> SUFFICES ASSUME Next PROVE Stays
    OBVIOUS
  <2>1. /\ component = "workflow" => Workflow!Next
        /\ component = "webhooks" => Webhook!WebhookNext
        /\ component = "imports" => Import!ImportNext
    BY DEF Next, WorkflowSteps, MonitorSteps, BatchSteps, ImportSteps, CalendarSteps, AnalyticsSteps, WebhookSteps
  <2> QED BY <2>1, WorkflowNextKeeps, WebhookNextKeeps, ImportNextKeeps DEF ContentInv
<1> QED BY <1>1, ContentInit, PTL DEF Spec, SettledContentStays
=============================================================================
