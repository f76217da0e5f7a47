------------------------------ MODULE MCProgress ------------------------------
(***************************************************************************)
(* Work that must come to an end, for TLC: the delivery of a publish       *)
(* command, research runs, the comment inbox, data deletion, the local     *)
(* Codex bridge, page capture and the check of a research report's         *)
(* sources.  None of them shares state with another, so a behaviour is a   *)
(* behaviour of the component that Init chooses, under that component's    *)
(* fairness, and the others stay in an initial state.                      *)
(***************************************************************************)
EXTENDS Naturals, Sequences, FiniteSets, FiniteSetTheorems, WellFoundedInduction, TLAPS

CONSTANTS Workers, MaxAttempts, JobAttempts, MaxCrashes, MaxLosses, NoMessage,        \* delivery
          ResearchIds, ResearchAttempts, MaxEdits, LossyEnqueue,                      \* research
          Comments, Readers, NoReader, NoNotice, MaxReceiptAttempts, MaxStops,        \* comments
          Accounts, Grants, Flows, Calls, MaxRefreshAttempts, MaxErasureAttempts,     \* deletion
          BridgeRequests, Outputs,                                                    \* bridge
          Pages, PageRequests, Document, Limit, MaxRequests, MaxBytes,                \* capture
          Urls, Reports, Fan, MaxRedirects, SourceLimit, NoUrl                        \* evidence

ASSUME BoundsAssumption ==
  /\ {MaxAttempts, JobAttempts, ResearchAttempts, MaxReceiptAttempts, MaxErasureAttempts, Limit, Fan} \subseteq Nat \ {0}
  /\ {MaxCrashes, MaxLosses, MaxEdits, MaxStops, MaxRedirects} \subseteq Nat
  /\ Document \in PageRequests /\ LossyEnqueue \in BOOLEAN

ASSUME DeliveryAssumption ==
  IsFiniteSet(Workers) /\ NoMessage \notin [key : 0..MaxCrashes, at : {"add", "complete", "fail"}]

VARIABLES component,
          target, event, commandJobs, tries, hand, up, crashes, losses,
          status, run, researchJobs, researchPc, current, stalls, edits,
          remote, stored, conversation, proofSaved, receipts, readers, stops,
          kinds, accounts, secrets, issued, grants, links, flows, calls, renewals, validations, told, deletion,
          privateData, overwritten,
          busy, request, listening,
          page, capturePc, handler, active, waiting, seen, bytes, stopped, timedOut, outcome,
          web, evidence, fetch, visited

deliveryVars == <<target, event, commandJobs, tries, hand, up, crashes, losses>>
researchVars == <<status, run, researchJobs, researchPc, current, stalls, edits>>
commentVars  == <<remote, stored, conversation, proofSaved, receipts, readers, stops>>
accessVars   == <<kinds, accounts, secrets, issued, grants, links, flows, calls, renewals, validations, told, deletion,
                  privateData, overwritten>>
bridgeVars   == <<busy, request, listening>>
captureVars  == <<page, capturePc, handler, active, waiting, seen, bytes, stopped, timedOut, outcome>>
evidenceVars == <<web, evidence, fetch, visited>>
vars == <<component, deliveryVars, researchVars, commentVars, accessVars, bridgeVars, captureVars, evidenceVars>>

Delivery == INSTANCE PublishDelivery WITH Idle <- NoMessage, jobs <- commandJobs
Research == INSTANCE ResearchRuns WITH Runs <- ResearchIds, JobAttempts <- ResearchAttempts,
                                       jobs <- researchJobs, pc <- researchPc
Inbox    == INSTANCE EngagementInbox WITH Verbs <- {"add", "remove"}, PageOf <- [c \in Comments |-> 1],
                                          LastPage <- 1, MaxPages <- 1
Access   == INSTANCE ChannelAccessProofs
Capture  == INSTANCE PageCapture WITH Requests <- PageRequests, pc <- capturePc

Bridge   == INSTANCE LocalCodex
Evidence == INSTANCE SourceEvidence

ASSUME CaptureAssumption == IsFiniteSet(PageRequests) /\ Pages \in Nat \ {0} /\ MaxRequests \in Nat /\ MaxBytes \in Nat

ASSUME AccessAssumption == Access!AccessConstants

ASSUME BridgeAssumption == Outputs \subseteq Seq(Bridge!EventKinds)

ASSUME EvidenceAssumption == Reports \subseteq Evidence!SourcingResult /\ SourceLimit \in Nat \ {0} /\ NoUrl \notin Urls

\* For TLC: whole turns with and without a search, turns with a tool, a failure or no message, junk, and silence.
SampleOutputs ==
  { <<"thread", "turn", "message", "completed">>, <<"thread", "notice", "turn", "search", "message", "completed">>,
    <<"thread", "turn", "tool", "message", "completed">>, <<"thread", "turn", "message", "failed">>,
    <<"turn", "message", "completed">>, <<"thread", "turn", "reasoning", "search", "completed">>, <<"junk">>, <<>> }

Quoted(u)     == [url |-> u, quoted |-> TRUE]
Supported(us) == [status |-> "supported", urls |-> us]

\* For TLC: reports with a repeated source, more sources than asked for, a source without a quote and no search.
SampleReports ==
  LET u1 == CHOOSE u \in Urls : TRUE
      u2 == CHOOSE u \in Urls \ {u1} : TRUE
  IN { [sources |-> <<Quoted(u1), Quoted(u2), Quoted(u2)>>, claims |-> {Supported({u1, u2}), Supported({})}, searched |-> TRUE],
       [sources |-> <<Quoted(u1), [url |-> u2, quoted |-> FALSE], Quoted(u1), Quoted(u2)>>,
        claims |-> {Supported({u1}), Supported({u2})}, searched |-> TRUE],
       [sources |-> <<Quoted(u1)>>, claims |-> {Supported({u1, u2})}, searched |-> FALSE],
       [sources |-> <<Quoted(u1)>>, claims |-> {Supported({u1, u2})}, searched |-> TRUE] }

Init ==
  /\ component \in {"delivery", "research", "comments", "deletion", "bridge", "capture", "evidence"}
  /\ Delivery!Init /\ Research!Init /\ Inbox!EngagementInboxInit /\ Access!AccessInit
  /\ Bridge!CodexInit /\ Capture!CaptureInit /\ Evidence!EvidenceInit
  /\ component # "evidence" => web = [public |-> {}, redirect |-> [u \in Urls |-> NoUrl], quotes |-> {}]
  /\ component # "deletion" => kinds = [a \in Accounts |-> "facebook"]

DeliverySteps ==
  /\ component = "delivery" /\ Delivery!Next
  /\ UNCHANGED <<component, researchVars, commentVars, accessVars, bridgeVars, captureVars, evidenceVars>>

ResearchSteps ==
  /\ component = "research" /\ Research!Next
  /\ UNCHANGED <<component, deliveryVars, commentVars, accessVars, bridgeVars, captureVars, evidenceVars>>

CommentSteps ==
  /\ component = "comments" /\ Inbox!EngagementInboxNext
  /\ UNCHANGED <<component, deliveryVars, researchVars, accessVars, bridgeVars, captureVars, evidenceVars>>

DeletionSteps ==
  /\ component = "deletion" /\ Access!AccessNext
  /\ UNCHANGED <<component, deliveryVars, researchVars, commentVars, bridgeVars, captureVars, evidenceVars>>

BridgeSteps ==
  /\ component = "bridge" /\ Bridge!CodexNext
  /\ UNCHANGED <<component, deliveryVars, researchVars, commentVars, accessVars, captureVars, evidenceVars>>

CaptureSteps ==
  /\ component = "capture" /\ Capture!CaptureNext
  /\ UNCHANGED <<component, deliveryVars, researchVars, commentVars, accessVars, bridgeVars, evidenceVars>>

EvidenceSteps ==
  /\ component = "evidence" /\ Evidence!EvidenceNext
  /\ UNCHANGED <<component, deliveryVars, researchVars, commentVars, accessVars, bridgeVars, captureVars>>

Next == \/ DeliverySteps \/ ResearchSteps \/ CommentSteps \/ DeletionSteps
        \/ BridgeSteps \/ CaptureSteps \/ EvidenceSteps

\* The fairness that each component's module states and explains, of the component that was chosen.
DeliveryFairness ==
  /\ \A w \in Workers : /\ WF_deliveryVars(component = "delivery" /\ Delivery!DispatcherStep(w))
                        /\ WF_deliveryVars(component = "delivery" /\ Delivery!Start(w))
  /\ \A k \in Delivery!Keys : /\ WF_deliveryVars(component = "delivery" /\ Delivery!StartJob(k))
                              /\ WF_deliveryVars(component = "delivery" /\ (Delivery!EndJob(k) \/ Delivery!RetryJob(k)))
  /\ WF_deliveryVars(component = "delivery" /\ Delivery!LeaseExpires)

ResearchFairness ==
  \A s \in ResearchIds : /\ WF_researchVars(component = "research" /\ (Research!Enqueue(s) \/ Research!EnqueueLost(s)))
                         /\ WF_researchVars(component = "research" /\ Research!HandlerStep(s))

CommentFairness ==
  /\ \A h \in Readers : /\ WF_commentVars(component = "comments" /\ Inbox!applyNotice(h))
                        /\ SF_commentVars(component = "comments" /\ Inbox!readCommentEdge(h))
                        /\ WF_commentVars(component = "comments" /\ Inbox!reconcile(h))
                        /\ WF_commentVars(component = "comments" /\ Inbox!finishReceipt(h))
                        /\ SF_commentVars(component = "comments" /\ Inbox!reconcileStale(h))
  /\ \A n \in Inbox!Notices : /\ WF_commentVars(component = "comments" /\ Inbox!ReceiptLeaseExpires(n))
                              /\ SF_commentVars(component = "comments" /\ \E h \in Readers : Inbox!processReceipt(h, n))
  /\ WF_commentVars(component = "comments" /\ Inbox!TimePasses)

CallFairness ==
  /\ \A r \in BridgeRequests : WF_bridgeVars(component = "bridge" /\ Bridge!Handler(r))
  /\ WF_captureVars(component = "capture" /\ Capture!CaptureAdvances)
  /\ WF_captureVars(component = "capture" /\ Capture!deadline)
  /\ WF_evidenceVars(component = "evidence" /\ Evidence!EvidenceNext)
  /\ WF_accessVars(component = "deletion" /\ Access!Erase)

Spec == Init /\ [][Next]_vars /\ DeliveryFairness /\ ResearchFairness /\ CommentFairness /\ CallFairness

-----------------------------------------------------------------------------
(* Properties. *)

\* Every variable of the seven components keeps its type.
TypesOK ==
  /\ component = "delivery" => Delivery!TypeOK
  /\ component = "research" => Research!TypeOK
  /\ component = "comments" => Inbox!EngagementInboxTypeOK
  /\ component = "deletion" => Access!AccessTypeOK
  /\ component = "bridge"   => Bridge!CodexTypeOK
  /\ component = "capture"  => Capture!CaptureTypeOK
  /\ component = "evidence" => Evidence!EvidenceTypeOK

\* A publish command is neither lost nor doubled: it is closed only when its job exists (unless Redis lost its data),
\* it gets a second job only after a crash, and an unsettled target always has an open command, a job that is not
\* spent without a trace, or a worker about to recover it.
CommandsAreKept == Delivery!ProcessedHasJob /\ Delivery!OneJobWithoutCrash /\ Delivery!NeverForgotten

\* Limits and verdicts of outside calls hold: one CLI completion at a time, no more page fetches than the limit with
\* none asleep beside a free place, an answer only from a whole turn, a supported claim only from quotes that were
\* found, and no request to a private address, redirects included.
CallsAreChecked ==
  /\ Bridge!OneCompletionAtATime /\ Bridge!AnswersAreComplete
  /\ Capture!FetchesAreCounted /\ Capture!NoLostWakeUp
  /\ Evidence!SupportedIsQuoted /\ Evidence!OnlyPublicIsRead

\* The result of a research run is recorded once: no redelivery, retry or late failure moves a completed run.
CompletedIsFinal == [][Research!CompletedIsFinal]_vars

\* Work that was taken on ends or its failure shows: a scheduled target, a research job, a data deletion, a bridge
\* request, a page collection and a source check, whatever crashes, hangs, loops or is lost on the way.
WorkEnds ==
  /\ component = "delivery" => Delivery!Delivered
  /\ component = "research" => Research!JobEnds
  /\ component = "deletion" => Access!DeletionEnds
  /\ component = "bridge"   => Bridge!BridgeIsFreed
  /\ component = "capture"  => Capture!CollectionEnds
  /\ component = "evidence" => Evidence!EvidenceEnds

\* A stored notice is applied or given up, and a comment on an open conversation is read although its notice is lost,
\* executions stop and leases run out.
CommentsArrive == component = "comments" => Inbox!ReceiptSettles /\ Inbox!CommentArrives

-----------------------------------------------------------------------------
(* Proofs.  Publish delivery.                                              *)

\* How the number of workers that are down moves when one stops or starts.
LEMMA Down ==
  ASSUME NEW U, NEW w \in Workers
  PROVE  /\ Delivery!Cardinality(Workers \ U) \in Nat
         /\ w \in U => Delivery!Cardinality(Workers \ (U \ {w})) = Delivery!Cardinality(Workers \ U) + 1
         /\ w \notin U => Delivery!Cardinality(Workers \ (U \cup {w})) + 1 = Delivery!Cardinality(Workers \ U)
<1>1. \A S : Delivery!Cardinality(S) = Cardinality(S)
  BY DEF Delivery!Cardinality, Cardinality
<1>2. IsFiniteSet(Workers \ U) /\ Cardinality(Workers \ U) \in Nat
  BY DeliveryAssumption, FS_Difference, FS_CardinalityType
<1>3. ASSUME w \in U PROVE Cardinality(Workers \ (U \ {w})) = Cardinality(Workers \ U) + 1
  <2>1. Workers \ (U \ {w}) = (Workers \ U) \cup {w} /\ w \notin Workers \ U
    BY <1>3
  <2> QED BY <1>2, <2>1, FS_AddElement
<1>4. ASSUME w \notin U PROVE Cardinality(Workers \ (U \cup {w})) + 1 = Cardinality(Workers \ U)
  <2>1. Workers \ (U \cup {w}) = (Workers \ U) \ {w} /\ w \in Workers \ U
    BY <1>4
  <2>2. Cardinality((Workers \ U) \ {w}) = Cardinality(Workers \ U) - 1
    BY <1>2, <2>1, FS_RemoveElement
  <2> QED BY <1>2, <2>1, <2>2
<1> QED BY <1>1, <1>2, <1>3, <1>4

\* What the updates of an event keep.
LEMMA EventRow ==
  ASSUME NEW Status, NEW Count, NEW Key, NEW e \in [status : Status, attempts : Count, live : BOOLEAN, key : Key],
         NEW x \in Status, NEW n \in Count, NEW b \in BOOLEAN
  PROVE  LET claimed  == [e EXCEPT !.status = x, !.live = b, !.attempts = n]
             released == [e EXCEPT !.status = x, !.live = b]
             retried  == [e EXCEPT !.status = x, !.attempts = n]
             expired  == [e EXCEPT !.live = b]
             Row      == [status : Status, attempts : Count, live : BOOLEAN, key : Key] IN
           /\ claimed \in Row /\ claimed.status = x /\ claimed.key = e.key
           /\ released \in Row /\ released.status = x /\ released.key = e.key
           /\ retried \in Row /\ retried.status = x /\ retried.key = e.key
           /\ expired \in Row /\ expired.status = e.status /\ expired.key = e.key
  OBVIOUS

\* It holds when the target was scheduled.
LEMMA DeliveryInit == Delivery!Init => Delivery!DeliveryInv /\ Delivery!HandIsCurrent /\ Delivery!ProcessedHasJob
<1> SUFFICES ASSUME Delivery!Init PROVE Delivery!DeliveryInv /\ Delivery!HandIsCurrent /\ Delivery!ProcessedHasJob
  OBVIOUS
<1>1. Delivery!Cardinality(Workers \ up) = 0
  <2>1. Workers \ up = {} /\ Delivery!Cardinality({}) = Cardinality({})
    BY DEF Delivery!Init, Delivery!Cardinality, Cardinality
  <2> QED BY <2>1, FS_EmptySet
<1>2. Delivery!TypeOK
  BY BoundsAssumption DEF Delivery!Init, Delivery!TypeOK, Delivery!Keys, Delivery!Unsettled
<1> QED
  BY <1>1, <1>2, BoundsAssumption DEF Delivery!Init, Delivery!DeliveryInv, Delivery!KeysAreCounted, Delivery!HandsAreServed,
     Delivery!JobsAreCounted, Delivery!ClosedHasSomeJob, Delivery!HandIsCurrent, Delivery!ProcessedHasJob, Delivery!Keys

\* The dispatcher's own steps.
LEMMA DispatcherKeeps ==
  ASSUME Delivery!DeliveryInv, NEW w \in Workers, Delivery!DispatcherStep(w)
  PROVE  Delivery!DeliveryInv'
<1> DEFINE Status == {"pending", "processing", "processed", "failed"}
           Count  == 0..MaxAttempts
           At     == {"add", "complete", "fail"}
<1>1. /\ event \in [status : Status, attempts : Count, live : BOOLEAN, key : 0..MaxCrashes]
      /\ hand \in [Workers -> [key : 0..MaxCrashes, at : At] \cup {NoMessage}]
      /\ commandJobs \in [0..MaxCrashes -> {"absent", "waiting", "active", "ended", "exhausted"}]
  BY DEF Delivery!DeliveryInv, Delivery!TypeOK, Delivery!Keys
<1>2. \A k \in 0..MaxCrashes, a \in At : [key |-> k, at |-> a] # NoMessage
  BY DeliveryAssumption
<1>3. /\ MaxCrashes \in Nat /\ MaxAttempts \in Nat \ {0} /\ "processing" \in Status /\ "processed" \in Status
      /\ "failed" \in Status /\ "pending" \in Status
  BY BoundsAssumption
<1>4. Delivery!Capped(event.attempts + 1) \in Count
  BY <1>1, <1>3 DEF Delivery!Capped
<1>5. event.key \in 0..MaxCrashes /\ event.attempts \in Count
  BY <1>1
<1>6. CASE Delivery!ClaimAvailable(w)
  <2>1. event' \in [status : Status, attempts : Count, live : BOOLEAN, key : 0..MaxCrashes]
        /\ event'.status = "processing" /\ event'.key = event.key
    <3> HIDE DEF Status, Count
    <3> QED BY <1>1, <1>3, <1>4, <1>6, EventRow DEF Delivery!ClaimAvailable
  <2>2. hand' = [hand EXCEPT ![w] = [key |-> event.key, at |-> "add"]]
    BY <1>6 DEF Delivery!ClaimAvailable
  <2> QED BY <1>1, <1>2, <1>3, <1>5, <1>6, <2>1, <2>2
          DEF Delivery!ClaimAvailable, Delivery!DeliveryInv, Delivery!TypeOK, Delivery!KeysAreCounted,
              Delivery!HandsAreServed, Delivery!JobsAreCounted, Delivery!ClosedHasSomeJob, Delivery!Keys
<1>7. CASE Delivery!AddJob(w)
  <2> QED BY <1>1, <1>2, <1>3, <1>5, <1>7
          DEF Delivery!AddJob, Delivery!DeliveryInv, Delivery!TypeOK, Delivery!KeysAreCounted,
              Delivery!HandsAreServed, Delivery!JobsAreCounted, Delivery!ClosedHasSomeJob, Delivery!Keys
<1>8. CASE Delivery!AddJobFails(w)
  <2> QED BY <1>1, <1>2, <1>3, <1>5, <1>8
          DEF Delivery!AddJobFails, Delivery!DeliveryInv, Delivery!TypeOK, Delivery!KeysAreCounted,
              Delivery!HandsAreServed, Delivery!JobsAreCounted, Delivery!ClosedHasSomeJob, Delivery!Keys
<1>9. CASE Delivery!Complete(w)
  <2>1. event' \in [status : Status, attempts : Count, live : BOOLEAN, key : 0..MaxCrashes]
        /\ event'.status = "processed" /\ event'.key = event.key
    <3> HIDE DEF Status, Count
    <3> QED BY <1>1, <1>3, <1>5, <1>9, EventRow DEF Delivery!Complete
  <2> QED BY <1>1, <1>2, <1>3, <1>5, <1>9, <2>1
          DEF Delivery!Complete, Delivery!DeliveryInv, Delivery!TypeOK, Delivery!KeysAreCounted,
              Delivery!HandsAreServed, Delivery!JobsAreCounted, Delivery!ClosedHasSomeJob, Delivery!Keys
<1>10. CASE Delivery!Fail(w)
  <2>1. event' \in [status : Status, attempts : Count, live : BOOLEAN, key : 0..MaxCrashes]
        /\ event'.status \in {"failed", "pending"} /\ event'.key = event.key
    <3> DEFINE x == IF event.attempts >= MaxAttempts THEN "failed" ELSE "pending"
    <3>1. x \in Status /\ x \in {"failed", "pending"}
      OBVIOUS
    <3>2. event' = [event EXCEPT !.status = x, !.live = FALSE]
      BY <1>10 DEF Delivery!Fail
    <3> HIDE DEF Status, Count, x
    <3> QED BY <1>1, <1>3, <1>5, <3>1, <3>2, EventRow
  <2> QED BY <1>1, <1>2, <1>3, <1>5, <1>10, <2>1
          DEF Delivery!Fail, Delivery!DeliveryInv, Delivery!TypeOK, Delivery!KeysAreCounted,
              Delivery!HandsAreServed, Delivery!JobsAreCounted, Delivery!ClosedHasSomeJob, Delivery!Keys
<1> QED BY <1>6, <1>7, <1>8, <1>9, <1>10 DEF Delivery!DispatcherStep

\* Crashes and starts of workers, and the loss of the Redis data.
LEMMA RecoveryKeeps ==
  ASSUME Delivery!DeliveryInv, \/ \E w \in Workers : Delivery!Crash(w) \/ Delivery!Start(w)
                               \/ Delivery!LoseRedis
  PROVE  Delivery!DeliveryInv'
<1> DEFINE Status == {"pending", "processing", "processed", "failed"}
           Count  == 0..MaxAttempts
<1>1. /\ event \in [status : Status, attempts : Count, live : BOOLEAN, key : 0..MaxCrashes]
      /\ MaxCrashes \in Nat /\ MaxLosses \in Nat /\ MaxAttempts \in Nat \ {0} /\ JobAttempts \in Nat \ {0}
      /\ event.key \in 0..MaxCrashes
  BY BoundsAssumption DEF Delivery!DeliveryInv, Delivery!TypeOK, Delivery!Keys
<1>2. ASSUME NEW w \in Workers, Delivery!Crash(w) PROVE Delivery!DeliveryInv'
  <2>1. Delivery!Cardinality(Workers \ up') = Delivery!Cardinality(Workers \ up) + 1 /\ Delivery!Cardinality(Workers \ up) \in Nat
    BY <1>2, Down DEF Delivery!Crash
  <2>2. Delivery!KeysAreCounted'
    BY <1>1, <1>2, <2>1 DEF Delivery!Crash, Delivery!DeliveryInv, Delivery!KeysAreCounted, Delivery!TypeOK
  <2> QED BY <1>1, <1>2, <2>2 DEF Delivery!Crash, Delivery!DeliveryInv, Delivery!TypeOK, Delivery!KeysAreCounted, Delivery!HandsAreServed,
              Delivery!JobsAreCounted, Delivery!ClosedHasSomeJob, Delivery!Keys, Delivery!Unsettled
<1>3. ASSUME NEW w \in Workers, Delivery!Start(w) PROVE Delivery!DeliveryInv'
  <2>1. /\ Delivery!Cardinality(Workers \ up') + 1 = Delivery!Cardinality(Workers \ up)
        /\ Delivery!Cardinality(Workers \ up) \in Nat /\ Delivery!Cardinality(Workers \ up') \in Nat
    BY <1>3, Down DEF Delivery!Start
  <2>2. event.key + 1 \in 0..MaxCrashes
    BY <1>1, <2>1 DEF Delivery!DeliveryInv, Delivery!KeysAreCounted, Delivery!TypeOK
  <2>3. \/ event' = event /\ ~(target \in Delivery!Unsettled /\ event.status \in {"processed", "failed"})
        \/ event' = [status |-> "pending", attempts |-> 0, live |-> FALSE, key |-> event.key + 1]
    BY <1>3 DEF Delivery!Start, Delivery!Recovered
  <2>4. /\ event' \in [status : Status, attempts : Count, live : BOOLEAN, key : 0..MaxCrashes]
        /\ event'.key \in {event.key, event.key + 1}
        /\ target \in Delivery!Unsettled => event'.status # "processed"
    <3>1. CASE event' = event /\ ~(target \in Delivery!Unsettled /\ event.status \in {"processed", "failed"})
      BY <1>1, <3>1
    <3>2. CASE event' = [status |-> "pending", attempts |-> 0, live |-> FALSE, key |-> event.key + 1]
      <4>1. 0 \in Count /\ "pending" \in Status /\ event'.key = event.key + 1 /\ event'.status = "pending"
        BY <1>1, <3>2
      <4> HIDE DEF Status, Count
      <4> QED BY <2>2, <3>2, <4>1
    <3> QED BY <2>3, <3>1, <3>2
  <2>5. Delivery!KeysAreCounted'
    <3>1. /\ event.key + Delivery!Cardinality(Workers \ up) <= crashes /\ crashes' = crashes /\ crashes \in Nat
          /\ event'.key <= event.key + 1 /\ event'.key \in Nat /\ event.key \in Nat
      BY <1>1, <1>3, <2>4 DEF Delivery!Start, Delivery!DeliveryInv, Delivery!KeysAreCounted, Delivery!TypeOK
    <3>2. event'.key + Delivery!Cardinality(Workers \ up') <= crashes'
      BY <2>1, <3>1
    <3> QED BY <3>2 DEF Delivery!KeysAreCounted
  <2>6. Delivery!TypeOK'
    BY <1>3, <2>4 DEF Delivery!Start, Delivery!DeliveryInv, Delivery!TypeOK, Delivery!Keys
  <2>7. Delivery!HandsAreServed' /\ Delivery!JobsAreCounted' /\ Delivery!ClosedHasSomeJob'
    BY <1>1, <1>3, <2>4 DEF Delivery!Start, Delivery!DeliveryInv, Delivery!TypeOK, Delivery!HandsAreServed,
       Delivery!JobsAreCounted, Delivery!ClosedHasSomeJob, Delivery!Keys, Delivery!Unsettled
  <2> QED BY <2>5, <2>6, <2>7 DEF Delivery!DeliveryInv
<1>4. CASE Delivery!LoseRedis
  BY <1>1, <1>4 DEF Delivery!LoseRedis, Delivery!DeliveryInv, Delivery!TypeOK, Delivery!KeysAreCounted, Delivery!HandsAreServed,
              Delivery!JobsAreCounted, Delivery!ClosedHasSomeJob, Delivery!Keys, Delivery!Unsettled
<1> QED BY <1>2, <1>3, <1>4

\* Every step of publish delivery keeps its invariant, whatever the number of workers.
LEMMA DeliveryNext ==
  ASSUME Delivery!DeliveryInv, Delivery!Next
  PROVE  Delivery!DeliveryInv'
<1> DEFINE Status == {"pending", "processing", "processed", "failed"}
           Count  == 0..MaxAttempts
<1>1. /\ event \in [status : Status, attempts : Count, live : BOOLEAN, key : 0..MaxCrashes]
      /\ MaxCrashes \in Nat /\ MaxAttempts \in Nat \ {0} /\ JobAttempts \in Nat \ {0}
      /\ event.key \in 0..MaxCrashes /\ event.attempts \in Count /\ 0 \in Count /\ "pending" \in Status
  BY BoundsAssumption DEF Delivery!DeliveryInv, Delivery!TypeOK, Delivery!Keys
<1>2. ASSUME NEW k \in Delivery!Keys, Delivery!StartJob(k) PROVE Delivery!DeliveryInv'
  BY <1>1, <1>2 DEF Delivery!StartJob, Delivery!DeliveryInv, Delivery!TypeOK, Delivery!KeysAreCounted, Delivery!HandsAreServed,
              Delivery!JobsAreCounted, Delivery!ClosedHasSomeJob, Delivery!Keys, Delivery!Unsettled
<1>3. ASSUME NEW k \in Delivery!Keys, Delivery!EndJob(k) PROVE Delivery!DeliveryInv'
  BY <1>1, <1>3 DEF Delivery!EndJob, Delivery!DeliveryInv, Delivery!TypeOK, Delivery!KeysAreCounted, Delivery!HandsAreServed,
              Delivery!JobsAreCounted, Delivery!ClosedHasSomeJob, Delivery!Keys, Delivery!Unsettled
<1>4. ASSUME NEW k \in Delivery!Keys, Delivery!RetryJob(k) PROVE Delivery!DeliveryInv'
  <2>1. /\ tries \in [0..MaxCrashes -> 0..JobAttempts] /\ k \in 0..MaxCrashes /\ tries[k] < JobAttempts
        /\ commandJobs \in [0..MaxCrashes -> {"absent", "waiting", "active", "ended", "exhausted"}]
    BY <1>4 DEF Delivery!RetryJob, Delivery!DeliveryInv, Delivery!TypeOK, Delivery!JobsAreCounted, Delivery!Keys
  <2>2. tries[k] + 1 \in 0..JobAttempts
    BY <1>1, <2>1
  <2>3. /\ tries' = [tries EXCEPT ![k] = tries[k] + 1]
        /\ commandJobs' = [commandJobs EXCEPT ![k] = IF tries[k] + 1 < JobAttempts THEN "waiting" ELSE "exhausted"]
    BY <1>4, <2>1 DEF Delivery!RetryJob
  <2>4. Delivery!TypeOK'
    BY <1>4, <2>1, <2>2, <2>3 DEF Delivery!RetryJob, Delivery!DeliveryInv, Delivery!TypeOK, Delivery!Keys
  <2>5. Delivery!JobsAreCounted'
    BY <1>4, <2>1, <2>2, <2>3 DEF Delivery!RetryJob, Delivery!DeliveryInv, Delivery!JobsAreCounted, Delivery!Keys
  <2> QED BY <1>1, <1>4, <2>1, <2>3, <2>4, <2>5 DEF Delivery!RetryJob, Delivery!DeliveryInv, Delivery!KeysAreCounted,
          Delivery!HandsAreServed, Delivery!JobsAreCounted, Delivery!ClosedHasSomeJob, Delivery!Keys
<1>5. CASE Delivery!LeaseExpires
  <2>1. event' \in [status : Status, attempts : Count, live : BOOLEAN, key : 0..MaxCrashes]
        /\ event'.status = event.status /\ event'.key = event.key
    <3> HIDE DEF Status, Count
    <3> QED BY <1>1, <1>5, EventRow DEF Delivery!LeaseExpires
  <2> QED BY <1>1, <1>5, <2>1 DEF Delivery!LeaseExpires, Delivery!DeliveryInv, Delivery!TypeOK, Delivery!KeysAreCounted, Delivery!HandsAreServed,
              Delivery!JobsAreCounted, Delivery!ClosedHasSomeJob, Delivery!Keys, Delivery!Unsettled
<1>6. CASE Delivery!Retry
  <2>1. event' \in [status : Status, attempts : Count, live : BOOLEAN, key : 0..MaxCrashes]
        /\ event'.status = "pending" /\ event'.key = event.key
    <3> HIDE DEF Status, Count
    <3> QED BY <1>1, <1>6, EventRow DEF Delivery!Retry
  <2> QED BY <1>1, <1>6, <2>1 DEF Delivery!Retry, Delivery!DeliveryInv, Delivery!TypeOK, Delivery!KeysAreCounted, Delivery!HandsAreServed,
              Delivery!JobsAreCounted, Delivery!ClosedHasSomeJob, Delivery!Keys, Delivery!Unsettled
<1>7. CASE Delivery!CancelTarget
  BY <1>1, <1>7 DEF Delivery!CancelTarget, Delivery!DeliveryInv, Delivery!TypeOK, Delivery!KeysAreCounted, Delivery!HandsAreServed,
              Delivery!JobsAreCounted, Delivery!ClosedHasSomeJob, Delivery!Keys, Delivery!Unsettled
<1> QED BY <1>2, <1>3, <1>4, <1>5, <1>6, <1>7, DispatcherKeeps, RecoveryKeeps DEF Delivery!Next

\* With one worker the message in hand is of the event as it is, so a processed event has the job of its own key.
LEMMA DeliveryHand ==
  ASSUME \A v, w \in Workers : v = w,
         Delivery!DeliveryInv, Delivery!HandIsCurrent, Delivery!ProcessedHasJob, Delivery!Next
  PROVE  Delivery!HandIsCurrent' /\ Delivery!ProcessedHasJob'
<1> DEFINE Status == {"pending", "processing", "processed", "failed"}
           Count  == 0..MaxAttempts
<1>1. /\ event \in [status : Status, attempts : Count, live : BOOLEAN, key : 0..MaxCrashes]
      /\ event.key \in 0..MaxCrashes
      /\ commandJobs \in [0..MaxCrashes -> {"absent", "waiting", "active", "ended", "exhausted"}]
      /\ hand \in [Workers -> [key : 0..MaxCrashes, at : {"add", "complete", "fail"}] \cup {NoMessage}]
      /\ losses \in Nat /\ MaxCrashes \in Nat
  BY BoundsAssumption DEF Delivery!DeliveryInv, Delivery!TypeOK, Delivery!Keys
<1>2. ASSUME NEW w \in Workers, Delivery!DispatcherStep(w) PROVE Delivery!HandIsCurrent' /\ Delivery!ProcessedHasJob'
  <2>1. event'.key = event.key /\ (event'.status = "processed" => event.status = "processed" \/ Delivery!Complete(w))
    BY <1>1, <1>2 DEF Delivery!DispatcherStep, Delivery!ClaimAvailable, Delivery!AddJob, Delivery!AddJobFails, Delivery!Complete,
       Delivery!Fail
  <2>2. \A k \in Delivery!Keys : commandJobs[k] # "absent" => commandJobs'[k] # "absent"
    BY <1>1, <1>2 DEF Delivery!DispatcherStep, Delivery!ClaimAvailable, Delivery!AddJob, Delivery!AddJobFails, Delivery!Complete,
       Delivery!Fail, Delivery!Keys
  <2>3. Delivery!HandIsCurrent'
    <3>1. hand'[w] = NoMessage \/ hand'[w].key = event.key
      BY <1>1, <1>2 DEF Delivery!DispatcherStep, Delivery!ClaimAvailable, Delivery!AddJob, Delivery!AddJobFails,
         Delivery!Complete, Delivery!Fail, Delivery!HandIsCurrent
    <3> QED BY <2>1, <3>1 DEF Delivery!HandIsCurrent
  <2>4. Delivery!Complete(w) => commandJobs[event.key] # "absent"
    BY DEF Delivery!Complete, Delivery!DeliveryInv, Delivery!HandsAreServed, Delivery!HandIsCurrent
  <2>5. losses' = losses
    BY <1>2 DEF Delivery!DispatcherStep, Delivery!ClaimAvailable, Delivery!AddJob, Delivery!AddJobFails, Delivery!Complete,
       Delivery!Fail
  <2> QED BY <1>1, <2>1, <2>2, <2>3, <2>4, <2>5 DEF Delivery!ProcessedHasJob, Delivery!Keys
<1>3. ASSUME NEW w \in Workers, Delivery!Start(w) PROVE Delivery!HandIsCurrent' /\ Delivery!ProcessedHasJob'
  <2>1. \A v \in Workers : hand'[v] = NoMessage
    BY <1>3 DEF Delivery!Start, Delivery!DeliveryInv, Delivery!HandsAreServed
  <2>2. event' = event \/ event'.status = "pending"
    BY <1>3 DEF Delivery!Start, Delivery!Recovered
  <2> QED BY <1>3, <2>1, <2>2 DEF Delivery!Start, Delivery!HandIsCurrent, Delivery!ProcessedHasJob
<1>4. ASSUME NEW w \in Workers, Delivery!Crash(w) PROVE Delivery!HandIsCurrent' /\ Delivery!ProcessedHasJob'
  BY <1>1, <1>4 DEF Delivery!Crash, Delivery!HandIsCurrent, Delivery!ProcessedHasJob
<1>5. CASE Delivery!LoseRedis
  BY <1>1, <1>5 DEF Delivery!LoseRedis, Delivery!HandIsCurrent, Delivery!ProcessedHasJob
<1>6. CASE Delivery!CancelTarget \/ \E k \in Delivery!Keys : Delivery!StartJob(k) \/ Delivery!EndJob(k) \/ Delivery!RetryJob(k)
  BY <1>1, <1>6 DEF Delivery!CancelTarget, Delivery!StartJob, Delivery!EndJob, Delivery!RetryJob, Delivery!HandIsCurrent,
     Delivery!ProcessedHasJob, Delivery!Keys
<1>7. CASE Delivery!LeaseExpires \/ Delivery!Retry
  BY <1>1, <1>7 DEF Delivery!LeaseExpires, Delivery!Retry, Delivery!HandIsCurrent, Delivery!ProcessedHasJob
<1> QED BY <1>2, <1>3, <1>4, <1>5, <1>6, <1>7 DEF Delivery!Next

\* What the invariant says to a reader.
LEMMA DeliveryImplies == Delivery!DeliveryInv => Delivery!TypeOK /\ Delivery!OneJobWithoutCrash /\ Delivery!NeverForgotten
<1> SUFFICES ASSUME Delivery!DeliveryInv PROVE Delivery!OneJobWithoutCrash /\ Delivery!NeverForgotten
  BY DEF Delivery!DeliveryInv
<1>1. Delivery!OneJobWithoutCrash
  <2> SUFFICES ASSUME crashes = 0, NEW k \in Delivery!Keys \ {0}, commandJobs[k] # "absent" PROVE FALSE
    BY DEF Delivery!OneJobWithoutCrash
  <2>1. k \in Nat /\ k > 0 /\ event.key \in Nat /\ k <= event.key
    BY BoundsAssumption DEF Delivery!Keys, Delivery!DeliveryInv, Delivery!TypeOK, Delivery!HandsAreServed
  <2>2. Delivery!Cardinality(Workers \ up) \in Nat
    <3>1. Delivery!Cardinality(Workers \ up) = Cardinality(Workers \ up)
      BY DEF Delivery!Cardinality, Cardinality
    <3> QED BY <3>1, DeliveryAssumption, FS_Difference, FS_CardinalityType
  <2> QED BY <2>1, <2>2 DEF Delivery!DeliveryInv, Delivery!KeysAreCounted
<1>2. Delivery!NeverForgotten
  BY DEF Delivery!NeverForgotten, Delivery!DeliveryInv, Delivery!ClosedHasSomeJob, Delivery!JobsAreCounted, Delivery!TypeOK,
     Delivery!Unsettled
<1> QED BY <1>1, <1>2

(* Research runs.                                                          *)

\* It holds before any research was asked for.
LEMMA ResearchInit == Research!Init => Research!ResearchInv
  BY BoundsAssumption DEF Research!Init, Research!ResearchInv, Research!TypeOK, Research!RunStatus, Research!MaxStalled

\* What the commits of a run and the ends of an attempt do, for one run.
LEMMA ResearchStep ==
  ASSUME Research!ResearchInv, NEW s \in ResearchIds,
         \/ Research!StartResearch(s) \/ Research!Enqueue(s) \/ Research!EnqueueLost(s)
         \/ Research!HandlerStep(s) \/ Research!Crash(s)
  PROVE  Research!ResearchInv' /\ Research!CompletedIsFinal
<1>1. /\ ResearchAttempts \in Nat \ {0} /\ MaxEdits \in Nat
      /\ run \in [ResearchIds -> Research!RunStatus] /\ researchJobs \in [ResearchIds -> 0..ResearchAttempts]
      /\ researchPc \in [ResearchIds -> {"idle", "enqueue", "loaded", "research", "caught", "latest", "saved"}]
      /\ current \subseteq ResearchIds /\ stalls \in [ResearchIds -> 0..1] /\ edits \in 0..MaxEdits
      /\ status \in {"open", "closed"}
  BY BoundsAssumption DEF Research!ResearchInv, Research!TypeOK, Research!MaxStalled
<1>2. /\ researchPc[s] \in {"loaded", "research", "caught", "latest", "saved"} => researchJobs[s] > 0
      /\ researchPc[s] \in {"loaded", "research", "caught", "latest"} => run[s] # "completed"
  BY DEF Research!ResearchInv
<1>3. researchJobs[s] > 0 => researchJobs[s] - 1 \in 0..ResearchAttempts
  BY <1>1
<1>4. CASE Research!StartResearch(s)
  BY <1>1, <1>2, <1>3, <1>4 DEF Research!StartResearch, Research!Goto, Research!SaveRun,
     Research!ResearchInv, Research!TypeOK, Research!RunStatus, Research!MaxStalled, Research!CompletedIsFinal
<1>5. CASE Research!Enqueue(s)
  BY <1>1, <1>2, <1>3, <1>5 DEF Research!Enqueue, Research!Goto,
     Research!ResearchInv, Research!TypeOK, Research!RunStatus, Research!MaxStalled, Research!CompletedIsFinal
<1>6. CASE Research!EnqueueLost(s)
  BY <1>1, <1>2, <1>3, <1>6 DEF Research!EnqueueLost, Research!Goto,
     Research!ResearchInv, Research!TypeOK, Research!RunStatus, Research!MaxStalled, Research!CompletedIsFinal
<1>7. CASE Research!AlreadyCompleted(s)
  BY <1>1, <1>2, <1>3, <1>7 DEF Research!AlreadyCompleted, Research!Goto, Research!EndJob,
     Research!ResearchInv, Research!TypeOK, Research!RunStatus, Research!MaxStalled, Research!CompletedIsFinal
<1>8. CASE Research!Load(s)
  BY <1>1, <1>2, <1>3, <1>8 DEF Research!Load, Research!Goto,
     Research!ResearchInv, Research!TypeOK, Research!RunStatus, Research!MaxStalled, Research!CompletedIsFinal
<1>9. CASE Research!MarkResearchRunning(s)
  BY <1>1, <1>2, <1>3, <1>9 DEF Research!MarkResearchRunning, Research!Goto, Research!SaveRun,
     Research!ResearchInv, Research!TypeOK, Research!RunStatus, Research!MaxStalled, Research!CompletedIsFinal
<1>10. CASE Research!FailInterrupted(s)
  BY <1>1, <1>2, <1>3, <1>10 DEF Research!FailInterrupted, Research!Goto, Research!SaveRun, Research!EndJob,
     Research!ResearchInv, Research!TypeOK, Research!RunStatus, Research!MaxStalled, Research!CompletedIsFinal
<1>11. CASE Research!SaveRefused(s)
  BY <1>1, <1>2, <1>3, <1>11 DEF Research!SaveRefused, Research!Goto, Research!EndAttempt,
     Research!ResearchInv, Research!TypeOK, Research!RunStatus, Research!MaxStalled, Research!CompletedIsFinal
<1>12. CASE Research!CompleteResearch(s)
  BY <1>1, <1>2, <1>3, <1>12 DEF Research!CompleteResearch, Research!Goto, Research!SaveRun,
     Research!ResearchInv, Research!TypeOK, Research!RunStatus, Research!MaxStalled, Research!CompletedIsFinal
<1>13. CASE Research!Return(s)
  BY <1>1, <1>2, <1>3, <1>13 DEF Research!Return, Research!Goto, Research!EndJob,
     Research!ResearchInv, Research!TypeOK, Research!RunStatus, Research!MaxStalled, Research!CompletedIsFinal
<1>14. CASE Research!ResearchError(s)
  BY <1>1, <1>2, <1>3, <1>14 DEF Research!ResearchError, Research!Goto,
     Research!ResearchInv, Research!TypeOK, Research!RunStatus, Research!MaxStalled, Research!CompletedIsFinal
<1>15. CASE Research!GetLatest(s)
  BY <1>1, <1>2, <1>3, <1>15 DEF Research!GetLatest, Research!Goto,
     Research!ResearchInv, Research!TypeOK, Research!RunStatus, Research!MaxStalled, Research!CompletedIsFinal
<1>16. CASE Research!FailResearch(s)
  BY <1>1, <1>2, <1>3, <1>16 DEF Research!FailResearch, Research!Goto, Research!SaveRun, Research!EndJob, Research!EndAttempt,
     Research!ResearchInv, Research!TypeOK, Research!RunStatus, Research!MaxStalled, Research!CompletedIsFinal
<1>17. CASE Research!Crash(s)
  BY <1>1, <1>2, <1>3, <1>17 DEF Research!Crash, Research!Goto, Research!EndJob,
     Research!ResearchInv, Research!TypeOK, Research!RunStatus, Research!MaxStalled, Research!CompletedIsFinal
<1> QED BY <1>4, <1>5, <1>6, <1>7, <1>8, <1>9, <1>10, <1>11, <1>12, <1>13, <1>14, <1>15, <1>16, <1>17 DEF Research!HandlerStep

\* Every step keeps the invariant and leaves a completed run alone.
LEMMA ResearchNext ==
  ASSUME Research!ResearchInv, Research!Next
  PROVE  Research!ResearchInv' /\ Research!CompletedIsFinal
<1>1. CASE Research!OtherCommit
  BY <1>1, BoundsAssumption DEF Research!OtherCommit, Research!ResearchInv, Research!TypeOK, Research!CompletedIsFinal
<1> QED BY <1>1, ResearchStep DEF Research!Next

(* The local Codex bridge.  A stream is read line by line, so what the     *)
(* reader holds after n lines is proved for the least n it could fail for. *)

\* Every non-empty set of numbers has a least one.
LEMMA LeastNumber ==
  ASSUME NEW T \in SUBSET Nat, T # {}
  PROVE  \E x \in T : \A y \in T : x <= y
<1> DEFINE Less == OpToRel(<, Nat)
<1>1. Less = {ss \in Nat \X Nat : ss[1] < ss[2]}
  BY Zenon DEF OpToRel
<1>2. IsWellFoundedOn(Less, Nat)
  BY NatLessThanWellFounded, Zenon
<1> HIDE DEF Less
<1>3. \E x \in T : \A y \in T : ~(<<y, x>> \in Less)
  BY <1>2, WFMin, T \subseteq Nat, Zenon
<1>4. \A x, y \in Nat : <<y, x>> \notin Less => x <= y
  BY <1>1, SMT
<1> QED BY <1>3, <1>4

\* The loop is the function its recursive definition says it is.
LEMMA LinesAreRead ==
  ASSUME NEW o \in Seq(Bridge!EventKinds), NEW search \in BOOLEAN
  PROVE  Bridge!readLines(o, search)
           = [n \in 0..Len(o) |-> IF n = 0 THEN Bridge!StreamStart
                                  ELSE Bridge!readEvent(search, Bridge!readLines(o, search)[n - 1], o[n])]
<1> DEFINE Line(g, n) == IF n = 0 THEN Bridge!StreamStart ELSE Bridge!readEvent(search, g[n - 1], o[n])
           Reads(g, m) == g = [n \in 0..m |-> Line(g, n)]
           Never == {m \in 0..Len(o) : ~\E g : Reads(g, m)}
<1>1. Len(o) \in Nat
  OBVIOUS
<1>2. Never = {}
  <2> SUFFICES ASSUME Never # {} PROVE FALSE
    OBVIOUS
  <2>1. PICK m \in Never : \A k \in Never : m <= k
    <3>1. Never \in SUBSET Nat
      BY <1>1
    <3> HIDE DEF Never
    <3> QED BY <3>1, LeastNumber
  <2>2. CASE m = 0
    <3>1. Reads([n \in 0..0 |-> Bridge!StreamStart], 0)
      OBVIOUS
    <3> QED BY <2>1, <2>2, <3>1
  <2>3. CASE m # 0
    <3>0. m \in 0..Len(o)
      BY <2>1
    <3>1. m - 1 \in 0..Len(o) /\ m - 1 \notin Never
      <4> HIDE DEF Never
      <4> QED BY <1>1, <2>1, <2>3, <3>0
    <3>2. PICK g : Reads(g, m - 1)
      BY <3>1
    <3> DEFINE h == [n \in 0..m |-> IF n < m THEN g[n] ELSE Bridge!readEvent(search, g[m - 1], o[m])]
    <3>3. \A n \in 0..m : h[n] = Line(h, n)
      <4> SUFFICES ASSUME NEW n \in 0..m PROVE h[n] = Line(h, n)
        OBVIOUS
      <4>1. CASE n < m
        <5>1. n \in 0..(m - 1) /\ h[n] = g[n] /\ g[n] = Line(g, n)
          BY <1>1, <2>1, <2>3, <3>2, <4>1
        <5>2. n # 0 => n - 1 \in 0..m /\ h[n - 1] = g[n - 1]
          BY <1>1, <2>1, <4>1
        <5> QED BY <5>1, <5>2
      <4>2. CASE n = m
        <5>1. m \in 0..m /\ m - 1 \in 0..m /\ m - 1 < m /\ ~(m < m) /\ m \in Nat
          BY <1>1, <2>1, <2>3
        <5>2. h[m - 1] = g[m - 1] /\ h[m] = Bridge!readEvent(search, g[m - 1], o[m])
          BY <5>1
        <5> HIDE DEF h
        <5> QED BY <2>3, <4>2, <5>2
      <4> QED BY <1>1, <2>1, <4>1, <4>2
    <3>4. Reads(h, m)
      BY <3>3
    <3> QED BY <2>1, <3>4
  <2> QED BY <2>2, <2>3
<1>3. \E g : Reads(g, Len(o))
  BY <1>1, <1>2
<1>4. Bridge!readLines(o, search) = CHOOSE g : Reads(g, Len(o))
  BY DEF Bridge!readLines
<1>5. Reads(Bridge!readLines(o, search), Len(o))
  BY <1>3, <1>4
<1> QED BY <1>5

\* A stream that makes an answer is a whole turn: a message and the completion were printed, no tool was used, nothing
\* failed, and the web was searched exactly when the run was one of research.
LEMMA AnswerIsWhole ==
  ASSUME NEW o \in Seq(Bridge!EventKinds), NEW search \in BOOLEAN,
         Bridge!completionFromEvents(o, search) = "answer",
         search \/ \A i \in DOMAIN o : o[i] # "search"
  PROVE  LET printed == {o[i] : i \in DOMAIN o} IN
         /\ {"message", "completed"} \subseteq printed
         /\ printed \cap {"tool", "failed", "junk"} = {}
         /\ search <=> "search" \in printed
<1> DEFINE State == [started : BOOLEAN, id : BOOLEAN, text : BOOLEAN, completed : BOOLEAN, searched : BOOLEAN, bad : BOOLEAN]
           lines == Bridge!readLines(o, search)
           Told(n) ==
             /\ lines[n] \in State
             /\ ~lines[n].bad => \A i \in 1..n : o[i] \notin {"tool", "failed", "junk"}
             /\ lines[n].text => \E i \in 1..n : o[i] = "message"
             /\ lines[n].completed => \E i \in 1..n : o[i] = "completed"
             /\ lines[n].searched => \E i \in 1..n : o[i] = "search"
           Untold == {n \in 0..Len(o) : ~Told(n)}
<1>1. Len(o) \in Nat /\ DOMAIN o = 1..Len(o) /\ \A i \in 1..Len(o) : o[i] \in Bridge!EventKinds
  OBVIOUS
<1>2. \A n \in 0..Len(o) : lines[n] = IF n = 0 THEN Bridge!StreamStart ELSE Bridge!readEvent(search, lines[n - 1], o[n])
  BY LinesAreRead
<1>3. ASSUME NEW z \in State, NEW e \in Bridge!EventKinds, NEW y, y = Bridge!readEvent(search, z, e)
      PROVE  /\ y \in State
             /\ ~y.bad => ~z.bad /\ e \notin {"tool", "failed", "junk"}
             /\ y.text => z.text \/ e = "message"
             /\ y.completed => z.completed \/ e = "completed"
             /\ y.searched => z.searched \/ e = "search"
  <2>1. CASE e \in {"thread", "turn", "message", "completed"}
    BY <1>3, <2>1 DEF Bridge!readEvent
  <2>2. CASE e \in {"notice", "search", "reasoning"}
    BY <1>3, <2>2 DEF Bridge!readEvent
  <2>3. CASE e \in {"tool", "failed", "junk"}
    BY <1>3, <2>3 DEF Bridge!readEvent
  <2> QED BY <2>1, <2>2, <2>3 DEF Bridge!EventKinds
<1> HIDE DEF State, lines
<1>4. Untold = {}
  <2> SUFFICES ASSUME Untold # {} PROVE FALSE
    OBVIOUS
  <2>1. PICK n \in Untold : \A k \in Untold : n <= k
    <3>1. Untold \in SUBSET Nat
      BY <1>1
    <3> HIDE DEF Untold
    <3> QED BY <3>1, LeastNumber
  <2>2. CASE n = 0
    <3>1. lines[0] = Bridge!StreamStart
      BY <1>1, <1>2
    <3>2. /\ lines[0] \in State /\ ~lines[0].text /\ ~lines[0].completed /\ ~lines[0].searched
          /\ \A i \in 1..0 : FALSE
      BY <3>1 DEF Bridge!StreamStart, State
    <3>3. Told(0)
      BY <3>2
    <3> QED BY <2>1, <2>2, <3>3
  <2>3. CASE n # 0
    <3>1. n - 1 \in 0..Len(o) /\ Told(n - 1) /\ n \in 1..Len(o)
      BY <1>1, <2>1, <2>3
    <3>2. lines[n] = Bridge!readEvent(search, lines[n - 1], o[n]) /\ o[n] \in Bridge!EventKinds
      BY <1>1, <1>2, <2>3, <3>1
    <3>3. \A i \in 1..n : i = n \/ i \in 1..(n - 1)
      BY <3>1
    <3>4. n \in 1..n /\ \A i \in 1..(n - 1) : i \in 1..n
      BY <3>1
    <3> DEFINE before == lines[n - 1]
    <3>5. /\ lines[n] \in State
          /\ ~lines[n].bad => ~before.bad /\ o[n] \notin {"tool", "failed", "junk"}
          /\ lines[n].text => before.text \/ o[n] = "message"
          /\ lines[n].completed => before.completed \/ o[n] = "completed"
          /\ lines[n].searched => before.searched \/ o[n] = "search"
      <4>1. before \in State
        BY <3>1
      <4> HIDE DEF before
      <4>2. lines[n] = Bridge!readEvent(search, before, o[n]) /\ o[n] \in Bridge!EventKinds
        BY <3>2 DEF before
      <4> QED BY <1>3, <4>1, <4>2
    <3>6. ~lines[n].bad => \A i \in 1..n : o[i] \notin {"tool", "failed", "junk"}
      BY <3>1, <3>3, <3>5
    <3>7. /\ lines[n].text => \E i \in 1..n : o[i] = "message"
          /\ lines[n].completed => \E i \in 1..n : o[i] = "completed"
          /\ lines[n].searched => \E i \in 1..n : o[i] = "search"
      BY <3>1, <3>4, <3>5
    <3>8. Told(n)
      BY <3>5, <3>6, <3>7
    <3> QED BY <2>1, <3>8
  <2> QED BY <2>2, <2>3
<1>5. Told(Len(o))
  BY <1>1, <1>4
<1>6. /\ ~lines[Len(o)].bad /\ lines[Len(o)].completed /\ lines[Len(o)].text
      /\ search => lines[Len(o)].searched
  BY DEF Bridge!completionFromEvents, lines
<1> QED BY <1>1, <1>5, <1>6

\* A request that has not come yet.
LEMMA NewRequest == Bridge!NoRequestYet \in Bridge!BridgeRequest
<1>1. /\ "new" \in Bridge!Stages /\ "unknown" \in Bridge!Routes /\ "text" \in Bridge!Bodies /\ "none" \in Bridge!Children
      /\ "" \in Bridge!Failures /\ 0 \in Bridge!Codes /\ <<>> \in Bridge!Streams /\ "none" \in Bridge!Results
      /\ 0 \in Bridge!Replies
  BY DEF Bridge!Stages, Bridge!Routes, Bridge!Bodies, Bridge!Children, Bridge!Failures, Bridge!Codes, Bridge!Streams,
     Bridge!Results, Bridge!Replies
<1> QED BY <1>1 DEF Bridge!NoRequestYet, Bridge!BridgeRequest

\* An answer depends on how the child ended, on its stream and on what was asked for.
LEMMA SameRun ==
  ASSUME NEW q, NEW p, p.failure = q.failure, p.code = q.code, p.output = q.output, p.route = q.route
  PROVE  (Bridge!RanThrough(p) <=> Bridge!RanThrough(q)) /\ (Bridge!Answers(p) <=> Bridge!Answers(q))
  BY Zenon DEF Bridge!RanThrough, Bridge!Answers

\* The bridge is free before the first request.
LEMMA BridgeInit == Bridge!CodexInit => Bridge!CodexInv
<1> SUFFICES ASSUME Bridge!CodexInit PROVE Bridge!CodexInv
  OBVIOUS
<1>1. \A r \in BridgeRequests : request[r] = Bridge!NoRequestYet
  BY DEF Bridge!CodexInit
<1>2. Bridge!NoRequestYet.pc = "new" /\ Bridge!StepsAgree(Bridge!NoRequestYet)
  <2>1. /\ Bridge!NoRequestYet.pc = "new" /\ Bridge!NoRequestYet.child = "none" /\ Bridge!NoRequestYet.result = "none"
        /\ Bridge!NoRequestYet.reply = 0
    BY DEF Bridge!NoRequestYet
  <2> QED BY <2>1 DEF Bridge!StepsAgree, Bridge!Inside
<1>3. Bridge!CodexTypeOK
  BY NewRequest DEF Bridge!CodexInit, Bridge!CodexTypeOK
<1> QED BY <1>1, <1>2, <1>3 DEF Bridge!CodexInit, Bridge!CodexInv, Bridge!BusyIsHeld, Bridge!Inside

\* A request inside goes on, and the flag stays up.
LEMMA BridgeGoesOn ==
  ASSUME Bridge!CodexInv, NEW r \in BridgeRequests, Bridge!Inside(request[r]),
         NEW q \in Bridge!BridgeRequest, Bridge!Inside(q), Bridge!StepsAgree(q), Bridge!move(r, q)
  PROVE  Bridge!CodexInv'
<1>1. /\ request \in [BridgeRequests -> Bridge!BridgeRequest] /\ request' = [request EXCEPT ![r] = q]
      /\ busy' = busy /\ listening' = listening
  BY DEF Bridge!CodexInv, Bridge!CodexTypeOK, Bridge!move
<1>2. \A v \in BridgeRequests : request'[v] = (IF v = r THEN q ELSE request[v]) /\ (Bridge!Inside(request'[v]) <=> Bridge!Inside(request[v]))
  BY <1>1
<1>3. Bridge!CodexTypeOK'
  BY <1>1 DEF Bridge!CodexInv, Bridge!CodexTypeOK
<1>4. Bridge!BusyIsHeld'
  BY <1>1, <1>2 DEF Bridge!CodexInv, Bridge!BusyIsHeld
<1>5. \A v \in BridgeRequests : Bridge!StepsAgree(request'[v])
  BY <1>2 DEF Bridge!CodexInv
<1> QED BY <1>3, <1>4, <1>5 DEF Bridge!CodexInv

\* A request inside ends, and releases the flag.
LEMMA BridgeEnds ==
  ASSUME Bridge!CodexInv, NEW r \in BridgeRequests, Bridge!Inside(request[r]),
         NEW q \in Bridge!BridgeRequest, Bridge!StepsAgree(q), NEW code \in {200, 400, 502},
         code = 200 => q.pc = "cleanup" /\ q.result = "answer",
         Bridge!finish(r, q, code)
  PROVE  Bridge!CodexInv'
<1> DEFINE e == Bridge!ended(q, Bridge!replyOf(q, code))
<1>1. e \in Bridge!BridgeRequest /\ e.pc = "done" /\ Bridge!StepsAgree(e)
  <2>1. "done" \in Bridge!Stages /\ q.cwd \in BOOLEAN
    BY DEF Bridge!Stages, Bridge!BridgeRequest
  <2>2. CASE Bridge!replyOf(q, code) = 200
    <3>1. code = 200 /\ 200 \in Bridge!Replies
      BY <2>2 DEF Bridge!replyOf, Bridge!Replies
    <3>2. e = [q EXCEPT !.pc = "done", !.reply = 200]
      BY <2>2 DEF Bridge!ended
    <3> HIDE DEF e
    <3>3. /\ e \in Bridge!BridgeRequest /\ e.pc = "done" /\ e.reply = 200 /\ e.child = q.child /\ e.result = q.result
          /\ e.failure = q.failure /\ e.code = q.code /\ e.output = q.output /\ e.route = q.route
      <4> DEFINE done == "done"  ok == 200
      <4>1. ok \in Bridge!Replies /\ done \in Bridge!Stages /\ e = [q EXCEPT !.pc = done, !.reply = ok]
        BY <2>1, <3>1, <3>2
      <4> HIDE DEF done, ok
      <4>2. /\ e \in Bridge!BridgeRequest /\ e.pc = done /\ e.reply = ok /\ e.child = q.child /\ e.result = q.result
            /\ e.failure = q.failure /\ e.code = q.code /\ e.output = q.output /\ e.route = q.route
        BY <4>1 DEF Bridge!BridgeRequest
      <4> QED BY <4>2, Zenon DEF done, ok
    <3>4. (Bridge!RanThrough(e) <=> Bridge!RanThrough(q)) /\ (Bridge!Answers(e) <=> Bridge!Answers(q))
      BY <3>3, SameRun
    <3> QED BY <3>1, <3>3, <3>4 DEF Bridge!StepsAgree, Bridge!Inside
  <2>3. CASE Bridge!replyOf(q, code) # 200
    <3> DEFINE answer == Bridge!replyOf(q, code)
    <3>1. answer \in Bridge!Replies /\ answer # 200
      BY <2>3 DEF Bridge!replyOf, Bridge!Replies
    <3>2. e = [Bridge!NoRequestYet EXCEPT !.pc = "done", !.cwd = q.cwd, !.reply = answer]
      BY <2>3 DEF Bridge!ended
    <3> HIDE DEF e, answer
    <3>3. e \in Bridge!BridgeRequest /\ e.pc = "done" /\ e.reply = answer /\ e.child = "none"
      <4> DEFINE n == Bridge!NoRequestYet  done == "done"
      <4>1. n \in Bridge!BridgeRequest /\ n.child = "none"
        BY NewRequest DEF Bridge!NoRequestYet
      <4>2. e = [n EXCEPT !.pc = done, !.cwd = q.cwd, !.reply = answer] /\ done \in Bridge!Stages
        BY <2>1, <3>2
      <4> HIDE DEF n, done
      <4>3. e \in Bridge!BridgeRequest /\ e.pc = done /\ e.reply = answer /\ e.child = n.child
        BY <2>1, <3>1, <4>1, <4>2 DEF Bridge!BridgeRequest
      <4> QED BY <4>1, <4>3 DEF done
    <3> QED BY <3>1, <3>3 DEF Bridge!StepsAgree, Bridge!Inside
  <2> QED BY <2>2, <2>3
<1>2. /\ request \in [BridgeRequests -> Bridge!BridgeRequest] /\ request' = [request EXCEPT ![r] = e]
      /\ busy' = FALSE /\ listening' = listening
  BY DEF Bridge!CodexInv, Bridge!CodexTypeOK, Bridge!finish
<1> HIDE DEF e
<1>3. \A v \in BridgeRequests : request'[v] = (IF v = r THEN e ELSE request[v]) /\ ~Bridge!Inside(request'[v])
  <2>1. \A v \in BridgeRequests : v # r => ~Bridge!Inside(request[v])
    BY DEF Bridge!CodexInv, Bridge!BusyIsHeld
  <2> QED BY <1>1, <1>2, <2>1 DEF Bridge!Inside
<1>4. Bridge!CodexTypeOK'
  BY <1>1, <1>2 DEF Bridge!CodexInv, Bridge!CodexTypeOK
<1>5. Bridge!BusyIsHeld'
  BY <1>2, <1>3 DEF Bridge!BusyIsHeld
<1>6. \A v \in BridgeRequests : Bridge!StepsAgree(request'[v])
  BY <1>1, <1>3 DEF Bridge!CodexInv
<1> QED BY <1>4, <1>5, <1>6 DEF Bridge!CodexInv

\* The same for a step that says what becomes of the request.
LEMMA BridgeMoves ==
  ASSUME Bridge!CodexInv, NEW r \in BridgeRequests, Bridge!Inside(request[r]),
         NEW p \in Bridge!BridgeRequest, Bridge!Inside(p), Bridge!move(r, p),
         p.reply = request[r].reply, p.route = request[r].route, p.child = "live" => p.pc = "run",
         p.pc = "events" => Bridge!RanThrough(p),
         p.pc = "cleanup" /\ p.result = "answer" => Bridge!RanThrough(p) /\ Bridge!Answers(p)
  PROVE  Bridge!CodexInv'
<1>1. request[r].reply = 0 /\ request[r].route # "models"
  BY DEF Bridge!CodexInv, Bridge!StepsAgree
<1>2. Bridge!StepsAgree(p)
  BY <1>1 DEF Bridge!StepsAgree, Bridge!Inside
<1> QED BY <1>2, BridgeGoesOn

\* The handler of a request.
LEMMA BridgeHandler ==
  ASSUME Bridge!CodexInv, NEW r \in BridgeRequests, Bridge!Handler(r)
  PROVE  Bridge!CodexInv'
<1> DEFINE q == request[r]
           check == "check"  spawn == "spawn"  inputs == "inputs"  cleanup == "cleanup"  running == "run"  error == "error"
           live == "live"  cancelled == "cancelled"  unstarted == "not started"  unstopped == ""
           closed == "closed"  events == "events"
<1>1. q \in Bridge!BridgeRequest /\ Bridge!StepsAgree(q)
  BY DEF Bridge!CodexInv, Bridge!CodexTypeOK
<1>2. /\ {check, spawn, inputs, cleanup, running, events} \subseteq Bridge!Stages /\ error \in Bridge!Results
      /\ {live, closed} \subseteq Bridge!Children /\ {cancelled, unstarted, unstopped} \subseteq Bridge!Failures
  BY DEF Bridge!Stages, Bridge!Results, Bridge!Children, Bridge!Failures
<1>3. /\ \A x \in {check, spawn, inputs, cleanup, running, events} : x \notin {"new", "done"}
      /\ \A x \in {check, spawn, inputs, cleanup} : x # "run" /\ x # "events"
      /\ check # "cleanup" /\ spawn # "cleanup" /\ inputs # "cleanup" /\ error # "answer"
      /\ running = "run" /\ events # "cleanup" /\ running # "cleanup" /\ running # "events" /\ closed # "live"
  OBVIOUS
<1> HIDE DEF q, check, spawn, inputs, cleanup, running, error, live, cancelled, unstarted, unstopped, closed, events
<1>4. CASE Bridge!ReadBody(r)
  <2>1. Bridge!Inside(q) /\ q.child # "live"
    BY <1>1, <1>4 DEF Bridge!ReadBody, Bridge!Inside, Bridge!StepsAgree, q
  <2>2. \/ Bridge!finish(r, q, 502)
        \/ Bridge!finish(r, q, 400)
        \/ Bridge!move(r, [q EXCEPT !.pc = check])
    BY <1>4 DEF Bridge!ReadBody, Bridge!invalidJson, Bridge!move, q, check
  <2>3. ASSUME NEW p, p = [q EXCEPT !.pc = check], Bridge!move(r, p) PROVE Bridge!CodexInv'
    <3>1. p \in Bridge!BridgeRequest /\ p.pc = check /\ p.reply = q.reply /\ p.route = q.route /\ p.child = q.child
      BY <1>1, <1>2, <2>3 DEF Bridge!BridgeRequest
    <3> QED BY <1>3, <2>1, <2>3, <3>1, BridgeMoves DEF Bridge!Inside, q
  <2> QED BY <1>1, <2>1, <2>2, <2>3, BridgeEnds DEF q
<1>5. CASE Bridge!CheckRequest(r)
  <2>1. Bridge!Inside(q) /\ q.child # "live"
    BY <1>1, <1>5 DEF Bridge!CheckRequest, Bridge!Inside, Bridge!StepsAgree, q
  <2>2. \/ Bridge!finish(r, q, 502)
        \/ \E x \in {spawn, inputs} : Bridge!move(r, [q EXCEPT !.cwd = TRUE, !.pc = x])
    BY <1>5 DEF Bridge!CheckRequest, q, spawn, inputs
  <2>3. ASSUME NEW x \in {spawn, inputs}, NEW p, p = [q EXCEPT !.cwd = TRUE, !.pc = x], Bridge!move(r, p) PROVE Bridge!CodexInv'
    <3>1. p \in Bridge!BridgeRequest /\ p.pc = x /\ p.reply = q.reply /\ p.route = q.route /\ p.child = q.child
      BY <1>1, <1>2, <2>3 DEF Bridge!BridgeRequest
    <3> QED BY <1>3, <2>1, <2>3, <3>1, BridgeMoves DEF Bridge!Inside, q
  <2> QED BY <1>1, <2>1, <2>2, <2>3, BridgeEnds DEF q
<1>6. CASE Bridge!runCompletion(r)
  <2>1. Bridge!Inside(q) /\ q.child # "live"
    BY <1>1, <1>6 DEF Bridge!runCompletion, Bridge!Inside, Bridge!StepsAgree, q
  <2>2. \/ Bridge!move(r, [q EXCEPT !.pc = spawn])
        \/ Bridge!move(r, [q EXCEPT !.pc = cleanup, !.result = error])
    BY <1>6 DEF Bridge!runCompletion, q, spawn, cleanup, error
  <2>3. ASSUME NEW p, p = [q EXCEPT !.pc = spawn], Bridge!move(r, p) PROVE Bridge!CodexInv'
    <3>1. p \in Bridge!BridgeRequest /\ p.pc = spawn /\ p.reply = q.reply /\ p.route = q.route /\ p.child = q.child
      BY <1>1, <1>2, <2>3 DEF Bridge!BridgeRequest
    <3> QED BY <1>3, <2>1, <2>3, <3>1, BridgeMoves DEF Bridge!Inside, q
  <2>4. ASSUME NEW p, p = [q EXCEPT !.pc = cleanup, !.result = error], Bridge!move(r, p) PROVE Bridge!CodexInv'
    <3>1. /\ p \in Bridge!BridgeRequest /\ p.pc = cleanup /\ p.result = error
          /\ p.reply = q.reply /\ p.route = q.route /\ p.child = q.child
      BY <1>1, <1>2, <2>4 DEF Bridge!BridgeRequest
    <3> QED BY <1>3, <2>1, <2>4, <3>1, BridgeMoves DEF Bridge!Inside, q
  <2> QED BY <2>2, <2>3, <2>4
<1>7. CASE Bridge!processResult(r)
  <2>1. Bridge!Inside(q)
    BY <1>7 DEF Bridge!processResult, Bridge!Inside, q
  <2>2. \E f \in {cancelled, unstarted, unstopped} : Bridge!move(r, [q EXCEPT !.pc = running, !.child = live, !.failure = f])
    BY <1>7 DEF Bridge!processResult, q, running, live, cancelled, unstarted, unstopped
  <2>3. ASSUME NEW f \in {cancelled, unstarted, unstopped}, NEW p,
               p = [q EXCEPT !.pc = running, !.child = live, !.failure = f], Bridge!move(r, p)
        PROVE  Bridge!CodexInv'
    <3>1. p \in Bridge!BridgeRequest /\ p.pc = running /\ p.reply = q.reply /\ p.route = q.route
      BY <1>1, <1>2, <2>3 DEF Bridge!BridgeRequest
    <3> QED BY <1>3, <2>1, <2>3, <3>1, BridgeMoves DEF Bridge!Inside, q
  <2> QED BY <2>2, <2>3
<1>8. CASE Bridge!Close(r)
  <2>1. Bridge!Inside(q)
    BY <1>8 DEF Bridge!Close, Bridge!Inside, q
  <2>2. PICK code \in Bridge!Codes : LET x == Bridge!outcomeOfClose(q, code)
                                       p == [q EXCEPT !.child = closed, !.code = code, !.pc = x] IN
          \/ p.pc = cleanup /\ Bridge!move(r, [p EXCEPT !.result = error])
          \/ /\ p.pc = events
             /\ \E o \in Bridge!PrintableUnder(Bridge!commandArgs(q.route = "research")) : Bridge!move(r, [p EXCEPT !.output = o])
    BY <1>8, Zenon DEF Bridge!Close, q, closed, cleanup, events, error
  <2>3. PICK x \in {cleanup, events} : x = Bridge!outcomeOfClose(q, code) /\ (x = events => q.failure = "" /\ code = 0)
    BY <1>3 DEF Bridge!outcomeOfClose, cleanup, events
  <2>4. PICK p : p = [q EXCEPT !.child = closed, !.code = code, !.pc = x]
    OBVIOUS
  <2>5. \/ p.pc = cleanup /\ Bridge!move(r, [p EXCEPT !.result = error])
        \/ /\ p.pc = events
           /\ \E o \in Bridge!PrintableUnder(Bridge!commandArgs(q.route = "research")) : Bridge!move(r, [p EXCEPT !.output = o])
    BY <2>2, <2>3, <2>4, Zenon
  <2>6. /\ p \in Bridge!BridgeRequest /\ p.pc = x /\ p.child = closed /\ p.code = code /\ p.failure = q.failure
        /\ p.reply = q.reply /\ p.route = q.route
    BY <1>1, <1>2, <2>3, <2>4 DEF Bridge!BridgeRequest
  <2>7. ASSUME NEW n, n = [p EXCEPT !.result = error], Bridge!move(r, n), p.pc = cleanup PROVE Bridge!CodexInv'
    <3>1. /\ n \in Bridge!BridgeRequest /\ n.pc = cleanup /\ n.result = error /\ n.child = closed
          /\ n.reply = q.reply /\ n.route = q.route
      BY <1>2, <2>6, <2>7 DEF Bridge!BridgeRequest
    <3> QED BY <1>3, <2>1, <2>7, <3>1, BridgeMoves DEF Bridge!Inside, q
  <2>8. ASSUME NEW o \in Bridge!PrintableUnder(Bridge!commandArgs(q.route = "research")), NEW n,
               n = [p EXCEPT !.output = o], Bridge!move(r, n), p.pc = events
        PROVE  Bridge!CodexInv'
    <3>1. o \in Bridge!Streams
      BY Zenon DEF Bridge!PrintableUnder, Bridge!Streams
    <3>2. /\ n \in Bridge!BridgeRequest /\ n.pc = events /\ n.child = closed /\ n.code = p.code /\ n.failure = p.failure
          /\ n.output = o /\ n.reply = q.reply /\ n.route = q.route
      BY <2>6, <2>8, <3>1 DEF Bridge!BridgeRequest
    <3>3. n.failure = "" /\ n.code = 0
      BY <1>3, <2>3, <2>6, <2>8, <3>2
    <3>4. Bridge!RanThrough(n)
      BY <3>2, <3>3, Zenon DEF Bridge!RanThrough
    <3> QED BY <1>3, <2>1, <2>8, <3>2, <3>4, BridgeMoves DEF Bridge!Inside, q
  <2> QED BY <2>5, <2>7, <2>8
<1>9. CASE Bridge!ReadEvents(r)
  <2>1. Bridge!Inside(q) /\ q.child # "live" /\ Bridge!RanThrough(q)
    BY <1>1, <1>9 DEF Bridge!ReadEvents, Bridge!Inside, Bridge!StepsAgree, q
  <2>2. PICK made : made = Bridge!completionFromEvents(q.output, q.route = "research")
    OBVIOUS
  <2>3. made \in Bridge!Results /\ (made = "answer" => Bridge!Answers(q))
    <3>1. made = "answer" \/ made = "error"
      BY <2>2 DEF Bridge!completionFromEvents
    <3>2. made = "answer" => Bridge!Answers(q)
      BY <2>2, Zenon DEF Bridge!Answers
    <3> QED BY <3>1, <3>2 DEF Bridge!Results
  <2>4. PICK p : p = [q EXCEPT !.pc = cleanup, !.result = made]
    OBVIOUS
  <2>5. Bridge!move(r, p)
    BY <1>9, <2>2, <2>4, Zenon DEF Bridge!ReadEvents, q, cleanup
  <2>6. /\ p \in Bridge!BridgeRequest /\ p.pc = cleanup /\ p.result = made /\ p.child = q.child /\ p.failure = q.failure
        /\ p.code = q.code /\ p.output = q.output /\ p.reply = q.reply /\ p.route = q.route
    BY <1>1, <1>2, <2>3, <2>4 DEF Bridge!BridgeRequest
  <2>7. (Bridge!RanThrough(p) <=> Bridge!RanThrough(q)) /\ (Bridge!Answers(p) <=> Bridge!Answers(q))
    BY <2>6, SameRun
  <2> QED BY <1>3, <2>1, <2>3, <2>5, <2>6, <2>7, BridgeMoves DEF Bridge!Inside, q
<1>10. CASE Bridge!runResearch(r)
  <2>1. Bridge!Inside(q) /\ q.pc = "cleanup" /\ q.child # "live"
    BY <1>1, <1>10 DEF Bridge!runResearch, Bridge!Inside, Bridge!StepsAgree, q
  <2>2. PICK p : p = [q EXCEPT !.cwd = FALSE]
    OBVIOUS
  <2>3. PICK code \in {200, 502} : (code = 200 => q.result = "answer") /\ (Bridge!finish(r, p, code) \/ Bridge!finish(r, q, 502))
    BY <1>10, <2>2 DEF Bridge!runResearch, q
  <2>4. /\ p \in Bridge!BridgeRequest /\ p.pc = q.pc /\ p.result = q.result /\ p.child = q.child /\ p.failure = q.failure
        /\ p.code = q.code /\ p.output = q.output /\ p.reply = q.reply /\ p.route = q.route
    BY <1>1, <2>2 DEF Bridge!BridgeRequest
  <2>5. (Bridge!RanThrough(p) <=> Bridge!RanThrough(q)) /\ (Bridge!Answers(p) <=> Bridge!Answers(q))
    BY <2>4, SameRun
  <2>6. Bridge!StepsAgree(p)
    BY <1>1, <2>4, <2>5 DEF Bridge!StepsAgree, Bridge!Inside
  <2> QED BY <1>1, <2>1, <2>3, <2>4, <2>6, BridgeEnds DEF q
<1> QED BY <1>4, <1>5, <1>6, <1>7, <1>8, <1>9, <1>10 DEF Bridge!Handler

\* What a client that goes away does to its request.
LEMMA BridgeGone ==
  ASSUME NEW q \in Bridge!BridgeRequest, Bridge!StepsAgree(q), Bridge!Inside(q), NEW p
  PROVE  p = [q EXCEPT !.gone = TRUE, !.failure = IF q.pc = "run" /\ @ = "" THEN "cancelled" ELSE @]
           => p \in Bridge!BridgeRequest /\ p.pc = q.pc /\ Bridge!StepsAgree(p)
<1>0. SUFFICES ASSUME p = [q EXCEPT !.gone = TRUE, !.failure = IF q.pc = "run" /\ @ = "" THEN "cancelled" ELSE @]
               PROVE  p \in Bridge!BridgeRequest /\ p.pc = q.pc /\ Bridge!StepsAgree(p)
  OBVIOUS
<1>1. PICK f \in Bridge!Failures : f = (IF q.pc = "run" /\ q.failure = "" THEN "cancelled" ELSE q.failure)
  BY DEF Bridge!BridgeRequest, Bridge!Failures
<1>2. p = [q EXCEPT !.gone = TRUE, !.failure = f]
  BY <1>0, <1>1
<1>3. /\ p \in Bridge!BridgeRequest /\ p.pc = q.pc /\ p.failure = f /\ p.code = q.code /\ p.output = q.output
      /\ p.route = q.route /\ p.reply = q.reply /\ p.result = q.result /\ p.child = q.child
  BY <1>2 DEF Bridge!BridgeRequest
<1>4. CASE q.pc = "run"
  BY <1>3, <1>4 DEF Bridge!StepsAgree, Bridge!Inside
<1>5. CASE q.pc # "run"
  <2>1. p.failure = q.failure
    BY <1>1, <1>3, <1>5
  <2>2. (Bridge!RanThrough(p) <=> Bridge!RanThrough(q)) /\ (Bridge!Answers(p) <=> Bridge!Answers(q))
    BY <1>3, <2>1, SameRun
  <2> QED BY <1>3, <2>2 DEF Bridge!StepsAgree, Bridge!Inside
<1> QED BY <1>3, <1>4, <1>5

\* A request that arrives: it is refused, or it takes a bridge that was free.
LEMMA BridgeTaken ==
  ASSUME Bridge!CodexInv, NEW r \in BridgeRequests, Bridge!createBridge(r)
  PROVE  Bridge!CodexInv'
<1>0. PICK route \in Bridge!Routes, kind \in Bridge!Bodies, code \in Bridge!Replies :
        /\ code = 0 => ~busy /\ route # "models"
        /\ IF code # 0
           THEN /\ request' = [request EXCEPT ![r].pc = "done", ![r].reply = code, ![r].route = IF code = 200 THEN "models" ELSE @]
                /\ UNCHANGED busy
           ELSE /\ request' = [request EXCEPT ![r].pc = "body", ![r].route = route, ![r].body = kind]
                /\ busy' = TRUE
        /\ UNCHANGED listening
  <2>1. ASSUME NEW auth \in BOOLEAN, NEW json \in BOOLEAN, NEW route \in Bridge!Routes
        PROVE  \E code \in Bridge!Replies :
                 code = Bridge!refusal(auth, route, json) /\ (code = 0 => ~busy /\ route # "models")
    BY DEF Bridge!refusal, Bridge!Replies
  <2>2. PICK auth \in BOOLEAN, json \in BOOLEAN, route \in Bridge!Routes, kind \in Bridge!Bodies :
          /\ IF Bridge!refusal(auth, route, json) # 0
             THEN /\ request' = [request EXCEPT ![r].pc = "done", ![r].reply = Bridge!refusal(auth, route, json),
                                    ![r].route = IF Bridge!refusal(auth, route, json) = 200 THEN "models" ELSE @]
                  /\ UNCHANGED busy
             ELSE /\ request' = [request EXCEPT ![r].pc = "body", ![r].route = route, ![r].body = kind]
                  /\ busy' = TRUE
    BY DEF Bridge!createBridge, Bridge!takeBridge
  <2>3. PICK code \in Bridge!Replies :
          code = Bridge!refusal(auth, route, json) /\ (code = 0 => ~busy /\ route # "models")
    BY <2>1
  <2>4. listening' = listening
    BY DEF Bridge!createBridge
  <2> QED BY <2>2, <2>3, <2>4
<1> DEFINE q == request[r]  done == "done"  body == "body"  models == "models"  nothing == 0  ok == 200
<1>1. q \in Bridge!BridgeRequest
  BY DEF Bridge!CodexInv, Bridge!CodexTypeOK
<1>2. {done, body} \subseteq Bridge!Stages /\ models \in Bridge!Routes
  BY DEF Bridge!Stages, Bridge!Routes
<1>3. Bridge!StepsAgree(q) /\ q.pc = "new" /\ q.reply = 0 /\ q.child # "live"
  BY DEF Bridge!CodexInv, Bridge!createBridge, Bridge!StepsAgree
<1>4. /\ code = nothing => ~busy /\ route # "models"
      /\ IF code # nothing
         THEN /\ request' = [request EXCEPT ![r].pc = done, ![r].reply = code, ![r].route = IF code = ok THEN models ELSE @]
              /\ busy' = busy
         ELSE /\ request' = [request EXCEPT ![r].pc = body, ![r].route = route, ![r].body = kind]
              /\ busy' = TRUE
      /\ listening' = listening
  BY <1>0
<1>5. done = "done" /\ body = "body" /\ models = "models" /\ nothing = 0
  OBVIOUS
<1> HIDE DEF q, done, body, models, nothing, ok
<1>6. CASE code # nothing
  <2>1. PICK to \in Bridge!Routes : to = (IF code = ok THEN models ELSE q.route)
    BY <1>1, <1>2 DEF Bridge!BridgeRequest
  <2>2. PICK p : p = [q EXCEPT !.pc = done, !.reply = code, !.route = to]
    OBVIOUS
  <2>3. p \in Bridge!BridgeRequest /\ p.pc = done /\ p.reply = code /\ p.route = to /\ p.child = q.child /\ p.result = q.result
    BY <1>1, <1>2, <2>2 DEF Bridge!BridgeRequest
  <2>4. p.reply = 200 => p.route = "models"
    BY <1>5, <2>1, <2>3 DEF ok
  <2>5. Bridge!StepsAgree(p) /\ ~Bridge!Inside(p) /\ ~Bridge!Inside(q)
    BY <1>3, <1>5, <2>3, <2>4 DEF Bridge!StepsAgree, Bridge!Inside
  <2>6. /\ request \in [BridgeRequests -> Bridge!BridgeRequest] /\ request' = [request EXCEPT ![r] = p]
        /\ busy' = busy /\ listening' = listening
    BY <1>4, <1>6, <2>1, <2>2 DEF Bridge!CodexInv, Bridge!CodexTypeOK, q
  <2>7. \A v \in BridgeRequests : request'[v] = (IF v = r THEN p ELSE request[v]) /\ (Bridge!Inside(request'[v]) <=> Bridge!Inside(request[v]))
    BY <2>5, <2>6 DEF q
  <2>8. Bridge!CodexTypeOK'
    BY <2>3, <2>6 DEF Bridge!CodexInv, Bridge!CodexTypeOK
  <2>9. Bridge!BusyIsHeld'
    BY <2>6, <2>7 DEF Bridge!CodexInv, Bridge!BusyIsHeld
  <2>10. \A v \in BridgeRequests : Bridge!StepsAgree(request'[v])
    BY <2>5, <2>7 DEF Bridge!CodexInv
  <2> QED BY <2>8, <2>9, <2>10 DEF Bridge!CodexInv
<1>7. CASE code = nothing
  <2>1. PICK p : p = [q EXCEPT !.pc = body, !.route = route, !.body = kind]
    OBVIOUS
  <2>2. p \in Bridge!BridgeRequest /\ p.pc = body /\ p.reply = q.reply /\ p.route = route /\ p.child = q.child
    BY <1>1, <1>2, <2>1 DEF Bridge!BridgeRequest
  <2>3. Bridge!StepsAgree(p) /\ Bridge!Inside(p)
    BY <1>3, <1>4, <1>5, <1>7, <2>2 DEF Bridge!StepsAgree, Bridge!Inside
  <2>4. /\ request \in [BridgeRequests -> Bridge!BridgeRequest] /\ request' = [request EXCEPT ![r] = p]
        /\ busy' = TRUE /\ listening' = listening
    BY <1>4, <1>7, <2>1 DEF Bridge!CodexInv, Bridge!CodexTypeOK, q
  <2>5. \A v \in BridgeRequests : ~Bridge!Inside(request[v])
    BY <1>4, <1>7 DEF Bridge!CodexInv, Bridge!BusyIsHeld
  <2>6. \A v \in BridgeRequests : request'[v] = (IF v = r THEN p ELSE request[v]) /\ (Bridge!Inside(request'[v]) <=> v = r)
    BY <2>3, <2>4, <2>5
  <2>7. Bridge!CodexTypeOK'
    BY <2>2, <2>4 DEF Bridge!CodexInv, Bridge!CodexTypeOK
  <2>8. Bridge!BusyIsHeld'
    BY <2>4, <2>6 DEF Bridge!BusyIsHeld
  <2>9. \A v \in BridgeRequests : Bridge!StepsAgree(request'[v])
    BY <2>3, <2>6 DEF Bridge!CodexInv
  <2> QED BY <2>7, <2>8, <2>9 DEF Bridge!CodexInv
<1> QED BY <1>6, <1>7

\* Every step of the bridge.
LEMMA BridgeNext == Bridge!CodexInv /\ [Bridge!CodexNext]_bridgeVars => Bridge!CodexInv'
<1> SUFFICES ASSUME Bridge!CodexInv, [Bridge!CodexNext]_bridgeVars PROVE Bridge!CodexInv'
  OBVIOUS
<1>1. ASSUME NEW r \in BridgeRequests, Bridge!cancel(r) PROVE Bridge!CodexInv'
  <2>1. request[r] \in Bridge!BridgeRequest /\ Bridge!StepsAgree(request[r]) /\ Bridge!Inside(request[r])
    BY <1>1 DEF Bridge!CodexInv, Bridge!CodexTypeOK, Bridge!cancel, Bridge!Inside
  <2>2. PICK p : /\ p = [request[r] EXCEPT !.gone = TRUE, !.failure = IF request[r].pc = "run" /\ @ = "" THEN "cancelled" ELSE @]
                 /\ Bridge!move(r, p)
    BY <1>1, Zenon DEF Bridge!cancel
  <2>3. p \in Bridge!BridgeRequest /\ p.pc = request[r].pc /\ Bridge!StepsAgree(p)
    BY <2>1, <2>2, BridgeGone
  <2> QED BY <2>1, <2>2, <2>3, BridgeGoesOn DEF Bridge!Inside
<1>2. ASSUME NEW r \in BridgeRequests, NEW reason \in {"timed out", "limit"}, Bridge!stop(r, reason) PROVE Bridge!CodexInv'
  <2>1. request[r] \in Bridge!BridgeRequest /\ request[r].pc = "run" /\ reason \in Bridge!Failures
    BY <1>2 DEF Bridge!CodexInv, Bridge!CodexTypeOK, Bridge!stop, Bridge!Failures
  <2>2. PICK p : p = [request[r] EXCEPT !.failure = reason] /\ Bridge!move(r, p)
    BY <1>2, Zenon DEF Bridge!stop
  <2>3. /\ p \in Bridge!BridgeRequest /\ p.pc = "run" /\ p.reply = request[r].reply /\ p.route = request[r].route
    BY <2>1, <2>2 DEF Bridge!BridgeRequest
  <2> QED BY <2>1, <2>2, <2>3, BridgeMoves DEF Bridge!Inside
<1>3. CASE Bridge!shutdown
  <2> DEFINE Gone(q) == [q EXCEPT !.gone = TRUE, !.failure = IF q.pc = "run" /\ @ = "" THEN "cancelled" ELSE @]
  <2>1. /\ request \in [BridgeRequests -> Bridge!BridgeRequest] /\ busy' = busy /\ listening' = FALSE
        /\ request' = [r \in BridgeRequests |-> IF Bridge!Inside(request[r]) THEN Gone(request[r]) ELSE request[r]]
    BY <1>3 DEF Bridge!CodexInv, Bridge!CodexTypeOK, Bridge!shutdown, Bridge!Inside
  <2> HIDE DEF Gone
  <2>2. ASSUME NEW r \in BridgeRequests
        PROVE  request'[r] \in Bridge!BridgeRequest /\ request'[r].pc = request[r].pc /\ Bridge!StepsAgree(request'[r])
    <3>1. request[r] \in Bridge!BridgeRequest /\ Bridge!StepsAgree(request[r])
      BY DEF Bridge!CodexInv, Bridge!CodexTypeOK
    <3>2. CASE Bridge!Inside(request[r])
      <4>1. PICK p : p = Gone(request[r]) /\ request'[r] = p
        BY <2>1, <3>2
      <4>2. p \in Bridge!BridgeRequest /\ p.pc = request[r].pc /\ Bridge!StepsAgree(p)
        BY <3>1, <3>2, <4>1, BridgeGone DEF Gone
      <4> QED BY <4>1, <4>2
    <3>3. CASE ~Bridge!Inside(request[r])
      BY <2>1, <3>1, <3>3
    <3> QED BY <3>2, <3>3
  <2>3. request' \in [BridgeRequests -> Bridge!BridgeRequest] /\ \A r \in BridgeRequests : Bridge!Inside(request'[r]) <=> Bridge!Inside(request[r])
    <3>1. \E f : request' = [r \in BridgeRequests |-> f[r]]
      <4>1. request' = [r \in BridgeRequests |-> request'[r]]
        BY <2>1
      <4> QED BY <4>1
    <3> QED BY <2>2, <3>1 DEF Bridge!Inside
  <2>4. Bridge!CodexTypeOK'
    BY <2>1, <2>3 DEF Bridge!CodexInv, Bridge!CodexTypeOK
  <2>5. Bridge!BusyIsHeld'
    BY <2>1, <2>3 DEF Bridge!CodexInv, Bridge!BusyIsHeld
  <2> QED BY <2>2, <2>4, <2>5 DEF Bridge!CodexInv
<1>4. CASE UNCHANGED bridgeVars
  BY <1>4 DEF bridgeVars, Bridge!CodexInv, Bridge!CodexTypeOK, Bridge!BusyIsHeld, Bridge!StepsAgree, Bridge!RanThrough,
     Bridge!Answers, Bridge!Inside
<1> QED BY <1>1, <1>2, <1>3, <1>4, BridgeTaken, BridgeHandler DEF Bridge!CodexNext

\* What the invariant of the bridge says of its requests.
LEMMA BridgeImplies ==
  ASSUME Bridge!CodexInv
  PROVE  Bridge!CodexTypeOK /\ Bridge!OneCompletionAtATime /\ Bridge!AnswersAreComplete
<1>1. Bridge!CodexTypeOK
  BY DEF Bridge!CodexInv
<1>2. Bridge!OneCompletionAtATime
  <2> DEFINE Live == {r \in BridgeRequests : request[r].child = "live"}
  <2>1. \A r, s \in BridgeRequests : Bridge!Inside(request[r]) /\ Bridge!Inside(request[s]) => r = s
    BY DEF Bridge!CodexInv, Bridge!BusyIsHeld
  <2>2. \A r, s \in Live : r = s
    BY <2>1 DEF Bridge!CodexInv, Bridge!StepsAgree, Bridge!Inside
  <2> HIDE DEF Live
  <2>3. Live = {} \/ \E r : Live = {r}
    BY <2>2
  <2>4. Cardinality(Live) <= 1
    <3>1. CASE Live = {}
      <4>1. Cardinality(Live) = 0
        BY <3>1, FS_EmptySet
      <4> QED BY <4>1
    <3>2. ASSUME NEW r, Live = {r} PROVE Cardinality(Live) <= 1
      <4>1. Cardinality(Live) = 1
        BY <3>2, FS_Singleton
      <4> QED BY <4>1
    <3> QED BY <2>3, <3>1, <3>2
  <2>5. Bridge!Cardinality(Live) = Cardinality(Live)
    BY DEF Bridge!Cardinality, Cardinality
  <2> QED BY <2>1, <2>4, <2>5 DEF Bridge!OneCompletionAtATime, Bridge!Inside, Live
<1>3. ASSUME NEW r \in BridgeRequests, request[r].reply = 200, request[r].route # "models"
      PROVE  LET q == request[r]  printed == {q.output[i] : i \in DOMAIN q.output} IN
             /\ q.failure = "" /\ q.code = 0
             /\ {"message", "completed"} \subseteq printed
             /\ printed \cap {"tool", "failed", "junk"} = {}
             /\ (q.route = "research") <=> ("search" \in printed)
  <2> DEFINE q == request[r]  searching == q.route = "research"
  <2>1. Bridge!RanThrough(q) /\ Bridge!Answers(q)
    BY <1>3 DEF Bridge!CodexInv, Bridge!StepsAgree
  <2>2. /\ q.failure = "" /\ q.code = 0
        /\ q.output \in Bridge!PrintableUnder(Bridge!commandArgs(searching))
        /\ Bridge!completionFromEvents(q.output, searching) = "answer"
    BY <2>1, Zenon DEF Bridge!RanThrough, Bridge!Answers
  <2>3. PICK research \in BOOLEAN : research = searching
    OBVIOUS
  <2>4. PICK o : o = q.output
    OBVIOUS
  <2>5. /\ o \in Outputs /\ Bridge!completionFromEvents(o, research) = "answer"
        /\ research \/ \A i \in DOMAIN o : o[i] # "search"
    <3>1. o \in Bridge!PrintableUnder([web_search |-> research]) /\ Bridge!completionFromEvents(o, research) = "answer"
      BY <2>2, <2>3, <2>4, Zenon DEF Bridge!commandArgs
    <3> QED BY <3>1 DEF Bridge!PrintableUnder
  <2>6. LET printed == {o[i] : i \in DOMAIN o} IN
        /\ {"message", "completed"} \subseteq printed
        /\ printed \cap {"tool", "failed", "junk"} = {}
        /\ research <=> "search" \in printed
    BY <2>5, BridgeAssumption, AnswerIsWhole
  <2>7. {q.output[i] : i \in DOMAIN q.output} = {o[i] : i \in DOMAIN o}
    BY <2>4
  <2> QED BY <2>2, <2>3, <2>6, <2>7
<1> QED BY <1>1, <1>2, <1>3 DEF Bridge!AnswersAreComplete

-----------------------------------------------------------------------------
(* Proofs.  Page capture.                                                  *)

\* How many handlers are at a step.
HandlersAt(h, s) == Cardinality({r \in PageRequests : h[r] = s})

\* How the numbers change when one handler moves.
LEMMA HandlerMoves ==
  ASSUME NEW h \in [PageRequests -> Capture!HandlerSteps], NEW r \in PageRequests, NEW b \in Capture!HandlerSteps,
         NEW g \in [PageRequests -> Capture!HandlerSteps], NEW s,
         \A x \in PageRequests : g[x] = IF x = r THEN b ELSE h[x]
  PROVE  /\ HandlersAt(h, s) \in Nat /\ HandlersAt(g, s) \in Nat
         /\ h[r] = s /\ b # s => HandlersAt(g, s) + 1 = HandlersAt(h, s)
         /\ h[r] # s /\ b = s => HandlersAt(g, s) = HandlersAt(h, s) + 1
         /\ h[r] # s /\ b # s => HandlersAt(g, s) = HandlersAt(h, s)
<1> DEFINE H == {x \in PageRequests : h[x] = s}
           G == {x \in PageRequests : g[x] = s}
<1>1. IsFiniteSet(H) /\ IsFiniteSet(G) /\ Cardinality(H) \in Nat /\ Cardinality(G) \in Nat
  BY CaptureAssumption, FS_Subset, FS_CardinalityType
<1>2. HandlersAt(h, s) = Cardinality(H) /\ HandlersAt(g, s) = Cardinality(G)
  BY DEF HandlersAt
<1>3. ASSUME h[r] = s, b # s PROVE Cardinality(G) + 1 = Cardinality(H)
  <2>1. G = H \ {r} /\ r \in H
    BY <1>3
  <2> HIDE DEF G, H
  <2>2. Cardinality(G) = Cardinality(H) - 1
    BY <1>1, <2>1, FS_RemoveElement
  <2> QED BY <1>1, <2>2
<1>4. ASSUME h[r] # s, b = s PROVE Cardinality(G) = Cardinality(H) + 1
  <2>1. G = H \cup {r} /\ r \notin H
    BY <1>4
  <2> HIDE DEF G, H
  <2> QED BY <1>1, <2>1, FS_AddElement
<1>5. ASSUME h[r] # s, b # s PROVE G = H
  BY <1>5
<1> HIDE DEF G, H
<1> QED BY <1>1, <1>2, <1>3, <1>4, <1>5

\* The invariant of the capture, with its sets counted.
LEMMA CaptureCounted ==
  ASSUME Capture!CaptureInv
  PROVE  /\ handler \in [PageRequests -> Capture!HandlerSteps] /\ waiting \in Seq(PageRequests)
         /\ active \in Nat /\ active = HandlersAt(handler, "fetching") /\ active <= Limit
         /\ seen \in Nat /\ seen + HandlersAt(handler, "none") = Cardinality(PageRequests)
         /\ waiting # <<>> => active + HandlersAt(handler, "entering") >= Limit
         /\ \A s : HandlersAt(handler, s) \in Nat
<1>1. \A S : Capture!Cardinality(S) = Cardinality(S)
  BY DEF Capture!Cardinality, Cardinality
<1>2. Cardinality(PageRequests) \in Nat
  BY CaptureAssumption, FS_CardinalityType
<1>3. ASSUME NEW s PROVE HandlersAt(handler, s) \in Nat
  <2>1. IsFiniteSet({r \in PageRequests : handler[r] = s})
    BY CaptureAssumption, FS_Subset
  <2> QED BY <2>1, FS_CardinalityType DEF HandlersAt
<1>4. /\ handler \in [PageRequests -> Capture!HandlerSteps] /\ waiting \in Seq(PageRequests)
      /\ active \in Nat /\ seen \in Nat /\ active <= Limit
  BY <1>1, <1>2 DEF Capture!CaptureInv, Capture!CaptureTypeOK, Capture!FetchesAreCounted
<1>5. \A s : HandlersAt(handler, s) = Capture!Cardinality(Capture!At(s))
  BY <1>1 DEF HandlersAt, Capture!At
<1>6. active = HandlersAt(handler, "fetching")
  BY <1>1 DEF Capture!CaptureInv, Capture!FetchesAreCounted, HandlersAt
<1> QED BY <1>1, <1>3, <1>4, <1>5, <1>6 DEF Capture!CaptureInv, Capture!PlacesAreTaken

\* What a step must show.
LEMMA CaptureKept ==
  ASSUME page' \in 1..(Pages + 1), capturePc' \in {"launch", "goto", "settle", "extract", "screenshot", "store", "close", "done"},
         outcome' \in [1..Pages -> {"none", "stored", "failed"}], capturePc' # "done" <=> page' <= Pages,
         bytes' \in 0..(MaxBytes + 1), stopped' \in BOOLEAN, timedOut' \in BOOLEAN,
         handler' \in [PageRequests -> Capture!HandlerSteps], waiting' \in Seq(PageRequests), Capture!SleepersWait',
         active' = HandlersAt(handler', "fetching"), active' <= Limit,
         seen' \in Nat, seen' + HandlersAt(handler', "none") = Cardinality(PageRequests),
         waiting' # <<>> => active' + HandlersAt(handler', "entering") >= Limit
  PROVE  Capture!CaptureInv'
<1>1. \A S : Capture!Cardinality(S) = Cardinality(S)
  BY DEF Capture!Cardinality, Cardinality
<1>2. Cardinality(PageRequests) \in Nat
  BY CaptureAssumption, FS_CardinalityType
<1>3. ASSUME NEW s PROVE HandlersAt(handler', s) \in Nat /\ HandlersAt(handler', s) <= Cardinality(PageRequests)
  <2>1. {r \in PageRequests : handler'[r] = s} \in SUBSET PageRequests
    OBVIOUS
  <2> QED BY <2>1, CaptureAssumption, FS_Subset, FS_CardinalityType DEF HandlersAt
<1>4. active' \in 0..Cardinality(PageRequests)
  BY <1>2, <1>3
<1>5. seen' \in 0..Cardinality(PageRequests)
  BY <1>2, <1>3
<1>6. Capture!CaptureTypeOK'
  BY <1>1, <1>4, <1>5 DEF Capture!CaptureTypeOK
<1>7. Capture!FetchesAreCounted'
  BY <1>1 DEF Capture!FetchesAreCounted, HandlersAt
<1>8. Capture!Cardinality(Capture!At("none")') = HandlersAt(handler', "none") /\ Capture!Cardinality(PageRequests) = Cardinality(PageRequests)
  BY <1>1 DEF Capture!At, HandlersAt
<1>9. Capture!PlacesAreTaken'
  <2>1. Capture!Cardinality(Capture!At("entering")') = HandlersAt(handler', "entering")
    BY <1>1 DEF Capture!At, HandlersAt
  <2> QED BY <2>1 DEF Capture!PlacesAreTaken
<1> QED BY <1>6, <1>7, <1>8, <1>9 DEF Capture!CaptureInv

\* Every capture starts with nothing counted.
LEMMA FreshHandlers ==
  /\ HandlersAt([r \in PageRequests |-> "none"], "none") = Cardinality(PageRequests)
  /\ \A s : s # "none" => HandlersAt([r \in PageRequests |-> "none"], s) = 0
<1> DEFINE h == [r \in PageRequests |-> "none"]
<1>1. {r \in PageRequests : h[r] = "none"} = PageRequests
  OBVIOUS
<1>2. ASSUME NEW s, s # "none" PROVE {r \in PageRequests : h[r] = s} = {}
  BY <1>2
<1>3. Cardinality({}) = 0
  BY FS_EmptySet
<1> QED BY <1>1, <1>2, <1>3 DEF HandlersAt

\* A capture that has not begun.
LEMMA CaptureInit == Capture!CaptureInit => Capture!CaptureInv
<1> SUFFICES ASSUME Capture!CaptureInit PROVE Capture!CaptureInv
  OBVIOUS
<1>1. \A S : Capture!Cardinality(S) = Cardinality(S)
  BY DEF Capture!Cardinality, Cardinality
<1>2. Cardinality(PageRequests) \in Nat
  BY CaptureAssumption, FS_CardinalityType
<1>3. \A s : HandlersAt(handler, s) = Capture!Cardinality(Capture!At(s))
  BY <1>1 DEF HandlersAt, Capture!At
<1>4. HandlersAt(handler, "none") = Cardinality(PageRequests) /\ HandlersAt(handler, "fetching") = 0
  <2>1. handler = [r \in PageRequests |-> "none"] /\ "fetching" # "none"
    BY DEF Capture!CaptureInit
  <2> QED BY <2>1, FreshHandlers, Zenon
<1>5. Capture!CaptureTypeOK
  <2>1. /\ handler \in [PageRequests -> Capture!HandlerSteps] /\ waiting \in Seq(PageRequests)
        /\ outcome \in [1..Pages -> {"none", "stored", "failed"}]
    BY DEF Capture!CaptureInit, Capture!HandlerSteps
  <2>2. active \in 0..Cardinality(PageRequests) /\ seen \in 0..Cardinality(PageRequests)
    BY <1>2 DEF Capture!CaptureInit
  <2>3. page \in 1..(Pages + 1) /\ bytes \in 0..(MaxBytes + 1)
    BY CaptureAssumption DEF Capture!CaptureInit
  <2> QED BY <1>1, <2>1, <2>2, <2>3 DEF Capture!CaptureInit, Capture!CaptureTypeOK
<1>6. Capture!FetchesAreCounted
  BY <1>1, <1>4, BoundsAssumption DEF Capture!CaptureInit, Capture!FetchesAreCounted, HandlersAt
<1>7. seen + Capture!Cardinality(Capture!At("none")) = Capture!Cardinality(PageRequests)
  BY <1>1, <1>2, <1>3, <1>4 DEF Capture!CaptureInit
<1> QED BY <1>5, <1>6, <1>7, CaptureAssumption DEF Capture!CaptureInit, Capture!CaptureInv, Capture!SleepersWait, Capture!PlacesAreTaken

\* The steps of the capture that move no handler.
LEMMA CapturePages ==
  ASSUME Capture!CaptureInv, Capture!launch \/ Capture!goto \/ Capture!extract \/ Capture!store
  PROVE  Capture!CaptureInv'
<1>1. UNCHANGED <<page, handler, active, waiting, seen, bytes, stopped, timedOut>>
  BY DEF Capture!launch, Capture!goto, Capture!extract, Capture!store
<1>2. /\ page \in 1..(Pages + 1) /\ outcome \in [1..Pages -> {"none", "stored", "failed"}]
      /\ capturePc \in {"launch", "goto", "settle", "extract", "screenshot", "store", "close", "done"}
      /\ capturePc # "done" <=> page <= Pages
  BY DEF Capture!CaptureInv, Capture!CaptureTypeOK
<1>3. /\ capturePc' \in {"launch", "goto", "settle", "extract", "screenshot", "store", "close"} /\ capturePc # "done"
      /\ outcome' \in [1..Pages -> {"none", "stored", "failed"}]
  BY <1>2, CaptureAssumption DEF Capture!launch, Capture!goto, Capture!extract, Capture!store
<1>4. Capture!CaptureTypeOK'
  BY <1>1, <1>3 DEF Capture!CaptureInv, Capture!CaptureTypeOK
<1> QED
  BY <1>1, <1>2, <1>3, <1>4 DEF Capture!CaptureInv, Capture!SleepersWait, Capture!PlacesAreTaken, Capture!FetchesAreCounted,
     Capture!At

\* The steps that leave the page behind.
LEMMA CaptureLeaves ==
  ASSUME Capture!CaptureInv, Capture!nextPage \/ Capture!ensureSourceSnapshotBucket
  PROVE  Capture!CaptureInv'
<1>1. /\ handler' = [r \in PageRequests |-> "none"] /\ active' = 0 /\ waiting' = <<>> /\ seen' = 0 /\ bytes' = 0
      /\ stopped' = FALSE /\ timedOut' = FALSE
  BY DEF Capture!nextPage, Capture!ensureSourceSnapshotBucket, Capture!FreshCapture
<1>2. /\ HandlersAt(handler', "none") = Cardinality(PageRequests) /\ HandlersAt(handler', "fetching") = 0
      /\ Cardinality(PageRequests) \in Nat
  <2>1. handler' = [r \in PageRequests |-> "none"] /\ "fetching" # "none"
    BY <1>1
  <2>2. HandlersAt(handler', "none") = Cardinality(PageRequests) /\ HandlersAt(handler', "fetching") = 0
    BY <2>1, FreshHandlers, Zenon
  <2> QED BY <2>2, CaptureAssumption, FS_CardinalityType
<1>3. /\ page \in 1..(Pages + 1) /\ outcome \in [1..Pages -> {"none", "stored", "failed"}]
      /\ capturePc # "done" <=> page <= Pages
  BY DEF Capture!CaptureInv, Capture!CaptureTypeOK
<1>4. /\ page' \in 1..(Pages + 1) /\ outcome' \in [1..Pages -> {"none", "stored", "failed"}]
      /\ capturePc' \in {"launch", "done"} /\ (capturePc' # "done" <=> page' <= Pages)
  BY <1>3, CaptureAssumption DEF Capture!nextPage, Capture!ensureSourceSnapshotBucket
<1>5. handler' \in [PageRequests -> Capture!HandlerSteps] /\ waiting' \in Seq(PageRequests) /\ Capture!SleepersWait'
  BY <1>1 DEF Capture!HandlerSteps, Capture!SleepersWait
<1>6. /\ bytes' \in 0..(MaxBytes + 1) /\ stopped' \in BOOLEAN /\ timedOut' \in BOOLEAN /\ seen' \in Nat /\ active' <= Limit
      /\ active' = HandlersAt(handler', "fetching") /\ seen' + HandlersAt(handler', "none") = Cardinality(PageRequests)
  <2>1. bytes' \in 0..(MaxBytes + 1) /\ active' <= Limit
    BY <1>1, CaptureAssumption, BoundsAssumption
  <2>2. active' = HandlersAt(handler', "fetching") /\ seen' + HandlersAt(handler', "none") = Cardinality(PageRequests)
    BY <1>1, <1>2
  <2> QED BY <1>1, <2>1, <2>2
<1>7. capturePc' \in {"launch", "goto", "settle", "extract", "screenshot", "store", "close", "done"}
  BY <1>4
<1> QED BY <1>1, <1>4, <1>5, <1>6, <1>7, CaptureKept

\* A signal wakes every sleeper.
LEMMA CaptureSignals ==
  ASSUME Capture!CaptureInv, Capture!waitForLoad \/ Capture!deadline
  PROVE  Capture!CaptureInv'
<1>1. /\ page \in 1..(Pages + 1) /\ outcome \in [1..Pages -> {"none", "stored", "failed"}]
      /\ capturePc \in {"launch", "goto", "settle", "extract", "screenshot", "store", "close", "done"}
      /\ capturePc # "done" <=> page <= Pages
      /\ bytes \in 0..(MaxBytes + 1) /\ stopped \in BOOLEAN /\ timedOut \in BOOLEAN
  BY DEF Capture!CaptureInv, Capture!CaptureTypeOK
<1>2. /\ page' = page /\ outcome' = outcome /\ active' = active /\ seen' = seen /\ bytes' = bytes /\ timedOut' \in BOOLEAN
      /\ capturePc' \in {"launch", "goto", "settle", "extract", "screenshot", "store", "close"} /\ capturePc # "done"
  BY <1>1 DEF Capture!waitForLoad, Capture!deadline, Capture!CaptureRuns, Capture!UnchangedCapture
<1>3. CASE UNCHANGED <<handler, waiting, stopped>>
  BY <1>1, <1>2, <1>3, CaptureCounted, CaptureKept DEF Capture!CaptureInv, Capture!SleepersWait
<1>4. CASE Capture!abortResources
  <2>1. /\ stopped' = TRUE /\ waiting' = <<>>
        /\ handler' = [r \in PageRequests |-> IF handler[r] = "asleep" THEN "entering" ELSE handler[r]]
    BY <1>4 DEF Capture!abortResources
  <2>2. handler' \in [PageRequests -> Capture!HandlerSteps] /\ waiting' \in Seq(PageRequests) /\ Capture!SleepersWait'
    BY <2>1, CaptureCounted DEF Capture!HandlerSteps, Capture!SleepersWait
  <2>3. ASSUME NEW s \in {"none", "fetching"} PROVE HandlersAt(handler', s) = HandlersAt(handler, s)
    <3>1. {r \in PageRequests : handler'[r] = s} = {r \in PageRequests : handler[r] = s}
      BY <2>1
    <3> QED BY <3>1 DEF HandlersAt
  <2> QED BY <1>1, <1>2, <2>1, <2>2, <2>3, CaptureCounted, CaptureKept
<1> QED BY <1>3, <1>4 DEF Capture!waitForLoad, Capture!deadline

\* A handler that falls asleep is the last of the queue; one that is woken was the first.
LEMMA QueueSteps ==
  ASSUME NEW w \in Seq(PageRequests), NEW r \in PageRequests
  PROVE  /\ Append(w, r) \in Seq(PageRequests) /\ Append(w, r) # <<>> /\ DOMAIN Append(w, r) = 1..(Len(w) + 1)
         /\ DOMAIN w = 1..Len(w) /\ Len(w) \in Nat
         /\ \A i \in 1..Len(w) : Append(w, r)[i] = w[i]
         /\ Append(w, r)[Len(w) + 1] = r
         /\ w # <<>> => /\ Tail(w) \in Seq(PageRequests) /\ Head(w) \in PageRequests /\ Head(w) = w[1] /\ 1 \in DOMAIN w
                        /\ \A i \in DOMAIN Tail(w) : i + 1 \in DOMAIN w /\ i + 1 # 1 /\ Tail(w)[i] = w[i + 1] /\ i \in Nat
  OBVIOUS

\* The steps of a handler.
LEMMA CaptureHandlers ==
  ASSUME Capture!CaptureInv, NEW r \in PageRequests,
         Capture!route(r) \/ Capture!allowed(r) \/ Capture!resource(r) \/ Capture!fetchEnds(r)
  PROVE  Capture!CaptureInv'
<1> DEFINE F(h) == HandlersAt(h, "fetching")
           E(h) == HandlersAt(h, "entering")
           N(h) == HandlersAt(h, "none")
<1>1. /\ page \in 1..(Pages + 1) /\ outcome \in [1..Pages -> {"none", "stored", "failed"}]
      /\ capturePc \in {"launch", "goto", "settle", "extract", "screenshot", "store", "close", "done"}
      /\ capturePc # "done" <=> page <= Pages
      /\ bytes \in 0..(MaxBytes + 1) /\ stopped \in BOOLEAN /\ timedOut \in BOOLEAN
  BY DEF Capture!CaptureInv, Capture!CaptureTypeOK
<1>2. UNCHANGED <<page, capturePc, outcome, stopped, timedOut>> /\ bytes' \in 0..(MaxBytes + 1)
  BY <1>1, CaptureAssumption DEF Capture!route, Capture!allowed, Capture!resource, Capture!fetchEnds, Capture!UnchangedCapture
<1>3. /\ handler \in [PageRequests -> Capture!HandlerSteps] /\ waiting \in Seq(PageRequests)
      /\ active \in Nat /\ active = F(handler) /\ active <= Limit
      /\ seen \in Nat /\ seen + N(handler) = Cardinality(PageRequests)
      /\ waiting # <<>> => active + E(handler) >= Limit
      /\ Limit \in Nat /\ Cardinality(PageRequests) \in Nat /\ E(handler) \in Nat /\ N(handler) \in Nat
  BY CaptureCounted, BoundsAssumption, CaptureAssumption, FS_CardinalityType
<1>4. /\ \A i \in DOMAIN waiting : handler[waiting[i]] = "asleep"
      /\ \A i, j \in DOMAIN waiting : waiting[i] = waiting[j] => i = j
      /\ stopped => waiting = <<>>
  BY DEF Capture!CaptureInv, Capture!SleepersWait
<1>5. ASSUME NEW b \in Capture!HandlerSteps, handler' = [handler EXCEPT ![r] = b], handler[r] # b
      PROVE  /\ handler' \in [PageRequests -> Capture!HandlerSteps]
             /\ F(handler') = (IF handler[r] = "fetching" THEN F(handler) - 1 ELSE IF b = "fetching" THEN F(handler) + 1 ELSE F(handler))
             /\ E(handler') = (IF handler[r] = "entering" THEN E(handler) - 1 ELSE IF b = "entering" THEN E(handler) + 1 ELSE E(handler))
             /\ N(handler') = (IF handler[r] = "none" THEN N(handler) - 1 ELSE IF b = "none" THEN N(handler) + 1 ELSE N(handler))
             /\ F(handler') \in Nat /\ E(handler') \in Nat /\ N(handler') \in Nat
  <2>1. handler' \in [PageRequests -> Capture!HandlerSteps]
    BY <1>3, <1>5
  <2>2. ASSUME NEW s
        PROVE  /\ HandlersAt(handler, s) \in Nat /\ HandlersAt(handler', s) \in Nat
               /\ handler[r] = s /\ b # s => HandlersAt(handler', s) + 1 = HandlersAt(handler, s)
               /\ handler[r] # s /\ b = s => HandlersAt(handler', s) = HandlersAt(handler, s) + 1
               /\ handler[r] # s /\ b # s => HandlersAt(handler', s) = HandlersAt(handler, s)
    <3>1. /\ handler \in [PageRequests -> Capture!HandlerSteps] /\ handler' \in [PageRequests -> Capture!HandlerSteps]
          /\ \A x \in PageRequests : handler'[x] = IF x = r THEN b ELSE handler[x]
      BY <1>3, <1>5
    <3> QED BY <3>1, HandlerMoves
  <2>3. F(handler') = (IF handler[r] = "fetching" THEN F(handler) - 1 ELSE IF b = "fetching" THEN F(handler) + 1 ELSE F(handler)) /\ F(handler') \in Nat
    <3>1. /\ F(handler) \in Nat /\ F(handler') \in Nat
          /\ handler[r] = "fetching" /\ b # "fetching" => F(handler') + 1 = F(handler)
          /\ handler[r] # "fetching" /\ b = "fetching" => F(handler') = F(handler) + 1
          /\ handler[r] # "fetching" /\ b # "fetching" => F(handler') = F(handler)
      BY <2>2, Zenon
    <3> QED BY <1>5, <3>1
  <2>4. E(handler') = (IF handler[r] = "entering" THEN E(handler) - 1 ELSE IF b = "entering" THEN E(handler) + 1 ELSE E(handler)) /\ E(handler') \in Nat
    <3>1. /\ E(handler) \in Nat /\ E(handler') \in Nat
          /\ handler[r] = "entering" /\ b # "entering" => E(handler') + 1 = E(handler)
          /\ handler[r] # "entering" /\ b = "entering" => E(handler') = E(handler) + 1
          /\ handler[r] # "entering" /\ b # "entering" => E(handler') = E(handler)
      BY <2>2, Zenon
    <3> QED BY <1>5, <3>1
  <2>5. N(handler') = (IF handler[r] = "none" THEN N(handler) - 1 ELSE IF b = "none" THEN N(handler) + 1 ELSE N(handler)) /\ N(handler') \in Nat
    <3>1. /\ N(handler) \in Nat /\ N(handler') \in Nat
          /\ handler[r] = "none" /\ b # "none" => N(handler') + 1 = N(handler)
          /\ handler[r] # "none" /\ b = "none" => N(handler') = N(handler) + 1
          /\ handler[r] # "none" /\ b # "none" => N(handler') = N(handler)
      BY <2>2, Zenon
    <3> QED BY <1>5, <3>1
  <2> QED BY <2>1, <2>3, <2>4, <2>5
<1>6. ASSUME handler' \in [PageRequests -> Capture!HandlerSteps], waiting' \in Seq(PageRequests), Capture!SleepersWait',
             active' = F(handler'), active' <= Limit, seen' \in Nat, seen' + N(handler') = Cardinality(PageRequests),
             waiting' # <<>> => active' + E(handler') >= Limit
      PROVE  Capture!CaptureInv'
  BY <1>1, <1>2, <1>6, CaptureKept
<1>7. CASE Capture!route(r)
  <2>1. PICK b \in {"aborted", "robots", "entering"} :
          /\ handler' = [handler EXCEPT ![r] = b] /\ handler[r] = "none" /\ active' = active /\ waiting' = waiting
          /\ seen' = seen + 1
    BY <1>7 DEF Capture!route
  <2>2. /\ handler' \in [PageRequests -> Capture!HandlerSteps] /\ F(handler') = F(handler) /\ N(handler') = N(handler) - 1
        /\ E(handler') \in {E(handler), E(handler) + 1}
    BY <1>5, <2>1 DEF Capture!HandlerSteps
  <2>3. Capture!SleepersWait'
    <3>1. \A i \in DOMAIN waiting : waiting[i] \in PageRequests /\ handler[waiting[i]] = "asleep"
      BY <1>3, <1>4
    <3>2. \A i \in DOMAIN waiting : handler'[waiting[i]] = "asleep"
      BY <1>3, <2>1, <3>1
    <3> QED BY <1>2, <1>4, <2>1, <3>2 DEF Capture!SleepersWait
  <2>4. active' = F(handler') /\ seen' \in Nat /\ seen' + N(handler') = Cardinality(PageRequests) /\ active' <= Limit
    BY <1>3, <2>1, <2>2
  <2>5. waiting' # <<>> => active' + E(handler') >= Limit
    BY <1>3, <2>1, <2>2
  <2> QED BY <1>3, <1>6, <2>1, <2>2, <2>3, <2>4, <2>5
<1>8. CASE Capture!allowed(r)
  <2>1. PICK b \in {"aborted", "entering"} :
          /\ handler' = [handler EXCEPT ![r] = b] /\ handler[r] = "robots" /\ active' = active /\ waiting' = waiting
          /\ seen' = seen
    BY <1>8 DEF Capture!allowed
  <2>2. /\ handler' \in [PageRequests -> Capture!HandlerSteps] /\ F(handler') = F(handler) /\ N(handler') = N(handler)
        /\ E(handler') \in {E(handler), E(handler) + 1}
    BY <1>5, <2>1 DEF Capture!HandlerSteps
  <2>3. Capture!SleepersWait'
    <3>1. \A i \in DOMAIN waiting : waiting[i] \in PageRequests /\ handler[waiting[i]] = "asleep"
      BY <1>3, <1>4
    <3>2. \A i \in DOMAIN waiting : handler'[waiting[i]] = "asleep"
      BY <1>3, <2>1, <3>1
    <3> QED BY <1>2, <1>4, <2>1, <3>2 DEF Capture!SleepersWait
  <2>4. waiting' # <<>> => active' + E(handler') >= Limit
    BY <1>3, <2>1, <2>2
  <2> QED BY <1>3, <1>6, <2>1, <2>2, <2>3, <2>4
<1>9. CASE Capture!resource(r)
  <2>1. handler[r] = "entering" /\ seen' = seen
    BY <1>9 DEF Capture!resource
  <2>2. \A i \in DOMAIN waiting : waiting[i] \in PageRequests /\ handler[waiting[i]] = "asleep" /\ waiting[i] # r
    BY <1>3, <1>4, <2>1
  <2>3. ASSUME NEW b \in {"aborted", "fetching"}, handler' = [handler EXCEPT ![r] = b], waiting' = waiting,
               b = "aborted" => stopped /\ active' = active, b = "fetching" => active < Limit /\ active' = active + 1
        PROVE  Capture!CaptureInv'
    <3>1. /\ handler' \in [PageRequests -> Capture!HandlerSteps] /\ E(handler') = E(handler) - 1 /\ N(handler') = N(handler)
          /\ F(handler') = (IF b = "fetching" THEN F(handler) + 1 ELSE F(handler))
      BY <1>5, <2>1, <2>3 DEF Capture!HandlerSteps
    <3>2. \A i \in DOMAIN waiting : handler'[waiting[i]] = "asleep"
      BY <1>3, <2>2, <2>3
    <3>3. Capture!SleepersWait'
      BY <1>2, <1>4, <2>3, <3>2 DEF Capture!SleepersWait
    <3>4. active' = F(handler') /\ active' <= Limit
      BY <1>3, <2>3, <3>1
    <3>5. waiting' # <<>> => active' + E(handler') >= Limit
      BY <1>3, <1>4, <2>3, <3>1
    <3> QED BY <1>3, <1>6, <2>1, <2>3, <3>1, <3>3, <3>4, <3>5
  <2>4. ASSUME handler' = [handler EXCEPT ![r] = "asleep"], waiting' = Append(waiting, r), ~(active < Limit), active' = active, ~stopped
        PROVE  Capture!CaptureInv'
    <3>1. /\ handler' \in [PageRequests -> Capture!HandlerSteps] /\ E(handler') \in Nat /\ N(handler') = N(handler)
          /\ F(handler') = F(handler)
      BY <1>5, <2>1, <2>4 DEF Capture!HandlerSteps
    <3>2. /\ waiting' \in Seq(PageRequests) /\ DOMAIN waiting' = 1..(Len(waiting) + 1) /\ Len(waiting) \in Nat
          /\ DOMAIN waiting = 1..Len(waiting) /\ waiting'[Len(waiting) + 1] = r
          /\ \A i \in 1..Len(waiting) : waiting'[i] = waiting[i]
      BY <1>3, <2>4, QueueSteps
    <3>3. \A i \in DOMAIN waiting' : i = Len(waiting) + 1 \/ i \in DOMAIN waiting
      BY <3>2
    <3>4. \A i \in DOMAIN waiting' : handler'[waiting'[i]] = "asleep"
      BY <1>3, <2>2, <2>4, <3>2, <3>3
    <3>5. \A i, j \in DOMAIN waiting' : waiting'[i] = waiting'[j] => i = j
      BY <1>4, <2>2, <3>2, <3>3
    <3>6. Capture!SleepersWait'
      BY <1>2, <2>4, <3>4, <3>5 DEF Capture!SleepersWait
    <3>7. active' + E(handler') >= Limit
      BY <1>3, <2>4, <3>1
    <3> QED BY <1>3, <1>6, <2>1, <2>4, <3>1, <3>2, <3>6, <3>7
  <2> QED BY <1>9, <2>3, <2>4 DEF Capture!resource, Capture!hasRoom
<1>10. CASE Capture!fetchEnds(r)
  <2>1. PICK b \in {"aborted", "fulfilled"} : /\ Capture!wakeNext(r, b) /\ handler[r] = "fetching"
                                              /\ active' = active - 1 /\ seen' = seen
    BY <1>10 DEF Capture!fetchEnds
  <2>2. \A i \in DOMAIN waiting : waiting[i] \in PageRequests /\ handler[waiting[i]] = "asleep" /\ waiting[i] # r
    BY <1>3, <1>4, <2>1
  <2>3. CASE waiting = <<>>
    <3>1. handler' = [handler EXCEPT ![r] = b] /\ waiting' = <<>>
      BY <2>1, <2>3 DEF Capture!wakeNext
    <3>2. /\ handler' \in [PageRequests -> Capture!HandlerSteps] /\ N(handler') = N(handler)
          /\ F(handler') = F(handler) - 1 /\ F(handler') \in Nat
      BY <1>5, <2>1, <3>1 DEF Capture!HandlerSteps
    <3>3. Capture!SleepersWait'
      BY <3>1 DEF Capture!SleepersWait
    <3>4. active' = F(handler') /\ active' <= Limit
      BY <1>3, <2>1, <3>2
    <3> QED BY <1>3, <1>6, <2>1, <3>1, <3>2, <3>3, <3>4
  <2>4. CASE waiting # <<>>
    <3>1. PICK w \in PageRequests : w = waiting[1] /\ w = Head(waiting) /\ 1 \in DOMAIN waiting
      BY <1>3, <2>4, QueueSteps
    <3>2. handler[w] = "asleep" /\ w # r
      BY <2>2, <3>1
    <3>3. handler' = [handler EXCEPT ![r] = b, ![w] = "entering"] /\ waiting' = Tail(waiting)
      BY <2>1, <2>4, <3>1 DEF Capture!wakeNext
    <3>4. PICK m \in [PageRequests -> Capture!HandlerSteps] : \A x \in PageRequests : m[x] = IF x = r THEN b ELSE handler[x]
      <4>1. [handler EXCEPT ![r] = b] \in [PageRequests -> Capture!HandlerSteps]
        BY <1>3 DEF Capture!HandlerSteps
      <4>2. \A x \in PageRequests : [handler EXCEPT ![r] = b][x] = IF x = r THEN b ELSE handler[x]
        BY <1>3
      <4> QED BY <4>1, <4>2
    <3>5. handler' \in [PageRequests -> Capture!HandlerSteps] /\ \A x \in PageRequests : handler'[x] = IF x = w THEN "entering" ELSE m[x]
      BY <1>3, <3>2, <3>3, <3>4 DEF Capture!HandlerSteps
    <3>6. b \in Capture!HandlerSteps /\ "entering" \in Capture!HandlerSteps /\ m[w] = "asleep"
      BY <3>2, <3>4 DEF Capture!HandlerSteps
    <3>7. /\ F(m) = F(handler) - 1 /\ F(m) \in Nat /\ E(m) = E(handler) /\ N(m) = N(handler)
      <4>1. handler \in [PageRequests -> Capture!HandlerSteps] /\ handler[r] = "fetching" /\ b # "fetching" /\ b # "entering" /\ b # "none"
        BY <1>3, <2>1
      <4>2. \A x \in PageRequests : m[x] = IF x = r THEN b ELSE handler[x]
        BY <3>4
      <4>3. HandlersAt(m, "fetching") + 1 = HandlersAt(handler, "fetching") /\ HandlersAt(m, "fetching") \in Nat
            /\ HandlersAt(handler, "fetching") \in Nat
        BY <3>6, <4>1, <4>2, HandlerMoves
      <4>4. HandlersAt(m, "entering") = HandlersAt(handler, "entering") /\ HandlersAt(m, "none") = HandlersAt(handler, "none")
        BY <3>6, <4>1, <4>2, HandlerMoves
      <4> QED BY <4>3, <4>4
    <3>8. F(handler') = F(m) /\ E(handler') = E(m) + 1 /\ N(handler') = N(m)
      BY <3>4, <3>5, <3>6, HandlerMoves
    <3>9. /\ waiting' \in Seq(PageRequests)
          /\ \A i \in DOMAIN waiting' : i + 1 \in DOMAIN waiting /\ i + 1 # 1 /\ waiting'[i] = waiting[i + 1] /\ i \in Nat
      BY <1>3, <2>4, <3>3, QueueSteps
    <3>10. \A i \in DOMAIN waiting' : waiting'[i] \in PageRequests /\ waiting'[i] # w /\ handler[waiting'[i]] = "asleep" /\ waiting'[i] # r
      BY <1>4, <2>2, <3>1, <3>9
    <3>11. \A i \in DOMAIN waiting' : handler'[waiting'[i]] = "asleep"
      BY <3>4, <3>5, <3>10
    <3>12. \A i, j \in DOMAIN waiting' : waiting'[i] = waiting'[j] => i = j
      <4>1. ASSUME NEW i \in DOMAIN waiting', NEW j \in DOMAIN waiting', waiting'[i] = waiting'[j] PROVE i = j
        <5>1. i + 1 = j + 1 /\ i \in Nat /\ j \in Nat
          BY <1>4, <3>9, <4>1
        <5> QED BY <5>1
      <4> QED BY <4>1
    <3>13. Capture!SleepersWait'
      BY <1>2, <1>4, <2>4, <3>11, <3>12 DEF Capture!SleepersWait
    <3>14. active' = F(handler') /\ active' <= Limit /\ active' + E(handler') >= Limit /\ N(handler') = N(handler)
      BY <1>3, <2>1, <2>4, <3>7, <3>8
    <3> QED BY <1>3, <1>6, <2>1, <3>5, <3>9, <3>13, <3>14
  <2> QED BY <2>3, <2>4
<1> QED BY <1>7, <1>8, <1>9, <1>10

\* Every step of the page, its requests and the deadline keeps the counts.
LEMMA CaptureNext == Capture!CaptureInv /\ [Capture!CaptureNext]_captureVars => Capture!CaptureInv'
<1> SUFFICES ASSUME Capture!CaptureInv, [Capture!CaptureNext]_captureVars PROVE Capture!CaptureInv'
  OBVIOUS
<1>1. CASE UNCHANGED captureVars
  BY <1>1 DEF captureVars, Capture!CaptureInv, Capture!CaptureTypeOK, Capture!SleepersWait, Capture!PlacesAreTaken,
     Capture!FetchesAreCounted, Capture!At
<1> QED BY <1>1, CapturePages, CaptureLeaves, CaptureSignals, CaptureHandlers DEF Capture!CaptureNext

\* What the invariant of the capture says of its fetches.
LEMMA CaptureImplies ==
  ASSUME Capture!CaptureInv
  PROVE  Capture!CaptureTypeOK /\ Capture!FetchesAreCounted /\ Capture!NoLostWakeUp
<1>1. ASSUME waiting # <<>>, ~(active >= Limit) PROVE \E r \in PageRequests : handler[r] = "entering"
  <2>1. HandlersAt(handler, "entering") # 0
    BY <1>1, CaptureCounted, BoundsAssumption
  <2>2. {r \in PageRequests : handler[r] = "entering"} # {}
    BY <2>1, FS_EmptySet DEF HandlersAt
  <2> QED BY <2>2
<1> QED BY <1>1 DEF Capture!CaptureInv, Capture!NoLostWakeUp

-----------------------------------------------------------------------------
(* Proofs.  Source evidence.                                               *)

\* An element of a sequence.
LEMMA SequenceElement == ASSUME NEW S, NEW q \in Seq(S), NEW i \in DOMAIN q PROVE q[i] \in S
  OBVIOUS

\* What is kept of a report is a report, with no more sources than asked for.
LEMMA SelectedReport ==
  ASSUME NEW report \in Evidence!SourcingResult
  PROVE  Evidence!selected(report) \in Evidence!SourcingResult /\ Len(Evidence!selected(report).sources) <= SourceLimit
<1> DEFINE Source == [url : Urls, quoted : BOOLEAN]
           Claim  == [status : Evidence!ClaimStatus, urls : SUBSET Urls]
           n      == IF Len(report.sources) < SourceLimit THEN Len(report.sources) ELSE SourceLimit
           kept   == SubSeq(report.sources, 1, n)
           claims == {[c EXCEPT !.urls = @ \cap Evidence!urlsOf(kept)] : c \in report.claims}
<1>1. report \in [sources : Seq(Source), claims : SUBSET Claim, searched : BOOLEAN]
  BY DEF Evidence!SourcingResult
<1>2. report.sources \in Seq(Source) /\ report.claims \subseteq Claim
  BY <1>1
<1>3. n \in Nat /\ n <= Len(report.sources) /\ n <= SourceLimit
  BY <1>2, EvidenceAssumption
<1> HIDE DEF Source, n
<1>4. kept \in Seq(Source) /\ Len(kept) = n
  BY <1>2, <1>3
<1>5. claims \subseteq Claim
  BY <1>2
<1> HIDE DEF Claim, kept, claims
<1>6. Evidence!selected(report) = [report EXCEPT !.sources = kept, !.claims = claims]
  BY DEF Evidence!selected, kept, claims, n
<1>7. /\ Evidence!selected(report) \in [sources : Seq(Source), claims : SUBSET Claim, searched : BOOLEAN]
      /\ Evidence!selected(report).sources = kept
  BY <1>1, <1>4, <1>5, <1>6
<1> QED BY <1>3, <1>4, <1>7 DEF Evidence!SourcingResult, Source, Claim

\* A report whose sources nobody has fetched.
LEMMA EvidenceInit == Evidence!EvidenceInit => Evidence!EvidenceInv
<1> SUFFICES ASSUME Evidence!EvidenceInit PROVE Evidence!EvidenceInv
  OBVIOUS
<1>1. Evidence!NoReport \in Evidence!SourcingResult /\ Evidence!NoReport.sources = <<>>
  BY DEF Evidence!NoReport, Evidence!SourcingResult
<1>2. evidence \in Evidence!Call
  <2>1. "ask" \in Evidence!CallSteps /\ 0 \in Evidence!Offsets
    BY EvidenceAssumption DEF Evidence!CallSteps, Evidence!Offsets
  <2> QED BY <1>1, <2>1 DEF Evidence!EvidenceInit, Evidence!Call
<1>3. Evidence!NoFetch \in Evidence!Fetch /\ Evidence!NoFetch.pc = "none" /\ Evidence!NoFetch.status = "none"
  <2>1. "none" \in Evidence!FetchSteps /\ 0 \in Evidence!Hops /\ "none" \in Evidence!RetrievalStatus
    BY BoundsAssumption DEF Evidence!FetchSteps, Evidence!Hops, Evidence!RetrievalStatus
  <2> QED BY <2>1 DEF Evidence!NoFetch, Evidence!Fetch
<1>4. evidence.report = Evidence!NoReport /\ evidence.verified = {} /\ evidence.pc = "ask"
  BY DEF Evidence!EvidenceInit
<1>5. Evidence!sources = <<>> /\ Len(Evidence!sources) = 0
  BY <1>1, <1>4 DEF Evidence!sources
<1>6. Evidence!EvidenceTypeOK
  BY <1>2, <1>3 DEF Evidence!EvidenceInit, Evidence!EvidenceTypeOK
<1>7. \A i \in Evidence!Indices : fetch[i] = Evidence!NoFetch
  BY DEF Evidence!EvidenceInit
<1>8. Evidence!FetchesAreOfSources
  BY <1>3, <1>7 DEF Evidence!FetchesAreOfSources
<1>9. Evidence!VerifiedMatched /\ Evidence!OnlyPublicIsRead
  BY <1>4 DEF Evidence!EvidenceInit, Evidence!VerifiedMatched, Evidence!OnlyPublicIsRead
<1>10. Len(Evidence!sources) <= SourceLimit
  BY <1>5, EvidenceAssumption
<1> QED BY <1>4, <1>5, <1>6, <1>8, <1>9, <1>10 DEF Evidence!EvidenceInv

\* The answer of the provider.
LEMMA EvidenceAsked ==
  ASSUME Evidence!EvidenceInv, Evidence!research
  PROVE  Evidence!EvidenceInv'
<1> DEFINE e == evidence  failed == "failed"  verify == "verify"
<1>1. e \in Evidence!Call /\ {failed, verify} \subseteq Evidence!CallSteps
  BY DEF Evidence!EvidenceInv, Evidence!EvidenceTypeOK, Evidence!CallSteps
<1>2. UNCHANGED <<web, fetch, visited>> /\ e.pc = "ask"
  BY DEF Evidence!research
<1>3. Evidence!sources = <<>>
  BY <1>2 DEF Evidence!EvidenceInv
<1>4. \A i \in Evidence!Indices : fetch[i].pc = "none" /\ fetch[i].status = "none"
  BY <1>3 DEF Evidence!EvidenceInv, Evidence!FetchesAreOfSources
<1>5. e.verified = {}
  BY <1>3 DEF Evidence!EvidenceInv, Evidence!VerifiedMatched
<1>6. failed \notin {"done", "ask"} /\ verify \notin {"done", "ask"}
  OBVIOUS
<1>7. \/ evidence' = [e EXCEPT !.pc = failed]
      \/ \E report \in Reports : evidence' = [e EXCEPT !.pc = verify, !.report = Evidence!selected(report)]
  BY DEF Evidence!research
<1> HIDE DEF e, failed, verify
<1>8. PICK x \in Evidence!SourcingResult, y \in {failed, verify} :
        /\ evidence' = [e EXCEPT !.pc = y, !.report = x] /\ Len(x.sources) <= SourceLimit
  <2>1. CASE evidence' = [e EXCEPT !.pc = failed]
    <3>1. e.report \in Evidence!SourcingResult /\ evidence' = [e EXCEPT !.pc = failed, !.report = e.report]
      BY <1>1, <2>1 DEF Evidence!Call
    <3>2. Len(e.report.sources) <= SourceLimit
      BY DEF Evidence!EvidenceInv, Evidence!sources, e
    <3> QED BY <3>1, <3>2
  <2>2. CASE \E report \in Reports : evidence' = [e EXCEPT !.pc = verify, !.report = Evidence!selected(report)]
    <3>1. PICK report \in Evidence!SourcingResult : evidence' = [e EXCEPT !.pc = verify, !.report = Evidence!selected(report)]
      BY <2>2, EvidenceAssumption
    <3> QED BY <3>1, SelectedReport
  <2> QED BY <1>7, <2>1, <2>2
<1>9. evidence' \in Evidence!Call /\ evidence'.pc = y /\ evidence'.report = x /\ evidence'.verified = e.verified
  BY <1>1, <1>8 DEF Evidence!Call
<1>10. Evidence!EvidenceTypeOK'
  BY <1>2, <1>9 DEF Evidence!EvidenceInv, Evidence!EvidenceTypeOK
<1>11. Evidence!FetchesAreOfSources' /\ Evidence!VerifiedMatched' /\ Evidence!OnlyPublicIsRead'
  BY <1>2, <1>4, <1>5, <1>9 DEF Evidence!EvidenceInv, Evidence!FetchesAreOfSources, Evidence!VerifiedMatched, Evidence!OnlyPublicIsRead
<1>12. evidence'.pc \notin {"done", "ask"}
  BY <1>6, <1>9
<1>13. Len(Evidence!sources') <= SourceLimit
  BY <1>8, <1>9 DEF Evidence!sources
<1> QED BY <1>10, <1>11, <1>12, <1>13 DEF Evidence!EvidenceInv

\* What the steps after it must show: the report's sources stay, and a fetch that matched stays as it is.
LEMMA EvidenceKept ==
  ASSUME Evidence!EvidenceInv, web' = web, evidence' \in Evidence!Call, fetch' \in [Evidence!Indices -> Evidence!Fetch],
         evidence'.report.sources = evidence.report.sources, evidence'.pc # "ask",
         visited' \subseteq web.public, Evidence!FetchesAreOfSources', Evidence!VerifiedMatched',
         evidence'.pc = "done" => \A c \in evidence'.report.claims : c.status = "supported" => Evidence!allVerified(c)'
  PROVE  Evidence!EvidenceInv'
<1>1. web \in Evidence!Web /\ web.public \subseteq Urls
  BY DEF Evidence!EvidenceInv, Evidence!EvidenceTypeOK, Evidence!Web
<1>2. Evidence!EvidenceTypeOK'
  BY <1>1 DEF Evidence!EvidenceTypeOK
<1>3. Evidence!OnlyPublicIsRead'
  BY DEF Evidence!OnlyPublicIsRead
<1>4. Len(Evidence!sources') <= SourceLimit
  BY DEF Evidence!EvidenceInv, Evidence!sources
<1> QED BY <1>2, <1>3, <1>4 DEF Evidence!EvidenceInv

\* The steps that start fetches or end a batch.
LEMMA EvidenceBatches ==
  ASSUME Evidence!EvidenceInv, Evidence!StartBatch \/ Evidence!deadline \/ Evidence!nextBatch
  PROVE  Evidence!EvidenceInv'
<1> DEFINE e == evidence
<1>1. /\ e \in Evidence!Call /\ fetch \in [Evidence!Indices -> Evidence!Fetch] /\ visited \subseteq web.public
      /\ Evidence!FetchesAreOfSources /\ Evidence!VerifiedMatched
  BY DEF Evidence!EvidenceInv, Evidence!EvidenceTypeOK, Evidence!OnlyPublicIsRead
<1>2. web' = web /\ visited' = visited /\ e.pc = "verify"
  BY DEF Evidence!StartBatch, Evidence!deadline, Evidence!nextBatch
<1>3. Evidence!sources \in Seq([url : Urls, quoted : BOOLEAN]) /\ Len(Evidence!sources) \in Nat /\ Len(Evidence!sources) <= SourceLimit
      /\ DOMAIN Evidence!sources = 1..Len(Evidence!sources)
  <2>1. e.report.sources \in Seq([url : Urls, quoted : BOOLEAN])
    BY <1>1 DEF Evidence!Call, Evidence!SourcingResult
  <2> QED BY <2>1 DEF Evidence!EvidenceInv, Evidence!sources
<1>4. PICK o \in Evidence!Offsets : evidence' = [e EXCEPT !.offset = o]
  <2>1. CASE Evidence!StartBatch
    <3>1. evidence' = e /\ e.offset \in Evidence!Offsets /\ [e EXCEPT !.offset = e.offset] = e
      BY <1>1, <2>1 DEF Evidence!StartBatch, Evidence!Call
    <3> QED BY <3>1
  <2>2. CASE Evidence!deadline
    <3>1. evidence' = [e EXCEPT !.offset = Len(Evidence!sources)] /\ Len(Evidence!sources) \in Evidence!Offsets
      BY <1>3, <2>2, EvidenceAssumption DEF Evidence!deadline, Evidence!Offsets
    <3> QED BY <3>1
  <2>3. CASE Evidence!nextBatch
    <3>1. PICK o : /\ o = (IF e.offset + Fan < Len(Evidence!sources) THEN e.offset + Fan ELSE Len(Evidence!sources))
                   /\ evidence' = [e EXCEPT !.offset = o]
      BY <2>3 DEF Evidence!nextBatch
    <3>2. e.offset \in 0..SourceLimit
      BY <1>1 DEF Evidence!Call, Evidence!Offsets
    <3>3. o \in Evidence!Offsets
      BY <1>3, <3>1, <3>2, BoundsAssumption, EvidenceAssumption DEF Evidence!Offsets
    <3> QED BY <3>1, <3>3
  <2> QED BY <2>1, <2>2, <2>3
<1>5. PICK go \in Evidence!FetchSteps, missed \in Evidence!RetrievalStatus, stay \in Evidence!FetchSteps :
        go = "request" /\ missed = "unavailable" /\ stay = "done"
  BY DEF Evidence!FetchSteps, Evidence!RetrievalStatus
<1>6. Evidence!NoFetch \in Evidence!Fetch /\ Evidence!NoFetch.status = "none"
  <2>1. "none" \in Evidence!FetchSteps /\ 0 \in Evidence!Hops /\ "none" \in Evidence!RetrievalStatus
    BY BoundsAssumption DEF Evidence!FetchSteps, Evidence!Hops, Evidence!RetrievalStatus
  <2> QED BY <2>1 DEF Evidence!NoFetch, Evidence!Fetch
<1>7. ASSUME NEW u \in Urls, NEW f, f = [Evidence!NoFetch EXCEPT !.pc = go, !.url = u]
      PROVE  f \in Evidence!Fetch /\ f.status = "none" /\ f.pc = "request"
  BY <1>5, <1>6, <1>7 DEF Evidence!Fetch
<1>8. ASSUME NEW f, f = [Evidence!NoFetch EXCEPT !.pc = stay, !.status = missed]
      PROVE  f \in Evidence!Fetch /\ f.status = "unavailable" /\ f.pc = "done"
  BY <1>5, <1>6, <1>8 DEF Evidence!Fetch
<1>9. ASSUME NEW i \in Evidence!Indices
      PROVE  \/ fetch'[i] = fetch[i]
             \/ /\ fetch[i].status # "matched" /\ fetch'[i] \in Evidence!Fetch /\ i \in DOMAIN Evidence!sources
                /\ fetch'[i].status # "matched" /\ (fetch'[i].status # "none" => fetch'[i].pc = "done")
  <2>1. CASE Evidence!StartBatch
    <3>1. CASE i \in Evidence!Batch
      <4>1. fetch[i].pc = "none" /\ fetch'[i] = [Evidence!NoFetch EXCEPT !.pc = go, !.url = Evidence!sources[i].url]
        BY <1>5, <2>1, <3>1 DEF Evidence!StartBatch
      <4>2. i \in DOMAIN Evidence!sources /\ Evidence!sources[i].url \in Urls
        <5>1. i \in DOMAIN Evidence!sources
          BY <1>3, <3>1, EvidenceAssumption DEF Evidence!Batch, Evidence!Indices
        <5>2. Evidence!sources[i] \in [url : Urls, quoted : BOOLEAN]
          BY <1>3, <5>1, SequenceElement, Zenon
        <5> QED BY <5>1, <5>2
      <4>3. fetch[i].status # "matched"
        BY <1>1, <4>1 DEF Evidence!FetchesAreOfSources
      <4>4. fetch'[i] \in Evidence!Fetch /\ fetch'[i].status = "none"
        BY <1>7, <4>1, <4>2
      <4> QED BY <4>2, <4>3, <4>4
    <3>2. CASE i \notin Evidence!Batch
      BY <2>1, <3>2 DEF Evidence!StartBatch
    <3> QED BY <3>1, <3>2
  <2>2. CASE Evidence!deadline
    <3>1. CASE i <= Len(Evidence!sources) /\ fetch[i].pc # "done"
      <4>1. fetch'[i] = [Evidence!NoFetch EXCEPT !.pc = stay, !.status = missed]
        BY <1>5, <2>2, <3>1 DEF Evidence!deadline
      <4>2. i \in DOMAIN Evidence!sources
        BY <1>3, <3>1, EvidenceAssumption DEF Evidence!Indices
      <4>3. fetch[i].status # "matched"
        BY <1>1, <3>1 DEF Evidence!FetchesAreOfSources
      <4>4. fetch'[i] \in Evidence!Fetch /\ fetch'[i].status = "unavailable" /\ fetch'[i].pc = "done"
        BY <1>8, <4>1
      <4> QED BY <4>2, <4>3, <4>4
    <3>2. CASE ~(i <= Len(Evidence!sources) /\ fetch[i].pc # "done")
      BY <2>2, <3>2 DEF Evidence!deadline
    <3> QED BY <3>1, <3>2
  <2>3. CASE Evidence!nextBatch
    BY <2>3 DEF Evidence!nextBatch
  <2> QED BY <2>1, <2>2, <2>3
<1>10. fetch' \in [Evidence!Indices -> Evidence!Fetch]
  <2>1. \A i \in Evidence!Indices : fetch'[i] \in Evidence!Fetch
    BY <1>1, <1>9
  <2>2. fetch' = fetch \/ fetch' = [i \in Evidence!Indices |-> fetch'[i]]
    BY DEF Evidence!StartBatch, Evidence!deadline, Evidence!nextBatch
  <2> QED BY <1>1, <2>1, <2>2
<1> HIDE DEF e
<1>11. evidence' \in Evidence!Call /\ evidence'.pc = e.pc /\ evidence'.report = e.report /\ evidence'.verified = e.verified
  BY <1>1, <1>4 DEF Evidence!Call
<1>12. Evidence!sources' = Evidence!sources
  BY <1>11 DEF Evidence!sources, e
<1>13. Evidence!FetchesAreOfSources'
  BY <1>1, <1>2, <1>9, <1>12 DEF Evidence!FetchesAreOfSources
<1>14. Evidence!VerifiedMatched'
  BY <1>1, <1>9, <1>11, <1>12 DEF Evidence!VerifiedMatched, e
<1> QED BY <1>1, <1>2, <1>10, <1>11, <1>13, <1>14, EvidenceKept DEF e

\* One hop of a fetch.
LEMMA EvidenceHops ==
  ASSUME Evidence!EvidenceInv, NEW i \in Evidence!Indices, Evidence!fetchPublicResource(i)
  PROVE  Evidence!EvidenceInv'
<1> DEFINE e == evidence  f == fetch[i]
<1>1. /\ e \in Evidence!Call /\ fetch \in [Evidence!Indices -> Evidence!Fetch] /\ visited \subseteq web.public
      /\ Evidence!FetchesAreOfSources /\ Evidence!VerifiedMatched /\ f \in Evidence!Fetch
  BY DEF Evidence!EvidenceInv, Evidence!EvidenceTypeOK, Evidence!OnlyPublicIsRead
<1>2. web' = web /\ e.pc = "verify" /\ f.pc = "request" /\ f.status = "none" /\ i \in DOMAIN Evidence!sources
  BY <1>1 DEF Evidence!fetchPublicResource, Evidence!FetchesAreOfSources
<1>3. visited' \subseteq web.public
  BY <1>1 DEF Evidence!fetchPublicResource, Evidence!publicUrl, Evidence!isPublicFeedAddress
<1>4. ASSUME NEW g \in Evidence!Fetch, fetch' = [fetch EXCEPT ![i] = g], NEW V \in SUBSET Urls, evidence' = [e EXCEPT !.verified = V],
             g.status # "none" => g.pc = "done", g.status = "matched" => g.url \in web.quotes \cap web.public,
             V = e.verified \/ (g.status = "matched" /\ V = e.verified \cup {Evidence!sources[i].url})
      PROVE  Evidence!EvidenceInv'
  <2> HIDE DEF e, f
  <2>1. fetch' \in [Evidence!Indices -> Evidence!Fetch] /\ \A k \in Evidence!Indices : fetch'[k] = IF k = i THEN g ELSE fetch[k]
    BY <1>1, <1>4
  <2>2. evidence' \in Evidence!Call /\ evidence'.pc = e.pc /\ evidence'.report = e.report /\ evidence'.verified = V
    BY <1>1, <1>4 DEF Evidence!Call
  <2>3. Evidence!sources' = Evidence!sources
    BY <2>2 DEF Evidence!sources, e
  <2>4. Evidence!FetchesAreOfSources'
    BY <1>1, <1>2, <1>4, <2>1, <2>3 DEF Evidence!FetchesAreOfSources
  <2>5. Evidence!VerifiedMatched'
    <3>1. ASSUME NEW u \in e.verified
          PROVE  \E k \in Evidence!Indices : k \in DOMAIN Evidence!sources /\ Evidence!sources[k].url = u /\ fetch'[k].status = "matched"
      <4>1. PICK k \in Evidence!Indices : k \in DOMAIN Evidence!sources /\ Evidence!sources[k].url = u /\ fetch[k].status = "matched"
        BY <1>1 DEF Evidence!VerifiedMatched, e
      <4>2. k # i
        BY <1>2, <4>1 DEF f
      <4> QED BY <2>1, <4>1, <4>2
    <3>2. ASSUME NEW u \in V
          PROVE  \E k \in Evidence!Indices : k \in DOMAIN Evidence!sources /\ Evidence!sources[k].url = u /\ fetch'[k].status = "matched"
      BY <1>2, <1>4, <2>1, <3>1
    <3> QED BY <2>2, <2>3, <3>2 DEF Evidence!VerifiedMatched
  <2> QED BY <1>2, <1>3, <2>1, <2>2, <2>4, <2>5, EvidenceKept DEF e
<1>5. ASSUME NEW x \in Evidence!RetrievalStatus \ {"none"}, x = "matched" => f.url \in web.quotes \cap web.public, Evidence!ends(i, x)
      PROVE  Evidence!EvidenceInv'
  <2>1. PICK done \in Evidence!FetchSteps : done = "done"
    BY DEF Evidence!FetchSteps
  <2>2. PICK g : g = [f EXCEPT !.pc = done, !.status = x]
    OBVIOUS
  <2>3. g \in Evidence!Fetch /\ g.pc = done /\ g.status = x /\ g.url = f.url
    <3> HIDE DEF f
    <3> QED BY <1>1, <1>5, <2>2 DEF Evidence!Fetch
  <2>4. fetch' = [fetch EXCEPT ![i] = g]
    BY <1>1, <1>5, <2>1, <2>2 DEF Evidence!ends
  <2>5. PICK V : /\ evidence' = [e EXCEPT !.verified = V]
                 /\ V = (IF x = "matched" THEN e.verified \cup {Evidence!sources[i].url} ELSE e.verified)
    BY <1>5 DEF Evidence!ends
  <2>6. V \in SUBSET Urls
    <3>1. e.verified \subseteq Urls /\ Evidence!sources[i].url \in Urls
      <4>1. Evidence!sources \in Seq([url : Urls, quoted : BOOLEAN]) /\ e.verified \subseteq Urls
        BY <1>1 DEF Evidence!Call, Evidence!SourcingResult, Evidence!sources
      <4>2. Evidence!sources[i] \in [url : Urls, quoted : BOOLEAN]
        BY <1>2, <4>1, SequenceElement, Zenon
      <4> QED BY <4>1, <4>2
    <3> QED BY <2>5, <3>1
  <2> QED BY <1>4, <1>5, <2>1, <2>3, <2>4, <2>5, <2>6
<1>6. ASSUME web.redirect[f.url] # NoUrl, f.url \in web.public, ~(f.hops > MaxRedirects), evidence' = evidence,
             fetch' = [fetch EXCEPT ![i].url = web.redirect[f.url], ![i].hops = @ + 1]
      PROVE  Evidence!EvidenceInv'
  <2>1. web \in Evidence!Web /\ f.url \in Urls
    BY <1>6 DEF Evidence!EvidenceInv, Evidence!EvidenceTypeOK, Evidence!Web
  <2>2. PICK u \in Urls \cup {NoUrl} : u = web.redirect[f.url]
    BY <2>1 DEF Evidence!Web
  <2>3. PICK h \in Evidence!Hops : h = f.hops + 1
    <3>1. f.hops \in 0..(MaxRedirects + 1) /\ MaxRedirects \in Nat
      BY <1>1, BoundsAssumption DEF Evidence!Fetch, Evidence!Hops
    <3> QED BY <1>6, <3>1 DEF Evidence!Hops
  <2>4. PICK g : g = [f EXCEPT !.url = u, !.hops = h]
    OBVIOUS
  <2>5. g \in Evidence!Fetch /\ g.pc = f.pc /\ g.status = f.status
    <3> HIDE DEF f
    <3> QED BY <1>1, <2>4 DEF Evidence!Fetch
  <2>6. fetch' = [fetch EXCEPT ![i] = g]
    BY <1>1, <1>6, <2>2, <2>3, <2>4
  <2>7. e.verified \in SUBSET Urls /\ evidence' = [e EXCEPT !.verified = e.verified]
    BY <1>1, <1>6 DEF Evidence!Call
  <2> QED BY <1>2, <1>4, <2>5, <2>6, <2>7
<1>7. CASE Evidence!ends(i, "unavailable")
  BY <1>5, <1>7 DEF Evidence!RetrievalStatus
<1>8. ASSUME f.url \in web.public, Evidence!ends(i, IF Evidence!matches(i, f.url) THEN "matched" ELSE "mismatch")
      PROVE  Evidence!EvidenceInv'
  <2>1. PICK x \in Evidence!RetrievalStatus \ {"none"} :
          x = (IF Evidence!matches(i, f.url) THEN "matched" ELSE "mismatch")
    BY DEF Evidence!RetrievalStatus
  <2>2. Evidence!ends(i, x) /\ (x = "matched" => f.url \in web.quotes \cap web.public)
    BY <1>8, <2>1 DEF Evidence!matches
  <2> QED BY <1>5, <2>2
<1> QED BY <1>6, <1>7, <1>8 DEF Evidence!fetchPublicResource, Evidence!publicUrl, Evidence!isPublicFeedAddress

\* The verdict on the claims.
LEMMA EvidenceVerdict ==
  ASSUME Evidence!EvidenceInv, Evidence!verifySourceExcerpts
  PROVE  Evidence!EvidenceInv'
<1> DEFINE e == evidence  done == "done"
           judged == {[c EXCEPT !.status = IF @ = "supported" /\ ~Evidence!allVerified(c) THEN "unverified" ELSE @] :
                        c \in e.report.claims}
           Claim == [status : Evidence!ClaimStatus, urls : SUBSET Urls]
<1>1. /\ e \in Evidence!Call /\ fetch \in [Evidence!Indices -> Evidence!Fetch] /\ visited \subseteq web.public
      /\ Evidence!FetchesAreOfSources /\ Evidence!VerifiedMatched /\ done \in Evidence!CallSteps
  BY DEF Evidence!EvidenceInv, Evidence!EvidenceTypeOK, Evidence!OnlyPublicIsRead, Evidence!CallSteps
<1>2. UNCHANGED <<web, fetch, visited>> /\ evidence' = [e EXCEPT !.pc = done, !.report.claims = judged]
  BY DEF Evidence!verifySourceExcerpts
<1>3. e.report \in Evidence!SourcingResult /\ e.report.claims \subseteq Claim
  BY <1>1 DEF Evidence!Call, Evidence!SourcingResult
<1>4. \A c \in judged : c \in Claim /\ (c.status = "supported" => Evidence!allVerified(c))
  <2>1. ASSUME NEW c \in Claim, NEW k, k = [c EXCEPT !.status = IF @ = "supported" /\ ~Evidence!allVerified(c) THEN "unverified" ELSE @]
        PROVE  k \in Claim /\ (k.status = "supported" => Evidence!allVerified(k))
    <3>1. k \in Claim /\ k.urls = c.urls /\ (k.status = "supported" => Evidence!allVerified(c))
      BY <2>1 DEF Evidence!ClaimStatus
    <3> QED BY <3>1 DEF Evidence!allVerified
  <2> QED BY <1>3, <2>1
<1>5. PICK x : x = [e.report EXCEPT !.claims = judged]
  OBVIOUS
<1>6. evidence' = [e EXCEPT !.pc = done, !.report = x]
  BY <1>2, <1>5
<1> HIDE DEF e, done, judged
<1>7. x \in Evidence!SourcingResult /\ x.sources = e.report.sources /\ x.claims = judged
  BY <1>3, <1>4, <1>5 DEF Evidence!SourcingResult
<1>8. evidence' \in Evidence!Call /\ evidence'.pc = done /\ evidence'.report = x /\ evidence'.verified = e.verified
  BY <1>1, <1>6, <1>7 DEF Evidence!Call
<1>9. Evidence!sources' = Evidence!sources
  BY <1>7, <1>8 DEF Evidence!sources, e
<1>10. Evidence!FetchesAreOfSources' /\ Evidence!VerifiedMatched'
  BY <1>1, <1>2, <1>8, <1>9 DEF Evidence!FetchesAreOfSources, Evidence!VerifiedMatched, e
<1>11. \A c \in evidence'.report.claims : c.status = "supported" => Evidence!allVerified(c)'
  BY <1>4, <1>7, <1>8 DEF Evidence!allVerified, e
<1>12. evidence'.pc # "ask"
  BY <1>8 DEF done
<1> QED BY <1>1, <1>2, <1>7, <1>8, <1>10, <1>11, <1>12, EvidenceKept DEF e

\* Every step of the verifier keeps what was asked, kept and quoted.
LEMMA EvidenceNext == Evidence!EvidenceInv /\ [Evidence!EvidenceNext]_evidenceVars => Evidence!EvidenceInv'
<1> SUFFICES ASSUME Evidence!EvidenceInv, [Evidence!EvidenceNext]_evidenceVars PROVE Evidence!EvidenceInv'
  OBVIOUS
<1>1. CASE UNCHANGED evidenceVars
  BY <1>1 DEF evidenceVars, Evidence!EvidenceInv, Evidence!EvidenceTypeOK, Evidence!FetchesAreOfSources, Evidence!VerifiedMatched,
     Evidence!OnlyPublicIsRead, Evidence!allVerified, Evidence!sources
<1> QED BY <1>1, EvidenceAsked, EvidenceBatches, EvidenceHops, EvidenceVerdict DEF Evidence!EvidenceNext

\* What the invariant of the check says of its verdicts.
LEMMA EvidenceImplies ==
  ASSUME Evidence!EvidenceInv
  PROVE  Evidence!EvidenceTypeOK /\ Evidence!SupportedIsQuoted /\ Evidence!OnlyPublicIsRead
<1>1. ASSUME evidence.pc = "done", NEW c \in evidence.report.claims, c.status = "supported", NEW u \in c.urls
      PROVE  \E i \in DOMAIN Evidence!sources :
               /\ Evidence!sources[i].url = u /\ fetch[i].status = "matched" /\ fetch[i].url \in web.quotes \cap web.public
  <2>1. u \in evidence.verified
    BY <1>1 DEF Evidence!EvidenceInv, Evidence!allVerified
  <2> QED BY <2>1 DEF Evidence!EvidenceInv, Evidence!VerifiedMatched, Evidence!FetchesAreOfSources
<1>2. ASSUME evidence.pc = "done", NEW c \in evidence.report.claims, c.status = "supported" PROVE c.urls # {}
  BY <1>2 DEF Evidence!EvidenceInv, Evidence!allVerified
<1> QED BY <1>1, <1>2 DEF Evidence!EvidenceInv, Evidence!SupportedIsQuoted

-----------------------------------------------------------------------------
(* Proofs.  The comment inbox.                                             *)

\* A reader that holds no notice.
LEMMA IdleReader ==
  /\ Inbox!Idle \in Inbox!Reader /\ Inbox!Idle.pc = "idle"
<1>1. "idle" \in Inbox!ReaderStages /\ 0 \in Inbox!PagesRead
  BY DEF Inbox!ReaderStages, Inbox!PagesRead
<1> QED BY <1>1 DEF Inbox!Idle, Inbox!Reader

\* No comment has been read.
LEMMA InboxInit == Inbox!EngagementInboxInit => Inbox!InboxInv
<1> SUFFICES ASSUME Inbox!EngagementInboxInit PROVE Inbox!InboxInv
  OBVIOUS
<1>1. \A n \in Inbox!Notices : receipts[n] \in Inbox!EngagementWebhookReceipt
  <2>1. "none" \in Inbox!ReceiptStatus
    BY DEF Inbox!ReceiptStatus
  <2> QED BY <2>1 DEF Inbox!EngagementInboxInit, Inbox!EngagementWebhookReceipt
<1>2. receipts \in [Inbox!Notices -> Inbox!EngagementWebhookReceipt] /\ readers \in [Readers -> Inbox!Reader]
  BY <1>1, IdleReader DEF Inbox!EngagementInboxInit
<1>3. \A h \in Readers : readers[h].pc = "idle"
  BY IdleReader DEF Inbox!EngagementInboxInit
<1>4. Inbox!EngagementInboxTypeOK
  <2>1. remote \in [Comments -> Inbox!EngagementComment] /\ stored \in [Comments -> Inbox!EngagementComment]
    BY DEF Inbox!EngagementInboxInit, Inbox!EngagementComment
  <2>2. conversation \in Inbox!EngagementThread /\ proofSaved \in BOOLEAN
    BY DEF Inbox!EngagementInboxInit, Inbox!EngagementThread
  <2>3. stops \in 0..MaxStops
    BY BoundsAssumption DEF Inbox!EngagementInboxInit
  <2> QED BY <1>2, <2>1, <2>2, <2>3 DEF Inbox!EngagementInboxTypeOK
<1> QED BY <1>3, <1>4 DEF Inbox!InboxInv

\* What is found on the platform or told by a notice is stored with a visibility.
LEMMA Ingested ==
  ASSUME Inbox!EngagementInboxTypeOK, NEW found \in SUBSET (Comments \X Inbox!EngagementCommentVisibility),
         Inbox!ingest(found, TRUE)
  PROVE  stored' \in [Comments -> Inbox!EngagementComment] /\ conversation' \in Inbox!EngagementThread
<1>1. stored \in [Comments -> Inbox!EngagementComment] /\ conversation \in Inbox!EngagementThread
  BY DEF Inbox!EngagementInboxTypeOK
<1>2. ASSUME NEW c \in Comments, \E x \in found : x[1] = c
      PROVE  (CHOOSE x \in found : x[1] = c)[2] \in Inbox!EngagementComment
  BY <1>2 DEF Inbox!EngagementComment
<1>3. stored' = [c \in Comments |-> IF \E x \in found : x[1] = c THEN (CHOOSE x \in found : x[1] = c)[2] ELSE stored[c]]
  BY Zenon DEF Inbox!ingest
<1>4. \A c \in Comments : (IF \E x \in found : x[1] = c THEN (CHOOSE x \in found : x[1] = c)[2] ELSE stored[c]) \in Inbox!EngagementComment
  BY <1>1, <1>2
<1>5. stored' \in [Comments -> Inbox!EngagementComment]
  BY <1>3, <1>4
<1>6. conversation' \in Inbox!EngagementThread
  BY <1>1 DEF Inbox!ingest, Inbox!EngagementThread
<1> QED BY <1>5, <1>6

\* The steps that leave the executions alone.
LEMMA InboxOutside ==
  ASSUME Inbox!InboxInv,
         \/ \E c \in Comments : Inbox!PersonComments(c) \/ Inbox!ModeratorHides(c) \/ Inbox!PersonDeletes(c)
         \/ \E n \in Inbox!Notices : Inbox!receiveFacebook(n) \/ Inbox!receiveInstagram(n) \/ Inbox!ReceiptLeaseExpires(n)
         \/ Inbox!ProofIsSaved \/ Inbox!TimePasses \/ Inbox!updateThread \/ Inbox!markRead
  PROVE  Inbox!InboxInv'
<1>1. Inbox!EngagementInboxTypeOK /\ UNCHANGED <<readers, stops>> /\ stored' = stored
  BY DEF Inbox!InboxInv, Inbox!PersonComments, Inbox!ModeratorHides, Inbox!PersonDeletes, Inbox!receiveFacebook,
     Inbox!receiveInstagram, Inbox!ReceiptLeaseExpires, Inbox!ProofIsSaved, Inbox!TimePasses, Inbox!updateThread, Inbox!markRead
<1>2. ASSUME NEW n \in Inbox!Notices, Inbox!recordWebhookReceipt(n) \/ receipts' = [receipts EXCEPT ![n].leased = FALSE]
      PROVE  receipts' \in [Inbox!Notices -> Inbox!EngagementWebhookReceipt]
  <2>1. PICK x \in Inbox!ReceiptStatus : x = IF receipts[n].status = "none" THEN "pending" ELSE receipts[n].status
    BY <1>1 DEF Inbox!EngagementInboxTypeOK, Inbox!EngagementWebhookReceipt, Inbox!ReceiptStatus
  <2>2. receipts' = [receipts EXCEPT ![n].status = x] \/ receipts' = [receipts EXCEPT ![n].leased = FALSE]
    BY <1>2, <2>1 DEF Inbox!recordWebhookReceipt
  <2>3. receipts \in [Inbox!Notices -> Inbox!EngagementWebhookReceipt]
    BY <1>1 DEF Inbox!EngagementInboxTypeOK
  <2>4. \A y \in Inbox!EngagementWebhookReceipt : /\ [y EXCEPT !.status = x] \in Inbox!EngagementWebhookReceipt
                                                  /\ [y EXCEPT !.leased = FALSE] \in Inbox!EngagementWebhookReceipt
    BY DEF Inbox!EngagementWebhookReceipt
  <2> QED BY <2>2, <2>3, <2>4
<1>3. receipts' \in [Inbox!Notices -> Inbox!EngagementWebhookReceipt]
  <2>1. receipts' = receipts \/ \E n \in Inbox!Notices : Inbox!recordWebhookReceipt(n) \/ receipts' = [receipts EXCEPT ![n].leased = FALSE]
    BY DEF Inbox!PersonComments, Inbox!ModeratorHides, Inbox!PersonDeletes, Inbox!receiveFacebook,
       Inbox!receiveInstagram, Inbox!ReceiptLeaseExpires, Inbox!ProofIsSaved, Inbox!TimePasses, Inbox!updateThread, Inbox!markRead
  <2> QED BY <1>1, <1>2, <2>1 DEF Inbox!EngagementInboxTypeOK
<1>4. remote' \in [Comments -> Inbox!EngagementComment]
  BY <1>1 DEF Inbox!EngagementInboxTypeOK, Inbox!EngagementComment, Inbox!EngagementCommentVisibility,
     Inbox!PersonComments, Inbox!ModeratorHides, Inbox!PersonDeletes, Inbox!receiveFacebook,
     Inbox!receiveInstagram, Inbox!ReceiptLeaseExpires, Inbox!ProofIsSaved, Inbox!TimePasses, Inbox!updateThread, Inbox!markRead
<1>5. conversation' \in Inbox!EngagementThread /\ proofSaved' \in BOOLEAN
  BY <1>1 DEF Inbox!EngagementInboxTypeOK, Inbox!EngagementThread,
     Inbox!PersonComments, Inbox!ModeratorHides, Inbox!PersonDeletes, Inbox!receiveFacebook,
     Inbox!receiveInstagram, Inbox!ReceiptLeaseExpires, Inbox!ProofIsSaved, Inbox!TimePasses, Inbox!updateThread, Inbox!markRead
<1>6. Inbox!EngagementInboxTypeOK'
  BY <1>1, <1>3, <1>4, <1>5 DEF Inbox!EngagementInboxTypeOK
<1> QED BY <1>1, <1>6 DEF Inbox!InboxInv

\* An execution takes its next step and the store stays typed.
LEMMA ReaderMoves ==
  ASSUME Inbox!InboxInv, NEW h \in Readers, NEW q \in Inbox!Reader, q.pc = "claimed" => q.notice \in Inbox!Notices,
         readers' = [readers EXCEPT ![h] = q], remote' = remote, proofSaved' = proofSaved, stops' \in 0..MaxStops,
         stored' \in [Comments -> Inbox!EngagementComment], conversation' \in Inbox!EngagementThread,
         receipts' \in [Inbox!Notices -> Inbox!EngagementWebhookReceipt]
  PROVE  Inbox!InboxInv'
<1>1. readers \in [Readers -> Inbox!Reader]
  BY DEF Inbox!InboxInv, Inbox!EngagementInboxTypeOK
<1>2. readers' \in [Readers -> Inbox!Reader] /\ \A v \in Readers : readers'[v] = IF v = h THEN q ELSE readers[v]
  BY <1>1
<1>3. Inbox!EngagementInboxTypeOK'
  BY <1>2 DEF Inbox!InboxInv, Inbox!EngagementInboxTypeOK
<1>4. \A v \in Readers : readers'[v].pc = "claimed" => readers'[v].notice \in Inbox!Notices
  BY <1>2 DEF Inbox!InboxInv
<1> QED BY <1>3, <1>4 DEF Inbox!InboxInv

\* A notice is claimed or released.
LEMMA ReceiptRows ==
  ASSUME Inbox!InboxInv, NEW h \in Readers, NEW n \in Inbox!Notices,
         \/ Inbox!claimWebhookReceipts(h, n) \/ Inbox!completeWebhookReceipt(h, n) \/ Inbox!failWebhookReceipt(h, n)
  PROVE  receipts' \in [Inbox!Notices -> Inbox!EngagementWebhookReceipt]
<1>1. receipts \in [Inbox!Notices -> Inbox!EngagementWebhookReceipt] /\ receipts[n] \in Inbox!EngagementWebhookReceipt
  BY DEF Inbox!InboxInv, Inbox!EngagementInboxTypeOK
<1>2. CASE Inbox!claimWebhookReceipts(h, n)
  <2>1. PICK x \in Inbox!ReceiptStatus : x = "processing"
    BY DEF Inbox!ReceiptStatus
  <2>2. PICK k \in Nat : k = receipts[n].attempts + 1
    BY <1>1 DEF Inbox!EngagementWebhookReceipt
  <2>3. receipts' = [receipts EXCEPT ![n] = [status |-> x, attempts |-> k, owner |-> h, leased |-> TRUE]]
    BY <1>2, <2>1, <2>2 DEF Inbox!claimWebhookReceipts
  <2>4. [status |-> x, attempts |-> k, owner |-> h, leased |-> TRUE] \in Inbox!EngagementWebhookReceipt
    BY DEF Inbox!EngagementWebhookReceipt
  <2> QED BY <1>1, <2>3, <2>4
<1>3. ASSUME NEW x \in Inbox!ReceiptStatus, receipts' = receipts \/ receipts' = Inbox!Released(n, x)
      PROVE  receipts' \in [Inbox!Notices -> Inbox!EngagementWebhookReceipt]
  <2>1. receipts' = receipts \/ receipts' = [receipts EXCEPT ![n] = [receipts[n] EXCEPT !.status = x, !.owner = NoReader, !.leased = FALSE]]
    BY <1>1, <1>3 DEF Inbox!Released
  <2>2. [receipts[n] EXCEPT !.status = x, !.owner = NoReader, !.leased = FALSE] \in Inbox!EngagementWebhookReceipt
    BY <1>1 DEF Inbox!EngagementWebhookReceipt
  <2> QED BY <1>1, <2>1, <2>2
<1>4. {"processed", "failed", "pending"} \subseteq Inbox!ReceiptStatus
  BY DEF Inbox!ReceiptStatus
<1>5. CASE Inbox!completeWebhookReceipt(h, n) \/ Inbox!failWebhookReceipt(h, n)
  BY <1>3, <1>4, <1>5 DEF Inbox!completeWebhookReceipt, Inbox!failWebhookReceipt
<1> QED BY <1>2, <1>5

\* Every step of the inbox and of the network keeps the invariant.
LEMMA InboxNext ==
  ASSUME Inbox!InboxInv, Inbox!EngagementInboxNext
  PROVE  Inbox!InboxInv'
<1>1. /\ stored \in [Comments -> Inbox!EngagementComment] /\ conversation \in Inbox!EngagementThread
      /\ receipts \in [Inbox!Notices -> Inbox!EngagementWebhookReceipt] /\ readers \in [Readers -> Inbox!Reader]
      /\ stops \in 0..MaxStops /\ Inbox!EngagementInboxTypeOK
  BY DEF Inbox!InboxInv, Inbox!EngagementInboxTypeOK
<1>2. PICK claimed, reading, read, complete, failed :
        /\ claimed = "claimed" /\ reading = "reading" /\ read = "read" /\ complete = "complete" /\ failed = "failed"
        /\ {claimed, reading, read, complete, failed} \subseteq Inbox!ReaderStages
        /\ \A x \in {reading, read, complete, failed} : x # "claimed"
  BY DEF Inbox!ReaderStages
<1> SUFFICES ASSUME NEW h \in Readers,
                    Inbox!ReaderSteps(h) \/ Inbox!refreshProof(h) \/ Inbox!ReadFails(h) \/ Inbox!ReaderStops(h)
             PROVE  Inbox!InboxInv'
  BY InboxOutside DEF Inbox!EngagementInboxNext
<1> DEFINE q == readers[h]
<1>3. q \in Inbox!Reader
  BY <1>1
<1>4. ASSUME NEW n \in Inbox!Notices, Inbox!processReceipt(h, n) PROVE Inbox!InboxInv'
  <2>1. PICK p : p = [Inbox!Idle EXCEPT !.pc = claimed, !.notice = n]
    OBVIOUS
  <2>2. p \in Inbox!Reader /\ p.notice = n
    BY <1>2, <2>1, IdleReader DEF Inbox!Reader
  <2>3. receipts' \in [Inbox!Notices -> Inbox!EngagementWebhookReceipt]
    BY <1>4, ReceiptRows DEF Inbox!processReceipt
  <2>4. readers' = [readers EXCEPT ![h] = p] /\ UNCHANGED <<remote, stored, conversation, proofSaved, stops>>
    BY <1>2, <1>4, <2>1 DEF Inbox!processReceipt
  <2> QED BY <1>1, <2>2, <2>3, <2>4, ReaderMoves
<1>5. ASSUME NEW x \in {reading, read, complete, failed}, Inbox!ReaderTo(h, x), remote' = remote, proofSaved' = proofSaved, stops' = stops,
             stored' \in [Comments -> Inbox!EngagementComment], conversation' \in Inbox!EngagementThread, receipts' = receipts
      PROVE  Inbox!InboxInv'
  <2>1. PICK p : p = [q EXCEPT !.pc = x]
    OBVIOUS
  <2>2. p \in Inbox!Reader /\ p.pc = x
    <3> HIDE DEF q
    <3> QED BY <1>2, <1>3, <2>1 DEF Inbox!Reader
  <2>3. readers' = [readers EXCEPT ![h] = p]
    BY <1>1, <1>5, <2>1 DEF Inbox!ReaderTo
  <2> QED BY <1>1, <1>2, <1>5, <2>2, <2>3, ReaderMoves
<1>6. CASE Inbox!applyNotice(h)
  <2>1. q.notice \in Inbox!Notices
    BY <1>6 DEF Inbox!applyNotice, Inbox!InboxInv
  <2>2. {<<q.notice[1], Inbox!visibilityFor(q.notice[2])>>} \in SUBSET (Comments \X Inbox!EngagementCommentVisibility)
    <3>1. PICK c \in Comments, v \in {"add", "remove"} : q.notice = <<c, v>>
      BY <2>1 DEF Inbox!Notices
    <3>2. Inbox!visibilityFor(v) \in Inbox!EngagementCommentVisibility
      BY DEF Inbox!visibilityFor, Inbox!EngagementCommentVisibility
    <3> QED BY <3>1, <3>2
  <2>3. \/ UNCHANGED <<stored, conversation>>
        \/ Inbox!ingest({<<q.notice[1], Inbox!visibilityFor(q.notice[2])>>}, TRUE)
    BY <1>6 DEF Inbox!applyNotice, Inbox!NoticeOf
  <2>4. stored' \in [Comments -> Inbox!EngagementComment] /\ conversation' \in Inbox!EngagementThread
    BY <1>1, <2>2, <2>3, Ingested
  <2>5. \E x \in {reading, complete} : Inbox!ReaderTo(h, x)
    BY <1>2, <1>6 DEF Inbox!applyNotice
  <2> QED BY <1>5, <1>6, <2>4, <2>5 DEF Inbox!applyNotice
<1>7. CASE Inbox!reconcileStale(h) \/ Inbox!refreshProof(h)
  <2>1. PICK p : p = [Inbox!Idle EXCEPT !.pc = reading]
    OBVIOUS
  <2>2. p \in Inbox!Reader /\ p.pc = reading
    BY <1>2, <2>1, IdleReader DEF Inbox!Reader
  <2>3. readers' = [readers EXCEPT ![h] = p] /\ UNCHANGED <<remote, stored, conversation, proofSaved, receipts, stops>>
    BY <1>2, <1>7, <2>1 DEF Inbox!reconcileStale, Inbox!refreshProof
  <2> QED BY <1>1, <1>2, <2>2, <2>3, ReaderMoves
<1>8. CASE Inbox!readCommentEdge(h)
  <2>1. UNCHANGED <<remote, stored, conversation, proofSaved, receipts, stops>>
    BY <1>8 DEF Inbox!readCommentEdge
  <2>2. CASE q.page + 1 > 1
    BY <1>1, <1>2, <1>5, <1>8, <2>1, <2>2 DEF Inbox!readCommentEdge
  <2>3. CASE ~(q.page + 1 > 1)
    <3>1. PICK k \in Inbox!PagesRead : k = q.page + 1
      BY <1>3, <2>3 DEF Inbox!Reader, Inbox!PagesRead
    <3>2. PICK F \in SUBSET (Comments \X Inbox!EngagementCommentVisibility) :
            F = q.found \cup {Inbox!mapFacebookComment(c) : c \in Inbox!Listed(k)}
      <4>1. q.found \subseteq Comments \X Inbox!EngagementCommentVisibility
        BY <1>3 DEF Inbox!Reader
      <4>2. \A c \in Inbox!Listed(k) : Inbox!mapFacebookComment(c) \in Comments \X Inbox!EngagementCommentVisibility
        BY DEF Inbox!Listed, Inbox!mapFacebookComment, Inbox!EngagementCommentVisibility
      <4> QED BY <4>1, <4>2
    <3>3. PICK x \in {read, reading} : x = IF k = 1 THEN "read" ELSE "reading"
      BY <1>2
    <3>4. PICK p : p = [q EXCEPT !.page = k, !.found = F, !.pc = x]
      OBVIOUS
    <3>5. p \in Inbox!Reader /\ p.pc = x
      <4> HIDE DEF q
      <4> QED BY <1>2, <1>3, <3>4 DEF Inbox!Reader
    <3>6. readers' = [readers EXCEPT ![h] = p]
      BY <1>1, <1>8, <2>3, <3>1, <3>2, <3>3, <3>4 DEF Inbox!readCommentEdge
    <3> QED BY <1>1, <1>2, <2>1, <3>5, <3>6, ReaderMoves
  <2> QED BY <2>2, <2>3
<1>9. CASE Inbox!ReadFails(h)
  BY <1>1, <1>2, <1>5, <1>9 DEF Inbox!ReadFails
<1>10. CASE Inbox!reconcile(h)
  <2>1. q.found \in SUBSET (Comments \X Inbox!EngagementCommentVisibility)
    BY <1>3 DEF Inbox!Reader
  <2>2. stored' \in [Comments -> Inbox!EngagementComment] /\ conversation' \in Inbox!EngagementThread
    BY <1>1, <1>10, <2>1, Ingested DEF Inbox!reconcile
  <2> QED BY <1>2, <1>5, <1>10, <2>2 DEF Inbox!reconcile
<1>11. CASE Inbox!finishReceipt(h) \/ Inbox!ReaderStops(h)
  <2>1. /\ readers' = [readers EXCEPT ![h] = Inbox!Idle] /\ UNCHANGED <<remote, stored, conversation, proofSaved>>
    BY <1>11 DEF Inbox!finishReceipt, Inbox!ReaderStops
  <2>2. stops' \in 0..MaxStops
    BY <1>1, <1>11, BoundsAssumption DEF Inbox!finishReceipt, Inbox!ReaderStops
  <2>3. q.notice = NoNotice \/ q.notice \in Inbox!Notices
    BY <1>3 DEF Inbox!Reader
  <2>4. \/ receipts' = receipts
        \/ q.notice # NoNotice /\ (Inbox!completeWebhookReceipt(h, q.notice) \/ Inbox!failWebhookReceipt(h, q.notice))
    BY <1>11 DEF Inbox!finishReceipt, Inbox!ReaderStops, Inbox!NoticeOf
  <2>5. receipts' \in [Inbox!Notices -> Inbox!EngagementWebhookReceipt]
    BY <1>1, <2>3, <2>4, ReceiptRows
  <2> QED BY <1>1, <2>1, <2>2, <2>5, IdleReader, ReaderMoves
<1> QED BY <1>4, <1>6, <1>7, <1>8, <1>9, <1>10, <1>11 DEF Inbox!ReaderSteps

-----------------------------------------------------------------------------
(* Proofs.  The components together.                                       *)

\* The components' invariants hold side by side: the ones that Init did not choose stay where they began.
ProgressInv ==
  /\ Delivery!DeliveryInv /\ Research!ResearchInv /\ Inbox!InboxInv /\ Access!AccessInv
  /\ Bridge!CodexInv /\ Capture!CaptureInv /\ Evidence!EvidenceInv

\* They hold before any work was taken on.
LEMMA ProgressInit == Init => ProgressInv
  BY AccessAssumption, DeliveryInit, ResearchInit, InboxInit, Access!AccessInitInv, BridgeInit, CaptureInit, EvidenceInit DEF Init, ProgressInv

\* A step is a step of one component and leaves the variables of the others alone.
LEMMA ProgressSteps ==
  ASSUME [Next]_vars
  PROVE  /\ Delivery!Next \/ UNCHANGED deliveryVars
         /\ Research!Next \/ UNCHANGED researchVars
         /\ Inbox!EngagementInboxNext \/ UNCHANGED commentVars
         /\ [Access!AccessNext]_accessVars
         /\ [Bridge!CodexNext]_bridgeVars /\ [Capture!CaptureNext]_captureVars /\ [Evidence!EvidenceNext]_evidenceVars
<1>1. CASE UNCHANGED vars
  BY <1>1 DEF vars
<1>2. CASE Next
  BY <1>2, Zenon DEF Next, DeliverySteps, ResearchSteps, CommentSteps, DeletionSteps, BridgeSteps, CaptureSteps, EvidenceSteps
<1> QED BY <1>1, <1>2

\* Every step keeps every component's invariant and leaves a completed research run alone.
LEMMA ProgressNext ==
  ASSUME ProgressInv, [Next]_vars
  PROVE  ProgressInv' /\ [Research!CompletedIsFinal]_vars
<1>1. Delivery!DeliveryInv'
  <2>1. CASE UNCHANGED deliveryVars
    BY <2>1 DEF deliveryVars, ProgressInv, Delivery!DeliveryInv, Delivery!TypeOK, Delivery!KeysAreCounted, Delivery!HandsAreServed,
       Delivery!JobsAreCounted, Delivery!ClosedHasSomeJob, Delivery!Unsettled
  <2> QED BY <2>1, ProgressSteps, DeliveryNext DEF ProgressInv
<1>2. Research!ResearchInv' /\ Research!CompletedIsFinal
  <2>1. CASE UNCHANGED researchVars
    BY <2>1 DEF researchVars, ProgressInv, Research!ResearchInv, Research!TypeOK, Research!CompletedIsFinal
  <2> QED BY <2>1, ProgressSteps, ResearchNext DEF ProgressInv
<1>3. Inbox!InboxInv'
  <2>1. CASE UNCHANGED commentVars
    BY <2>1 DEF commentVars, ProgressInv, Inbox!InboxInv, Inbox!EngagementInboxTypeOK
  <2> QED BY <2>1, ProgressSteps, InboxNext DEF ProgressInv
<1>4. Bridge!CodexInv' /\ Capture!CaptureInv' /\ Evidence!EvidenceInv'
  BY ProgressSteps, BridgeNext, CaptureNext, EvidenceNext DEF ProgressInv
<1>5. Access!AccessInv'
  <2>1. [Access!AccessNext]_Access!accessVars
    BY ProgressSteps DEF accessVars, Access!accessVars
  <2> QED BY <2>1, AccessAssumption, Access!AccessNextInv DEF ProgressInv
<1> QED BY <1>1, <1>2, <1>3, <1>4, <1>5 DEF ProgressInv

\* Every variable keeps its type, for any number of workers, runs, readers, accounts, requests, pages and sources.
THEOREM ProgressTypes == Spec => []TypesOK
<1>1. ProgressInv /\ [Next]_vars => ProgressInv'
  BY ProgressNext
<1>2. ProgressInv => TypesOK
  BY DeliveryImplies DEF ProgressInv, TypesOK, Delivery!DeliveryInv, Research!ResearchInv, Inbox!InboxInv, Access!AccessInv,
     Bridge!CodexInv, Capture!CaptureInv, Evidence!EvidenceInv
<1> QED BY <1>1, <1>2, ProgressInit, PTL DEF Spec

\* A publish command gets a second job only after a crash and an unsettled target is never forgotten, whatever the
\* number of workers, crashes, lost connections and attempts.
THEOREM ProgressCommandsOfAll == Spec => [](Delivery!OneJobWithoutCrash /\ Delivery!NeverForgotten)
<1>1. ProgressInv /\ [Next]_vars => ProgressInv'
  BY ProgressNext
<1>2. ProgressInv => Delivery!OneJobWithoutCrash /\ Delivery!NeverForgotten
  BY DeliveryImplies DEF ProgressInv
<1> QED BY <1>1, <1>2, ProgressInit, PTL DEF Spec

\* A publish command is neither lost nor doubled, when one worker delivers it: a second one can close a command
\* whose next key has no job yet.
THEOREM ProgressCommands ==
  ASSUME \A v, w \in Workers : v = w
  PROVE  Spec => []CommandsAreKept
<1> DEFINE KeptInv == ProgressInv /\ Delivery!HandIsCurrent /\ Delivery!ProcessedHasJob
<1>1. Init => KeptInv
  BY ProgressInit, DeliveryInit DEF Init
<1>2. KeptInv /\ [Next]_vars => KeptInv'
  <2> SUFFICES ASSUME KeptInv, [Next]_vars PROVE KeptInv'
    OBVIOUS
  <2>1. CASE UNCHANGED deliveryVars
    BY <2>1, ProgressNext DEF deliveryVars, Delivery!HandIsCurrent, Delivery!ProcessedHasJob
  <2> QED BY <2>1, ProgressNext, ProgressSteps, DeliveryHand DEF ProgressInv
<1>3. KeptInv => CommandsAreKept
  BY DeliveryImplies DEF ProgressInv, CommandsAreKept
<1> QED BY <1>1, <1>2, <1>3, PTL DEF Spec

\* The limits and verdicts of outside calls hold for any number of requests, pages, sources, redirects and lines.
THEOREM ProgressCalls == Spec => []CallsAreChecked
<1>1. ProgressInv /\ [Next]_vars => ProgressInv'
  BY ProgressNext
<1>2. ProgressInv => CallsAreChecked
  BY BridgeImplies, CaptureImplies, EvidenceImplies DEF ProgressInv, CallsAreChecked
<1> QED BY <1>1, <1>2, ProgressInit, PTL DEF Spec

\* No redelivery, retry or late failure moves a completed research run, for any number of runs and attempts.
THEOREM ProgressResearch == Spec => CompletedIsFinal
<1>1. ProgressInv /\ [Next]_vars => ProgressInv' /\ [Research!CompletedIsFinal]_vars
  BY ProgressNext
<1> QED BY <1>1, ProgressInit, PTL DEF Spec, CompletedIsFinal
=============================================================================
