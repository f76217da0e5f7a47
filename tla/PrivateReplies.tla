--------------------------- MODULE PrivateReplies ---------------------------
(***************************************************************************)
(* Replies to private messages: people draft, revise, approve, cancel and  *)
(* reconcile; executions of the worker claim a queued reply, send it once  *)
(* and record what the provider answered.  The store's transaction checks  *)
(* the version and the lease of every change.                              *)
(***************************************************************************)
EXTENDS Naturals, FiniteSets

CONSTANTS Intents,      \* reply intents
          Runs,         \* executions of the worker's job, each with a new owner id
          NoRun,        \* no owner
          MaxBody       \* bound: revisions of the text of a reply

VARIABLES intents,      \* the stored intents
          runs,         \* the worker's executions
          underway,     \* executions whose request the provider may still accept
          sent,         \* messages the provider accepted
          approvals     \* history: texts a person approved

replyVars == <<intents, runs, underway, sent, approvals>>

ReplyStatus == {"draft", "pending_approval", "queued", "processing", "succeeded",
                "failed", "uncertain", "cancelled", "expired"}

\* "none": there is no row.
RowStatus == ReplyStatus \cup {"none"}

\* evidence: the execution whose message the provider key names.
Intent == [status : RowStatus, version : Nat, body : 0..MaxBody,
           approved : BOOLEAN, evidence : Runs \cup {NoRun},
           owner : Runs \cup {NoRun}, active : BOOLEAN, tombstoned : BOOLEAN]

NoIntent == [status |-> "none", version |-> 0, body |-> 0, approved |-> FALSE,
             evidence |-> NoRun, owner |-> NoRun, active |-> FALSE, tombstoned |-> FALSE]

\* The projection the worker keeps for one send.
ExecutionContext == [pc : {"idle", "read", "claimed", "sending", "accepted", "checkpointed", "done"},
                     intent : Intents, version : Nat, body : 0..MaxBody]

ReplyTypeOK ==
  /\ intents \in [Intents -> Intent]
  /\ runs \in [Runs -> ExecutionContext]
  /\ underway \subseteq Runs
  /\ sent \subseteq [intent : Intents, body : 1..MaxBody, run : Runs]
  /\ approvals \subseteq Intents \X (1..MaxBody)

ReplyInit ==
  /\ intents = [i \in Intents |-> NoIntent]
  /\ runs \in [Runs -> {[pc |-> "idle", intent |-> i, version |-> 0, body |-> 0] : i \in Intents}]
  /\ underway = {} /\ sent = {} /\ approvals = {}

-----------------------------------------------------------------------------
(* Domain rules.                                                           *)

replyTransitions ==
  [none             |-> {},
   draft            |-> {"pending_approval", "cancelled"},
   pending_approval |-> {"draft", "queued", "cancelled"},
   queued           |-> {"failed", "expired", "cancelled"},
   processing       |-> {"succeeded", "failed", "uncertain", "expired"},
   succeeded        |-> {},
   failed           |-> {"pending_approval", "cancelled"},
   uncertain        |-> {"succeeded", "failed"},
   cancelled        |-> {},
   expired          |-> {"pending_approval", "cancelled"}]

\* A run as evidence stands for the provider key and time it received;
\* NoRun as evidence keeps what is recorded.
transitionPrivateReplyIntent(intent, to, evidence) ==
  [intent EXCEPT !.status = to, !.version = @ + 1,
                 !.approved = @ \/ to = "queued",
                 !.evidence = IF to \in {"draft", "pending_approval", "queued"} THEN NoRun
                              ELSE IF evidence = NoRun THEN @ ELSE evidence,
                 !.owner = NoRun, !.active = FALSE]

\* Mutant: a reply being checked may be edited as well.
reviseUncertain(intent) ==
  [NoIntent EXCEPT !.status = "pending_approval", !.version = intent.version + 1,
                   !.body = intent.body, !.tombstoned = intent.tombstoned]

revisePrivateReplyIntent(intent) ==
  [NoIntent EXCEPT !.status = "pending_approval", !.version = intent.version + 1,
                   !.body = intent.body + 1, !.tombstoned = intent.tombstoned]

claimPrivateReplyIntent(intent, owner) ==
  [intent EXCEPT !.status = "processing", !.version = @ + 1, !.owner = owner, !.active = TRUE]

-----------------------------------------------------------------------------
(* The store.                                                              *)

Save(i, next) == intents' = [intents EXCEPT ![i] = next]

CanTransition(i, version, owner, to) ==
  /\ ~intents[i].tombstoned
  /\ intents[i].version = version
  /\ to \in replyTransitions[intents[i].status]
  /\ intents[i].status = "processing" => owner = intents[i].owner /\ intents[i].active

TransitionReplyIntent(i, version, owner, to, evidence) ==
  /\ CanTransition(i, version, owner, to)
  /\ Save(i, transitionPrivateReplyIntent(intents[i], to, evidence))

CanClaim(r) ==
  LET intent == intents[runs[r].intent] IN
  intent.status = "queued" /\ intent.version = runs[r].version /\ ~intent.tombstoned

LeaseExpires(i) ==
  /\ intents[i].active
  /\ intents' = [intents EXCEPT ![i].active = FALSE]
  /\ UNCHANGED <<runs, underway, sent, approvals>>

\* The recovery job, for a lease the database's clock calls expired.
RecoverExpiredReplyIntent(i) ==
  /\ intents[i].status = "processing" /\ ~intents[i].active /\ ~intents[i].tombstoned
  /\ Save(i, [intents[i] EXCEPT !.status = "uncertain", !.owner = NoRun, !.version = @ + 1])
  /\ UNCHANGED <<runs, underway, sent, approvals>>

Completed == {"succeeded", "failed", "cancelled", "expired"}

\* The account's data is erased; the version stays.
EraseIntents ==
  /\ \E i \in Intents : intents[i].status # "none" /\ ~intents[i].tombstoned
  /\ intents' = [i \in Intents |->
       IF intents[i].status = "none" THEN NoIntent
       ELSE [intents[i] EXCEPT !.status = IF @ \in Completed THEN @ ELSE "cancelled",
                               !.owner = NoRun, !.active = FALSE, !.tombstoned = TRUE]]
  /\ UNCHANGED <<runs, underway, sent, approvals>>

\* Retention ends.
PurgeIntent(i) ==
  /\ intents[i].status \in Completed /\ ~intents[i].tombstoned
  /\ intents' = [intents EXCEPT ![i].tombstoned = TRUE]
  /\ UNCHANGED <<runs, underway, sent, approvals>>

-----------------------------------------------------------------------------
(* People.  A request names the version its author saw, so that it acts on *)
(* the stored intent or on nothing.                                        *)

CreateReplyDraft(i) ==
  /\ intents[i].status = "none"
  /\ \A j \in Intents : intents[j].tombstoned \/ intents[j].status \notin {"queued", "processing", "uncertain"}
  /\ Save(i, [NoIntent EXCEPT !.status = "draft", !.version = 1, !.body = 1])
  /\ UNCHANGED <<runs, underway, sent, approvals>>

ReviseReplyDraft(i) ==
  /\ intents[i].status \in {"draft", "pending_approval", "failed", "expired"} /\ ~intents[i].tombstoned
  /\ intents[i].body < MaxBody
  /\ Save(i, revisePrivateReplyIntent(intents[i]))
  /\ UNCHANGED <<runs, underway, sent, approvals>>

SubmitReplyDraft(i) ==
  /\ intents[i].status = "draft"
  /\ TransitionReplyIntent(i, intents[i].version, NoRun, "pending_approval", NoRun)
  /\ UNCHANGED <<runs, underway, sent, approvals>>

\* The provider's window is open and the account may send.
ApproveReply(i) ==
  /\ intents[i].status = "pending_approval"
  /\ TransitionReplyIntent(i, intents[i].version, NoRun, "queued", NoRun)
  /\ approvals' = approvals \cup {<<i, intents[i].body>>}
  /\ UNCHANGED <<runs, underway, sent>>

CancelReply(i) ==
  /\ intents[i].status \notin {"processing", "uncertain"}
  /\ TransitionReplyIntent(i, intents[i].version, NoRun, "cancelled", NoRun)
  /\ UNCHANGED <<runs, underway, sent, approvals>>

\* "Confirmed sent" needs the provider's evidence; "not sent" is what the
\* operator sees in the conversation at that moment.
ReconcileReply(i) ==
  /\ intents[i].status = "uncertain"
  /\ \/ /\ intents[i].evidence # NoRun
        /\ TransitionReplyIntent(i, intents[i].version, NoRun, "succeeded", intents[i].evidence)
     \/ /\ \A m \in sent : <<m.intent, m.body>> # <<i, intents[i].body>>
        /\ TransitionReplyIntent(i, intents[i].version, NoRun, "failed", NoRun)
  /\ UNCHANGED <<runs, underway, sent, approvals>>

-----------------------------------------------------------------------------
(* The worker.                                                             *)

GoTo(r, label) == runs' = [runs EXCEPT ![r].pc = label]

\* The job of an approval, of a redelivery or of the recovery sweep.
ReadReply(r, i) ==
  /\ runs[r].pc = "idle"
  /\ intents[i].status = "queued" /\ ~intents[i].tombstoned
  /\ runs' = [runs EXCEPT ![r] = [pc |-> "read", intent |-> i, version |-> intents[i].version,
                                  body |-> intents[i].body]]
  /\ UNCHANGED <<intents, underway, sent, approvals>>

\* Mutant: the claim looks at the status of the copy it read.
ClaimReadReply(r) ==
  LET i == runs[r].intent IN
  /\ runs[r].pc = "read"
  /\ Save(i, claimPrivateReplyIntent(intents[i], r))
  /\ runs' = [runs EXCEPT ![r].pc = "claimed", ![r].version = intents[i].version + 1]
  /\ UNCHANGED <<underway, sent, approvals>>

ClaimReply(r) ==
  LET i == runs[r].intent IN
  /\ runs[r].pc = "read"
  /\ IF CanClaim(r)
       THEN /\ Save(i, claimPrivateReplyIntent(intents[i], r))
            /\ runs' = [runs EXCEPT ![r].pc = "claimed", ![r].version = @ + 1]
       ELSE GoTo(r, "done") /\ UNCHANGED intents
  /\ UNCHANGED <<underway, sent, approvals>>

\* The save is attempted; a refused one ends the execution all the same.
TransitionFromProcessing(r, to, evidence) ==
  LET i == runs[r].intent IN
  IF CanTransition(i, runs[r].version, r, to)
    THEN Save(i, transitionPrivateReplyIntent(intents[i], to, evidence))
    ELSE UNCHANGED intents

\* The window closed, or eligibility could not be established.
Ineligible(r) ==
  /\ runs[r].pc = "claimed"
  /\ \E to \in {"expired", "failed"} : TransitionFromProcessing(r, to, NoRun)
  /\ GoTo(r, "done")
  /\ UNCHANGED <<underway, sent, approvals>>

SendText(r) ==
  /\ runs[r].pc = "claimed"
  /\ GoTo(r, "sending")
  /\ underway' = underway \cup {r}
  /\ UNCHANGED <<intents, sent, approvals>>

ProviderAccepts(r) ==
  /\ r \in underway
  /\ underway' = underway \ {r}
  /\ sent' = sent \cup {[intent |-> runs[r].intent, body |-> runs[r].body, run |-> r]}
  /\ UNCHANGED <<intents, runs, approvals>>

SentBy(r) == \E m \in sent : m.run = r

\* No answer, or one that does not say whether the message was sent.
SendUncertain(r) ==
  /\ runs[r].pc = "sending"
  /\ TransitionFromProcessing(r, "uncertain", NoRun)
  /\ GoTo(r, "done")
  /\ UNCHANGED <<underway, sent, approvals>>

\* A refusal before acceptance.
SendRejected(r) ==
  /\ runs[r].pc = "sending"
  /\ r \in underway
  /\ underway' = underway \ {r}
  /\ \E to \in {"expired", "failed"} : TransitionFromProcessing(r, to, NoRun)
  /\ GoTo(r, "done")
  /\ UNCHANGED <<sent, approvals>>

\* Accepted, but the answer's evidence is incomplete or names someone else.
EvidenceInvalid(r) ==
  /\ runs[r].pc = "sending" /\ SentBy(r)
  /\ TransitionFromProcessing(r, "uncertain", NoRun)
  /\ GoTo(r, "done")
  /\ UNCHANGED <<underway, sent, approvals>>

SendAccepted(r) ==
  /\ runs[r].pc = "sending" /\ SentBy(r)
  /\ GoTo(r, "accepted")
  /\ UNCHANGED <<intents, underway, sent, approvals>>

\* The evidence is saved before anything else happens.  A refused save reads
\* the intent again: it may be settled already, it may show this evidence, or
\* it is still processing and gets the evidence under the owner it names.
Checkpoint(r) ==
  LET i == runs[r].intent IN
  LET current == intents[i] IN
  /\ runs[r].pc = "accepted"
  /\ IF CanTransition(i, runs[r].version, r, "uncertain")
       THEN /\ Save(i, transitionPrivateReplyIntent(current, "uncertain", r))
            /\ runs' = [runs EXCEPT ![r].pc = "checkpointed", ![r].version = @ + 1]
     ELSE IF CanTransition(i, current.version, current.owner, "uncertain")
       THEN /\ Save(i, transitionPrivateReplyIntent(current, "uncertain", r))
            /\ runs' = [runs EXCEPT ![r].pc = "checkpointed", ![r].version = current.version + 1]
     ELSE /\ IF current.status = "uncertain" /\ current.evidence = r /\ ~current.tombstoned
               THEN runs' = [runs EXCEPT ![r].pc = "checkpointed", ![r].version = current.version]
               ELSE GoTo(r, "done")
          /\ UNCHANGED intents
  /\ UNCHANGED <<underway, sent, approvals>>

\* The exact message is read back; what cannot be confirmed stays uncertain.
ConfirmReply(r) ==
  /\ runs[r].pc = "checkpointed"
  /\ \/ TransitionFromProcessing(r, "succeeded", r)
     \/ UNCHANGED intents
  /\ GoTo(r, "done")
  /\ UNCHANGED <<underway, sent, approvals>>

WorkerStops(r) ==
  /\ runs[r].pc \notin {"idle", "done"}
  /\ GoTo(r, "done")
  /\ UNCHANGED <<intents, underway, sent, approvals>>

-----------------------------------------------------------------------------
ReplyIntentStep(i) ==
  \/ CreateReplyDraft(i) \/ ReviseReplyDraft(i) \/ SubmitReplyDraft(i) \/ ApproveReply(i)
  \/ CancelReply(i) \/ ReconcileReply(i)
  \/ LeaseExpires(i) \/ RecoverExpiredReplyIntent(i) \/ PurgeIntent(i)

ReplyRunStep(r) ==
  \/ \E i \in Intents : ReadReply(r, i)
  \/ ClaimReply(r) \/ Ineligible(r)
  \/ SendText(r) \/ ProviderAccepts(r) \/ SendUncertain(r) \/ SendRejected(r)
  \/ EvidenceInvalid(r) \/ SendAccepted(r) \/ Checkpoint(r) \/ ConfirmReply(r)
  \/ WorkerStops(r)

ReplyNext ==
  \/ \E i \in Intents : ReplyIntentStep(i)
  \/ \E r \in Runs : ReplyRunStep(r)
  \/ EraseIntents

ReplySpec == ReplyInit /\ [][ReplyNext]_replyVars

-----------------------------------------------------------------------------
\* However often a job is delivered, recovered or interrupted, a text of a
\* reply reaches the customer at most once.
ReplySentOnce ==
  \A m, n \in sent : m.intent = n.intent /\ m.body = n.body => m = n

\* What reached the customer is a text a person approved.
ReplyWasApproved == \A m \in sent : <<m.intent, m.body>> \in approvals

\* A reply marked sent names a message the provider really accepted for it.
SucceededWasSent ==
  \A i \in Intents : intents[i].status = "succeeded" =>
    \E m \in sent : m.run = intents[i].evidence /\ m.intent = i

\* Sent and cancelled replies never come back to life: neither a late
\* execution nor the recovery nor an operator changes their status.
SettledReplyStays ==
  \A i \in Intents : intents[i].status \in {"succeeded", "cancelled"}
                       => intents'[i].status = intents[i].status

-----------------------------------------------------------------------------
(* The inductive invariant.                                                *)

\* The provider has the message of execution r, or may still get it.
Sends(r) == runs[r].pc = "claimed" \/ r \in underway \/ SentBy(r)

\* Two executions never send the same text of a reply.
OneSender ==
  \A r, q \in Runs :
    Sends(r) /\ Sends(q) /\ runs[r].intent = runs[q].intent /\ runs[r].body = runs[q].body => r = q

\* A text that is being sent is not queued again: its reply has left the
\* queue, or has a later text.
TextIsSpent ==
  \A r \in Runs : Sends(r) =>
    \/ runs[r].body < intents[runs[r].intent].body
    \/ /\ runs[r].body = intents[runs[r].intent].body
       /\ intents[runs[r].intent].status \notin {"none", "draft", "pending_approval", "queued"}

\* An execution that has read its reply claims the text it read or nothing.
ReadIsNotAhead ==
  \A r \in Runs : runs[r].pc = "read" =>
    /\ runs[r].version <= intents[runs[r].intent].version
    /\ runs[r].version = intents[runs[r].intent].version => runs[r].body = intents[runs[r].intent].body

\* What is queued, and what an execution took from the queue, was approved.
QueuedWasApproved ==
  /\ \A i \in Intents : intents[i].status = "queued" => <<i, intents[i].body>> \in approvals
  /\ \A r \in Runs : runs[r].pc # "idle" => <<runs[r].intent, runs[r].body>> \in approvals

\* A message is the text of an execution that has claimed and has no other request underway.
MessageIsOfItsRun ==
  \A m \in sent : /\ m.intent = runs[m.run].intent /\ m.body = runs[m.run].body
                  /\ runs[m.run].pc \notin {"idle", "read", "claimed"} /\ m.run \notin underway

\* The provider key names a message of the reply.
EvidenceIsSent ==
  /\ \A i \in Intents :
       /\ intents[i].evidence # NoRun => \E m \in sent : m.run = intents[i].evidence /\ m.intent = i
       /\ intents[i].status = "succeeded" => intents[i].evidence # NoRun
       /\ intents[i].status = "none" => intents[i] = NoIntent
       /\ intents[i].status # "none" => intents[i].body > 0
  /\ \A r \in Runs : /\ runs[r].pc \in {"accepted", "checkpointed"} => SentBy(r)
                     /\ r \in underway => runs[r].pc \notin {"idle", "read", "claimed"}

ReplyInv ==
  /\ ReplyTypeOK /\ OneSender /\ TextIsSpent /\ ReadIsNotAhead /\ QueuedWasApproved
  /\ MessageIsOfItsRun /\ EvidenceIsSent
=============================================================================
