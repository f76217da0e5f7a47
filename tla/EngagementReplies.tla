-------------------------- MODULE EngagementReplies --------------------------
(***************************************************************************)
(* Public replies to comments of one conversation.  People draft, approve, *)
(* cancel and check replies; jobs of the engagement queue send them; the   *)
(* recovery job queues what was forgotten and gives up on what stopped.    *)
(***************************************************************************)
EXTENDS Naturals, FiniteSets

CONSTANTS Replies,        \* reply actions of the conversation
          Jobs,           \* executions of the "execute-action" job
          MaxApprovals    \* bound: approvals of one reply

VARIABLES replies,        \* engagement_actions
          replyJobs,      \* executions under way
          waiting,        \* replies with a job in the queue
          contract,       \* the platform's reply contract is verified
          replyComment,   \* visibility of the comment that is answered
          approving,      \* approvals that passed their check, with the version they name
          posted,         \* how often the provider took a reply
          answers         \* history: how often a reply was approved

engagementReplyVars == <<replies, replyJobs, waiting, contract, replyComment, approving, posted, answers>>

EngagementActionStatus == {"draft", "pending_approval", "queued", "processing", "succeeded",
                           "failed", "uncertain", "cancelled"}

\* proof: the action names the provider's reply id.
EngagementAction == [status : EngagementActionStatus \cup {"none"}, version : Nat, proof : BOOLEAN]

\* What a connector may say of a reply it could not post.
EngagementError == {"expired", "not_found", "permission_missing", "rate_limited", "unsupported", "provider_failed", "uncertain"}

ReplyJob == [pc : {"idle", "read", "sending", "accepted", "unsaved", "failed", "done"},
             reply : Replies, version : Nat, error : EngagementError \cup {"none"}]

EngagementReplyTypeOK ==
  /\ replies \in [Replies -> EngagementAction]
  /\ replyJobs \in [Jobs -> ReplyJob]
  /\ waiting \subseteq Replies /\ contract \in BOOLEAN /\ approving \in [Replies -> Nat]
  /\ posted \in [Replies -> Nat] /\ answers \in [Replies -> Nat]

EngagementReplyInit ==
  /\ replies = [r \in Replies |-> [status |-> "none", version |-> 0, proof |-> FALSE]]
  /\ replyJobs = [j \in Jobs |-> [pc |-> "idle", reply |-> CHOOSE r \in Replies : TRUE,
                                  version |-> 0, error |-> "none"]]
  /\ waiting = {} /\ contract \in BOOLEAN /\ replyComment = "visible"
  /\ approving = [r \in Replies |-> 0]
  /\ posted = [r \in Replies |-> 0] /\ answers = [r \in Replies |-> 0]

-----------------------------------------------------------------------------
(* Domain rules and the store's transaction.                               *)

actionTransitions ==
  [none             |-> {},
   draft            |-> {"pending_approval", "cancelled"},
   pending_approval |-> {"draft", "queued", "cancelled"},
   queued           |-> {"processing", "cancelled"},
   processing       |-> {"succeeded", "failed", "uncertain"},
   succeeded        |-> {},
   failed           |-> {"queued", "cancelled"},
   uncertain        |-> {"succeeded", "failed", "cancelled"},
   cancelled        |-> {}]

canTransitionEngagementAction(from, to) == to \in actionTransitions[from]

ResetsAttempt == {"draft", "pending_approval", "queued", "processing"}

transitionEngagementAction(action, to, proof) ==
  [status |-> to, version |-> action.version + 1,
   proof |-> to \notin ResetsAttempt /\ (proof \/ action.proof)]

mayTransition(r, version, to) ==
  /\ replies[r].version = version
  /\ canTransitionEngagementAction(replies[r].status, to)

transitionAction(r, version, to, proof) ==
  /\ mayTransition(r, version, to)
  /\ replies' = [replies EXCEPT ![r] = transitionEngagementAction(@, to, proof)]

\* A reply is written by its author's request only, as a new row.
saveAction(r, action) ==
  /\ replies[r].status = "none"
  /\ replies' = [replies EXCEPT ![r] = action]

listActionsForRecovery == {r \in Replies : replies[r].status \in {"queued", "processing"}}

-----------------------------------------------------------------------------
(* People.                                                                 *)

activeReplyStatuses == {"queued", "processing", "uncertain"}

assertNoReplyInFlight(except) ==
  \A r \in Replies \ {except} : replies[r].status \notin activeReplyStatuses

createReplyDraft(r) ==
  /\ replyComment = "visible"
  /\ assertNoReplyInFlight(r)
  /\ saveAction(r, [status |-> "pending_approval", version |-> 1, proof |-> FALSE])
  /\ UNCHANGED <<replyJobs, waiting, contract, replyComment, approving, posted, answers>>

\* The other replies are read before the reply is changed.
checkApproval(r) ==
  /\ answers[r] < MaxApprovals /\ approving[r] = 0 /\ replies[r].version > 0
  /\ assertNoReplyInFlight(r) /\ contract
  /\ approving' = [approving EXCEPT ![r] = replies[r].version]
  /\ UNCHANGED <<replies, replyJobs, waiting, contract, replyComment, posted, answers>>

\* The job may not be added: the queue is unavailable, or still knows a
\* finished job of that name.
approve(r) ==
  /\ approving[r] > 0 /\ approving' = [approving EXCEPT ![r] = 0]
  /\ \/ /\ transitionAction(r, approving[r], "queued", FALSE)
        /\ waiting' \in {waiting, waiting \cup {r}}
        /\ answers' = [answers EXCEPT ![r] = @ + 1]
     \/ ~mayTransition(r, approving[r], "queued") /\ UNCHANGED <<replies, waiting, answers>>
  /\ UNCHANGED <<replyJobs, contract, replyComment, posted>>

cancel(r) ==
  /\ replies[r].status \notin {"processing", "uncertain"}
  /\ transitionAction(r, replies[r].version, "cancelled", FALSE)
  /\ UNCHANGED <<replyJobs, waiting, contract, replyComment, approving, posted, answers>>

\* A manager looked at the live conversation.
reconcileAction(r) ==
  /\ replies[r].status = "uncertain"
  /\ \/ transitionAction(r, replies[r].version, "succeeded", TRUE) /\ posted[r] > 0
     \/ transitionAction(r, replies[r].version, "failed", FALSE)
  /\ UNCHANGED <<replyJobs, waiting, contract, replyComment, approving, posted, answers>>

CommentChanges ==
  /\ replyComment' \in {"visible", "hidden"}
  /\ UNCHANGED <<replies, replyJobs, waiting, contract, approving, posted, answers>>

-----------------------------------------------------------------------------
(* The worker and the connectors.                                          *)

JobAt(j, pc) == replyJobs[j].pc = pc
JobTo(j, pc) == replyJobs' = [replyJobs EXCEPT ![j].pc = pc]
ReplyOf(j) == replyJobs[j].reply

\* A job reads its reply; one that is not queued is skipped.
startReply(j, r) ==
  /\ JobAt(j, "idle") /\ r \in waiting
  /\ waiting' = waiting \ {r}
  /\ replyJobs' = IF replies[r].status = "queued"
                    THEN [replyJobs EXCEPT ![j] = [pc |-> "read", reply |-> r,
                                                   version |-> replies[r].version, error |-> "none"]]
                    ELSE [replyJobs EXCEPT ![j].pc = "done"]
  /\ UNCHANGED <<replies, contract, replyComment, approving, posted, answers>>

\* The version the job read is the one it takes; the account may be gone.
takeReply(j) ==
  /\ JobAt(j, "read")
  /\ \/ /\ transitionAction(ReplyOf(j), replyJobs[j].version, "processing", FALSE)
        /\ replyJobs' = [replyJobs EXCEPT ![j].pc = "sending", ![j].version = @ + 1]
     \/ JobTo(j, "done") /\ UNCHANGED replies
  /\ UNCHANGED <<waiting, contract, replyComment, approving, posted, answers>>

\* Status and error code of answers that refuse a request.
Refusals == {<<401, 190>>, <<403, 200>>, <<404, 404>>, <<400, 100>>, <<429, 4>>, <<500, 1>>}

facebookEngagementError(status, code) ==
  IF status = 401 \/ code = 190 THEN "expired"
  ELSE IF code = 210 \/ status = 404 THEN "not_found"
  ELSE IF code \in {3, 10, 492} \/ code \in 200..299 \/ status = 403 THEN "permission_missing"
  ELSE IF status = 429 \/ code \in {4, 17, 32, 341, 613, 80001} THEN "rate_limited"
  ELSE IF code = 100 \/ status = 400 THEN "unsupported"
  ELSE "provider_failed"

instagramEngagementError(status, code) ==
  IF status = 401 \/ code \in {102, 190} THEN "expired"
  ELSE IF code \in {3, 10} \/ code \in 200..299 \/ status = 403 THEN "permission_missing"
  ELSE IF status = 429 \/ code \in {4, 17, 32, 341, 613, 80002} THEN "rate_limited"
  ELSE IF status = 404 THEN "not_found"
  ELSE IF code = 100 \/ status = 400 THEN "unsupported"
  ELSE "provider_failed"

\* What a connector may raise, and whether the provider took the reply.
facebookReplyErrors ==
  {<<facebookEngagementError(x[1], x[2]), FALSE>> : x \in Refusals}
    \cup ({"uncertain"} \X BOOLEAN) \cup ({"provider_failed"} \X BOOLEAN)

instagramReplyErrors ==
  {<<instagramEngagementError(x[1], x[2]), FALSE>> : x \in Refusals}
    \cup ({"uncertain"} \X BOOLEAN) \cup ({"provider_failed"} \X BOOLEAN)

\* Mutant: an answer that says nothing is taken for a refusal.
ambiguousIfUncertain(error) == error = "provider_failed"

replyFailureIsAmbiguous(error) == error \in {"uncertain", "provider_failed"}

Post(r) == posted' = [posted EXCEPT ![r] = @ + 1]

replyToComment(j) ==
  /\ JobAt(j, "sending")
  /\ \/ Post(ReplyOf(j)) /\ JobTo(j, "accepted")
     \/ \E x \in facebookReplyErrors \cup instagramReplyErrors :
          /\ IF x[2] THEN Post(ReplyOf(j)) ELSE UNCHANGED posted
          /\ replyJobs' = [replyJobs EXCEPT ![j].pc = "failed", ![j].error = x[1]]
  /\ UNCHANGED <<replies, waiting, contract, replyComment, approving, answers>>

recordFailure(j) ==
  /\ JobAt(j, "failed")
  /\ LET to == IF replyFailureIsAmbiguous(replyJobs[j].error) THEN "uncertain" ELSE "failed" IN
       IF mayTransition(ReplyOf(j), replyJobs[j].version, to)
         THEN transitionAction(ReplyOf(j), replyJobs[j].version, to, FALSE)
         ELSE UNCHANGED replies
  /\ JobTo(j, "done")
  /\ UNCHANGED <<waiting, contract, replyComment, approving, posted, answers>>

\* The result is saved, or the write is refused or fails.
recordSuccess(j) ==
  /\ JobAt(j, "accepted")
  /\ \/ transitionAction(ReplyOf(j), replyJobs[j].version, "succeeded", TRUE) /\ JobTo(j, "done")
     \/ JobTo(j, "unsaved") /\ UNCHANGED replies
  /\ UNCHANGED <<waiting, contract, replyComment, approving, posted, answers>>

\* The reply is read again: only a reply still in processing is marked.
markUnsaved(j) ==
  /\ JobAt(j, "unsaved")
  /\ IF replies[ReplyOf(j)].status = "processing"
       THEN transitionAction(ReplyOf(j), replies[ReplyOf(j)].version, "uncertain", TRUE)
       ELSE UNCHANGED replies
  /\ JobTo(j, "done")
  /\ UNCHANGED <<waiting, contract, replyComment, approving, posted, answers>>

\* Mutant: a reply whose processing stopped is queued again.
requeuePending(r) ==
  /\ r \in listActionsForRecovery /\ waiting' = waiting \cup {r}
  /\ replies' = [replies EXCEPT ![r].status = "queued", ![r].version = @ + 1]
  /\ UNCHANGED <<replyJobs, contract, replyComment, approving, posted, answers>>

\* Every minute: queued replies get a job again, processing that is old ends.
recoverPending(r) ==
  /\ r \in listActionsForRecovery
  /\ IF replies[r].status = "queued" THEN waiting' = waiting \cup {r} /\ UNCHANGED replies
     ELSE transitionAction(r, replies[r].version, "uncertain", FALSE) /\ UNCHANGED waiting
  /\ UNCHANGED <<replyJobs, contract, replyComment, approving, posted, answers>>

JobStops(j) ==
  /\ replyJobs[j].pc \notin {"idle", "done"}
  /\ JobTo(j, "done")
  /\ UNCHANGED <<replies, waiting, contract, replyComment, approving, posted, answers>>

-----------------------------------------------------------------------------
EngagementReplyNext ==
  \/ \E r \in Replies : \/ createReplyDraft(r) \/ checkApproval(r) \/ approve(r) \/ cancel(r) \/ reconcileAction(r)
                        \/ recoverPending(r) \/ \E j \in Jobs : startReply(j, r)
  \/ \E j \in Jobs : \/ takeReply(j) \/ replyToComment(j) \/ recordFailure(j)
                     \/ recordSuccess(j) \/ markUnsaved(j) \/ JobStops(j)
  \/ CommentChanges

EngagementReplySpec == EngagementReplyInit /\ [][EngagementReplyNext]_engagementReplyVars

-----------------------------------------------------------------------------
\* The provider takes a reply at most as often as a person approved it, with
\* jobs added twice, executions that stop and recovery between any two steps.
PostedAsApproved == \A r \in Replies : posted[r] <= answers[r]

\* A reply the provider may have taken is never offered for another approval
\* until a person looked: while its last approval was spent, it is settled,
\* uncertain or still being sent.
PostedIsNotFailed ==
  \A r \in Replies :
    replies[r].status = "processing" /\ replies'[r].status = "failed" => posted[r] < answers[r]

-----------------------------------------------------------------------------
(* The inductive invariant.                                                *)

\* Job j may still post its reply, or is known not to have posted it.
HasNotPosted(j) ==
  replyJobs[j].pc = "sending" \/ (replyJobs[j].pc = "failed" /\ ~replyFailureIsAmbiguous(replyJobs[j].error))

JobsToPost(r) == {j \in Jobs : ReplyOf(j) = r /\ HasNotPosted(j)}

\* Every posted reply, every job that has taken one and not posted it, and a
\* reply in the queue use an approval of their own.
ApprovalsAreCounted ==
  \A r \in Replies :
    posted[r] + Cardinality(JobsToPost(r)) + (IF replies[r].status = "queued" THEN 1 ELSE 0) <= answers[r]

EngagementReplyInv == EngagementReplyTypeOK /\ ApprovalsAreCounted
=============================================================================
