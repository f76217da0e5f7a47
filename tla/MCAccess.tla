------------------------------- MODULE MCAccess -------------------------------
(***************************************************************************)
(* People and the accounts they speak through, for TLC: sign-in and        *)
(* membership, access to connected accounts, the private inbox and its     *)
(* replies, and replies to comments.  The components share no state that   *)
(* they both write, so a behaviour is a behaviour of the one that Init     *)
(* chooses, and they take turns at the state variables s1, s2, ...         *)
(***************************************************************************)
EXTENDS Integers, Sequences, FiniteSets, FiniteSetTheorems, SequenceTheorems, TLAPS

CONSTANTS Intents, ReplyRuns, NoRun, MaxBody,                                        \* private replies
          Messages, MessagePages, Syncers, MaxReceiptAttempts, MaxSyncVersion,       \* private inbox
          Replies, ReplyJobs, MaxApprovals,                                          \* comment replies
          Accounts, Grants, Flows, Calls, MaxRefreshAttempts, MaxErasureAttempts,    \* access
          People, Founders, Legacy, Subjects, Invites, LoginStates, Visits, Nobody,
          MaxSessions, MaxFailures, MaxToken, MaxPassword                            \* sign-in

ASSUME ReplyAssumption == NoRun \notin ReplyRuns /\ MaxBody \in Nat \ {0}

ASSUME CommentAssumption == IsFiniteSet(ReplyJobs) /\ MaxApprovals \in Nat /\ Replies # {}

ASSUME MessageAssumption == {MessagePages, MaxReceiptAttempts, MaxSyncVersion} \subseteq Nat \ {0} /\ Messages # {}

ASSUME SignInAssumption ==
  /\ {MaxSessions, MaxFailures, MaxToken, MaxPassword} \subseteq Nat \ {0}
  /\ {Founders, Legacy} \subseteq SUBSET People
  /\ Nobody \notin People \cup Subjects \cup Invites \cup LoginStates

VARIABLES component, s1, s2, s3, s4, s5, s6, s7, s8, s9, s10, s11, s12, s13, s14

vars == <<component, s1, s2, s3, s4, s5, s6, s7, s8, s9, s10, s11, s12, s13, s14>>
from6 == <<s6, s7, s8>>
from9 == <<s9>>
from10 == <<s10, s11, s12, s13, s14>>

PrivateReply == INSTANCE PrivateReplies WITH Runs <- ReplyRuns,
  intents <- s1, runs <- s2, underway <- s3, sent <- s4, approvals <- s5

\* The messages are on the first page of the list.
PrivateMessage == INSTANCE PrivateInbox WITH Msgs <- Messages, Pages <- MessagePages, PageOf <- [m \in Messages |-> 1],
  MaxAttempts <- MaxReceiptAttempts, MaxVersion <- MaxSyncVersion,
  provider <- s1, messages <- s2, conversation <- s3, profile <- s4, syncState <- s5, capable <- s6, receipts <- s7,
  handlers <- s8

CommentReply == INSTANCE EngagementReplies WITH Jobs <- ReplyJobs,
  replies <- s1, replyJobs <- s2, waiting <- s3, contract <- s4, replyComment <- s5, approving <- s6, posted <- s7,
  answers <- s8

Access == INSTANCE ChannelAccessProofs WITH
  kinds <- s1, accounts <- s2, secrets <- s3, issued <- s4, grants <- s5, links <- s6, flows <- s7, calls <- s8,
  renewals <- s9, validations <- s10, told <- s11, deletion <- s12, privateData <- s13, overwritten <- s14

Membership == INSTANCE SignIn WITH
  users <- s1, identities <- s2, invitations <- s3, loginStates <- s4, sessions <- s5, issued <- s6, failures <- s7,
  visits <- s8, admitted <- s9

ASSUME AccessAssumption == Access!AccessConstants

Unused(n) == /\ n <= 6 => s6 = NoRun /\ s7 = NoRun /\ s8 = NoRun
             /\ n <= 9 => s9 = NoRun
             /\ s10 = NoRun /\ s11 = NoRun /\ s12 = NoRun /\ s13 = NoRun /\ s14 = NoRun

Init ==
  \/ component = "private replies" /\ PrivateReply!ReplyInit /\ Unused(6)
  \/ component = "private inbox" /\ PrivateMessage!InboxInit /\ Unused(9)
  \/ component = "comment replies" /\ CommentReply!EngagementReplyInit /\ Unused(9)
  \/ component = "access" /\ Access!AccessInit
  \/ component = "sign-in" /\ Membership!SignInInit /\ Unused(10)

PrivateReplySteps == /\ component = "private replies" /\ PrivateReply!ReplyNext
                     /\ UNCHANGED <<component, from6, from9, from10>>

PrivateInboxSteps == /\ component = "private inbox" /\ PrivateMessage!InboxNext
                     /\ UNCHANGED <<component, from9, from10>>

CommentReplySteps == /\ component = "comment replies" /\ CommentReply!EngagementReplyNext
                     /\ UNCHANGED <<component, from9, from10>>

AccessSteps == component = "access" /\ Access!AccessNext /\ UNCHANGED component

SignInSteps == component = "sign-in" /\ Membership!SignInNext /\ UNCHANGED <<component, from10>>

Next == PrivateReplySteps \/ PrivateInboxSteps \/ CommentReplySteps \/ AccessSteps \/ SignInSteps

Spec == Init /\ [][Next]_vars

-----------------------------------------------------------------------------
(* Properties. *)

\* Every variable of the five components keeps its type.
TypesOK ==
  /\ component = "private replies" => PrivateReply!ReplyTypeOK
  /\ component = "private inbox"   => PrivateMessage!InboxTypeOK
  /\ component = "comment replies" => CommentReply!EngagementReplyTypeOK
  /\ component = "access"          => Access!AccessTypeOK
  /\ component = "sign-in"         => Membership!SignInTypeOK

\* A person hears from the brand only what a person approved, and as often as it was approved, however jobs are added
\* twice, stopped, recovered or overtaken by an expired lease; a reply marked sent was accepted by the provider.
RepliesAreApproved ==
  /\ component = "private replies" =>
       PrivateReply!ReplySentOnce /\ PrivateReply!ReplyWasApproved /\ PrivateReply!SucceededWasSent
  /\ component = "comment replies" => CommentReply!PostedAsApproved

\* A sent or cancelled private reply never comes back to life, and a comment reply that the provider may have taken is
\* not offered for another approval.
RepliesSettle ==
  [][ /\ component = "private replies" => PrivateReply!SettledReplyStays
      /\ component = "comment replies" => CommentReply!PostedIsNotFailed ]_vars

\* What lets somebody in is current and used once: a grant is open while an account is linked to it, a sign-in state
\* brings one session, and an invitation admits the person it was sent to by its last link.
AccessIsCurrent ==
  /\ component = "access"  => Access!SupersededIsUnlinked /\ Access!CredentialExists
  /\ component = "sign-in" => Membership!LoginStateUsedOnce /\ Membership!InvitationAdmitsItsPerson

\* What was withdrawn stays withdrawn: deleted, expired and erased messages are not shown again by a later page, echo or
\* receipt, a blocked account is used again only after a new consent (or an owner's own request), and a validation
\* takes nothing from a consent younger than itself.
WithdrawnStaysWithdrawn ==
  [][ /\ component = "private inbox" => PrivateMessage!RemovedContentStays
      /\ component = "access"        => Access!StaysBlocked /\ Access!ConsentOutlivesValidation ]_vars

-----------------------------------------------------------------------------
(* Proofs.  Private replies.                                               *)

\* The statuses of a text that was not taken up yet.
Open == {"none", "draft", "pending_approval", "queued"}

\* How a row of the table may change in one step.
Onwards(a, b) ==
  /\ b \in PrivateReply!Intent
  /\ a.body <= b.body /\ a.version <= b.version
  /\ a.version = b.version => a.body = b.body
  /\ b.status \in Open => a.status \in Open \/ a.body < b.body
  /\ b.status = "none" => b = PrivateReply!NoIntent
  /\ b.status # "none" => b.body > 0
  /\ b.status = "succeeded" => b.evidence # NoRun
  /\ a.status \in {"succeeded", "cancelled"} => b.status = a.status

\* What the invariant says of one row.
Good(a) ==
  /\ a \in PrivateReply!Intent
  /\ a.status = "none" => a = PrivateReply!NoIntent
  /\ a.status # "none" => a.body > 0
  /\ a.status = "succeeded" => a.evidence # NoRun

\* A transition of the table moves a row on, counts its version and keeps its text; the key is the old one, the
\* given one or none.
LEMMA Transitioned ==
  ASSUME NEW a, Good(a), NEW to, to \in PrivateReply!replyTransitions[a.status], NEW e \in ReplyRuns \cup {NoRun},
         to = "succeeded" => e # NoRun, to \in Open => a.status \in Open
  PROVE  LET b == PrivateReply!transitionPrivateReplyIntent(a, to, e) IN
         /\ Onwards(a, b)
         /\ b.body = a.body /\ b.version = a.version + 1
         /\ b.evidence \in {a.evidence, e, NoRun}
         /\ b.status = to
<1>0. PICK s \in PrivateReply!RowStatus : s = a.status
  BY DEF Good, PrivateReply!Intent
<1>1. to \in PrivateReply!ReplyStatus /\ s # "none" /\ s \notin {"succeeded", "cancelled"} /\ (to \in Open => s \in Open)
      /\ to # "none" /\ to \in PrivateReply!RowStatus
  <2>1. to \in PrivateReply!replyTransitions[s]
    BY <1>0
  <2>2. s \notin {"none", "succeeded", "cancelled"}
    BY <2>1 DEF PrivateReply!replyTransitions, PrivateReply!RowStatus, PrivateReply!ReplyStatus
  <2>3. to \in PrivateReply!ReplyStatus
    BY <2>1 DEF PrivateReply!replyTransitions, PrivateReply!RowStatus, PrivateReply!ReplyStatus
  <2> QED BY <1>0, <2>2, <2>3 DEF Open, PrivateReply!RowStatus, PrivateReply!ReplyStatus
<1>2. PICK y : y = IF to \in {"draft", "pending_approval", "queued"} THEN NoRun ELSE IF e = NoRun THEN a.evidence ELSE e
  OBVIOUS
<1>3. PICK b : b = (a.approved \/ to = "queued")
  OBVIOUS
<1>4. y \in ReplyRuns \cup {NoRun} /\ y \in {a.evidence, e, NoRun} /\ (to = "succeeded" => y = e) /\ b \in BOOLEAN
  BY <1>2, <1>3 DEF Good, PrivateReply!Intent
<1>50. PICK n \in Nat : n = a.version + 1
  BY DEF Good, PrivateReply!Intent
<1>5. PICK q : q = [a EXCEPT !.status = to, !.version = n, !.approved = b, !.evidence = y, !.owner = NoRun, !.active = FALSE]
  OBVIOUS
<1>6. q \in PrivateReply!Intent /\ q.status = to /\ q.version = n /\ q.body = a.body /\ q.evidence = y
  BY <1>1, <1>4, <1>5 DEF Good, PrivateReply!Intent
<1>7. q = PrivateReply!transitionPrivateReplyIntent(a, to, e)
  BY <1>2, <1>3, <1>50, <1>5 DEF PrivateReply!transitionPrivateReplyIntent
<1>8. a.body \in Nat /\ a.version \in Nat /\ a.body > 0
  BY <1>0, <1>1, ReplyAssumption DEF Good, PrivateReply!Intent
<1> HIDE DEF Open
<1>9. Onwards(a, q)
  BY <1>0, <1>50, <1>1, <1>4, <1>6, <1>8 DEF Onwards
<1> QED BY <1>4, <1>50, <1>6, <1>7, <1>9

\* The other writes of a row move it on: a revision, an erasure, and no write at all.
LEMMA OtherRows ==
  ASSUME NEW a, Good(a)
  PROVE  /\ Onwards(a, a)
         /\ a.body < MaxBody /\ a.status \in {"draft", "pending_approval", "failed", "expired"} => Onwards(a, PrivateReply!revisePrivateReplyIntent(a)) /\ PrivateReply!revisePrivateReplyIntent(a).evidence = NoRun
         /\ \A r \in ReplyRuns : a.status = "queued" => Onwards(a, PrivateReply!claimPrivateReplyIntent(a, r))
         /\ a.status # "none" => Onwards(a, [a EXCEPT !.active = FALSE]) /\ Onwards(a, [a EXCEPT !.tombstoned = TRUE])
         /\ a.status = "processing" => Onwards(a, [a EXCEPT !.status = "uncertain", !.owner = NoRun, !.version = @ + 1])
         /\ a.status = "none" => Onwards(a, [PrivateReply!NoIntent EXCEPT !.status = "draft", !.version = 1, !.body = 1])
         /\ a.status # "none" => Onwards(a, [a EXCEPT !.status = IF @ \in PrivateReply!Completed THEN @ ELSE "cancelled",
                               !.owner = NoRun, !.active = FALSE, !.tombstoned = TRUE])
<1> USE ReplyAssumption DEF Good, Onwards, Open
<1>0. PICK pending \in PrivateReply!RowStatus, processing \in PrivateReply!RowStatus, uncertain \in PrivateReply!RowStatus, draft \in PrivateReply!RowStatus :
        pending = "pending_approval" /\ processing = "processing" /\ uncertain = "uncertain" /\ draft = "draft"
  BY DEF PrivateReply!ReplyStatus, PrivateReply!RowStatus
<1>00. PrivateReply!NoIntent \in PrivateReply!Intent /\ PrivateReply!NoIntent.evidence = NoRun /\ PrivateReply!NoIntent.body = 0 /\ PrivateReply!NoIntent.version = 0
  BY DEF PrivateReply!NoIntent, PrivateReply!Intent, PrivateReply!RowStatus
<1>000. PICK n \in Nat : n = a.version + 1
  BY DEF PrivateReply!Intent
<1>1. Onwards(a, a)
  BY DEF PrivateReply!Intent
<1>2. ASSUME a.body < MaxBody, a.status \in {"draft", "pending_approval", "failed", "expired"}
      PROVE Onwards(a, PrivateReply!revisePrivateReplyIntent(a)) /\ PrivateReply!revisePrivateReplyIntent(a).evidence = NoRun
  <2>0. PICK t \in 0..MaxBody : t = a.body + 1
    BY <1>2 DEF PrivateReply!Intent
  <2>1. PICK q : q = [PrivateReply!NoIntent EXCEPT !.status = pending, !.version = n, !.body = t, !.tombstoned = a.tombstoned]
    OBVIOUS
  <2>2. q \in PrivateReply!Intent /\ q.status = pending /\ q.body = t /\ q.version = n /\ q.evidence = NoRun
    BY <1>00, <2>1 DEF PrivateReply!Intent
  <2>3. q = PrivateReply!revisePrivateReplyIntent(a)
    BY <1>0, <1>000, <2>0, <2>1 DEF PrivateReply!revisePrivateReplyIntent
  <2> QED BY <1>0, <1>000, <2>0, <1>2, <2>3, <2>2 DEF PrivateReply!Intent
<1>3. ASSUME NEW r \in ReplyRuns, a.status = "queued" PROVE Onwards(a, PrivateReply!claimPrivateReplyIntent(a, r))
  <2>1. PICK q : q = [a EXCEPT !.status = processing, !.version = n, !.owner = r, !.active = TRUE]
    OBVIOUS
  <2>2. q \in PrivateReply!Intent /\ q.status = processing /\ q.body = a.body /\ q.version = n /\ q.evidence = a.evidence
    BY <2>1 DEF PrivateReply!Intent
  <2>3. q = PrivateReply!claimPrivateReplyIntent(a, r)
    BY <1>0, <1>000, <2>1 DEF PrivateReply!claimPrivateReplyIntent
  <2> QED BY <1>0, <1>000, <1>3, <2>3, <2>2 DEF PrivateReply!Intent
<1>4. ASSUME a.status # "none" PROVE Onwards(a, [a EXCEPT !.active = FALSE]) /\ Onwards(a, [a EXCEPT !.tombstoned = TRUE])
  <2>1. PICK q : q = [a EXCEPT !.active = FALSE]
    OBVIOUS
  <2>2. q \in PrivateReply!Intent /\ q.status = a.status /\ q.body = a.body /\ q.version = a.version /\ q.evidence = a.evidence
    BY <1>4, <2>1 DEF PrivateReply!Intent
  <2>3. PICK p : p = [a EXCEPT !.tombstoned = TRUE]
    OBVIOUS
  <2>4. p \in PrivateReply!Intent /\ p.status = a.status /\ p.body = a.body /\ p.version = a.version /\ p.evidence = a.evidence
    BY <1>4, <2>3 DEF PrivateReply!Intent
  <2> QED BY <1>4, <2>1, <2>2, <2>3, <2>4 DEF PrivateReply!Intent
<1>5. ASSUME a.status = "processing" PROVE Onwards(a, [a EXCEPT !.status = "uncertain", !.owner = NoRun, !.version = @ + 1])
  <2>1. PICK q : q = [a EXCEPT !.status = uncertain, !.owner = NoRun, !.version = n]
    OBVIOUS
  <2>2. q \in PrivateReply!Intent /\ q.status = uncertain /\ q.body = a.body /\ q.version = n
    BY <2>1 DEF PrivateReply!Intent
  <2> QED BY <1>0, <1>000, <1>5, <2>1, <2>2 DEF PrivateReply!Intent
<1>6. ASSUME a.status = "none" PROVE Onwards(a, [PrivateReply!NoIntent EXCEPT !.status = "draft", !.version = 1, !.body = 1])
  <2>0. PICK t \in 0..MaxBody : t = 1
    OBVIOUS
  <2>1. PICK q : q = [PrivateReply!NoIntent EXCEPT !.status = draft, !.version = n, !.body = t]
    OBVIOUS
  <2>2. q \in PrivateReply!Intent /\ q.status = draft /\ q.body = t /\ q.version = n
    BY <1>00, <2>1 DEF PrivateReply!Intent
  <2>3. a.body = 0 /\ a.version = 0
    BY <1>00, <1>6
  <2> QED BY <1>0, <1>000, <1>6, <2>0, <2>1, <2>2, <2>3 DEF PrivateReply!Intent
<1>7. ASSUME a.status # "none" 
      PROVE  Onwards(a, [a EXCEPT !.status = IF @ \in PrivateReply!Completed THEN @ ELSE "cancelled",
                               !.owner = NoRun, !.active = FALSE, !.tombstoned = TRUE])
  <2>0. PICK x : x = IF a.status \in PrivateReply!Completed THEN a.status ELSE "cancelled"
    OBVIOUS
  <2>1. PICK q : q = [a EXCEPT !.status = x, !.owner = NoRun, !.active = FALSE, !.tombstoned = TRUE]
    OBVIOUS
  <2>2. x \in {"succeeded", "failed", "cancelled", "expired"} /\ (x = "succeeded" => a.status = x)
         /\ (a.status \in {"succeeded", "cancelled"} => x = a.status)
    BY <2>0 DEF PrivateReply!Completed
  <2>3. q \in PrivateReply!Intent /\ q.status = x /\ q.body = a.body /\ q.version = a.version /\ q.evidence = a.evidence
    BY <1>7, <2>1, <2>2 DEF PrivateReply!Intent, PrivateReply!ReplyStatus, PrivateReply!RowStatus
  <2>4. Onwards(a, q)
    BY <1>7, <2>2, <2>3 DEF PrivateReply!Intent
  <2> QED BY <2>0, <2>1, <2>4
<1> QED BY <1>1, <1>2, <1>3, <1>4, <1>5, <1>6, <1>7

\* How the table may change in one step.
RowsMove ==
  /\ s1' \in [Intents -> PrivateReply!Intent]
  /\ s5 \subseteq s5' /\ s5' \subseteq Intents \X (1..MaxBody)
  /\ \A i \in Intents :
       /\ Onwards(s1[i], s1'[i])
       /\ s1'[i].status = "queued" =>
            \/ s1[i].status = "queued" /\ s1'[i].body = s1[i].body
            \/ <<i, s1'[i].body>> \in s5'
       /\ \/ s1'[i].evidence \in {s1[i].evidence, NoRun}
          \/ /\ s1'[i].evidence \in ReplyRuns /\ s2[s1'[i].evidence].intent = i
             /\ s2[s1'[i].evidence].pc \in {"accepted", "checkpointed"}

\* The invariant says of every row what the moves of a row need.
LEMMA RowsAreGood == ASSUME PrivateReply!ReplyInv, NEW i \in Intents PROVE Good(s1[i]) /\ Onwards(s1[i], s1[i])
<1>1. Good(s1[i])
  BY DEF PrivateReply!ReplyInv, PrivateReply!ReplyTypeOK, PrivateReply!EvidenceIsSent, Good
<1> QED BY <1>1 DEF Onwards, Good, PrivateReply!Intent

\* One row that moves on without being queued anew moves the table on.
LEMMA OneRowMoves ==
  ASSUME PrivateReply!ReplyInv, NEW i \in Intents, NEW b, Onwards(s1[i], b), s1' = [s1 EXCEPT ![i] = b],
         s5' = s5,
         b.status = "queued" => s1[i].status = "queued" /\ b.body = s1[i].body,
         \/ b.evidence \in {s1[i].evidence, NoRun}
         \/ b.evidence \in ReplyRuns /\ s2[b.evidence].intent = i /\ s2[b.evidence].pc \in {"accepted", "checkpointed"}
  PROVE  RowsMove
<1>1. \A j \in Intents : Onwards(s1[j], s1[j])
  BY RowsAreGood
<1>2. s1 \in [Intents -> PrivateReply!Intent] /\ s5 \subseteq Intents \X (1..MaxBody) /\ b \in PrivateReply!Intent
  BY DEF PrivateReply!ReplyInv, PrivateReply!ReplyTypeOK, Onwards
<1>3. s1' \in [Intents -> PrivateReply!Intent] /\ s1'[i] = b /\ \A j \in Intents \ {i} : s1'[j] = s1[j]
  BY <1>2
<1> QED BY <1>1, <1>2, <1>3 DEF RowsMove

\* A table nobody writes has moved on.
LEMMA NoRowMoves ==
  ASSUME PrivateReply!ReplyInv, UNCHANGED <<s1, s5>>
  PROVE  RowsMove
<1>1. \A j \in Intents : Onwards(s1[j], s1[j])
  BY RowsAreGood
<1> QED BY <1>1 DEF RowsMove, PrivateReply!ReplyInv, PrivateReply!ReplyTypeOK

\* What people do with a reply, a queueing with its approval included, moves the table on and leaves the executions
\* alone.
LEMMA PeopleMoveRows ==
  ASSUME PrivateReply!ReplyInv, NEW i \in Intents, PrivateReply!ReplyIntentStep(i)
  PROVE  RowsMove /\ UNCHANGED <<s2, s3, s4>>
<1> USE ReplyAssumption
<1>0. /\ s1 \in [Intents -> PrivateReply!Intent] /\ Good(s1[i]) /\ s5 \subseteq Intents \X (1..MaxBody)
  BY RowsAreGood DEF PrivateReply!ReplyInv, PrivateReply!ReplyTypeOK
<1>1. CASE PrivateReply!CreateReplyDraft(i)
  <2>1. PICK b : b = [PrivateReply!NoIntent EXCEPT !.status = "draft", !.version = 1, !.body = 1]
    OBVIOUS
  <2>2. Onwards(s1[i], b)
    BY <1>0, <1>1, <2>1, OtherRows DEF PrivateReply!CreateReplyDraft
  <2>3. b.status = "draft" /\ b.evidence = NoRun
    BY <2>1 DEF PrivateReply!NoIntent
  <2> QED BY <1>1, <2>1, <2>2, <2>3, OneRowMoves DEF PrivateReply!CreateReplyDraft, PrivateReply!Save
<1>2. CASE PrivateReply!ReviseReplyDraft(i)
  <2>1. PICK b : b = PrivateReply!revisePrivateReplyIntent(s1[i])
    OBVIOUS
  <2>2. Onwards(s1[i], b) /\ b.evidence = NoRun
    BY <1>0, <1>2, <2>1, OtherRows DEF PrivateReply!ReviseReplyDraft
  <2>3. b.status = "pending_approval"
    BY <2>1 DEF PrivateReply!revisePrivateReplyIntent, PrivateReply!NoIntent
  <2> QED BY <1>2, <2>1, <2>2, <2>3, OneRowMoves DEF PrivateReply!ReviseReplyDraft, PrivateReply!Save
<1>3. CASE PrivateReply!SubmitReplyDraft(i) \/ PrivateReply!CancelReply(i)
  <2>1. PICK to : /\ to \in {"pending_approval", "cancelled"} /\ to \in PrivateReply!replyTransitions[s1[i].status]
                  /\ to \in Open => s1[i].status \in Open
                  /\ s1' = [s1 EXCEPT ![i] = PrivateReply!transitionPrivateReplyIntent(s1[i], to, NoRun)]
    BY <1>3 DEF PrivateReply!SubmitReplyDraft, PrivateReply!CancelReply, PrivateReply!TransitionReplyIntent,
       PrivateReply!CanTransition, PrivateReply!Save, Open
  <2>2. PICK b : b = PrivateReply!transitionPrivateReplyIntent(s1[i], to, NoRun)
    OBVIOUS
  <2>3. Onwards(s1[i], b) /\ b.evidence \in {s1[i].evidence, NoRun} /\ b.status = to
    BY <1>0, <2>1, <2>2, Transitioned
  <2> QED BY <1>3, <2>1, <2>2, <2>3, OneRowMoves DEF PrivateReply!SubmitReplyDraft, PrivateReply!CancelReply
<1>4. CASE PrivateReply!ApproveReply(i)
  <2>1. /\ "queued" \in PrivateReply!replyTransitions[s1[i].status] /\ s1[i].status = "pending_approval"
        /\ s1' = [s1 EXCEPT ![i] = PrivateReply!transitionPrivateReplyIntent(s1[i], "queued", NoRun)]
    BY <1>4 DEF PrivateReply!ApproveReply, PrivateReply!TransitionReplyIntent, PrivateReply!CanTransition,
       PrivateReply!Save
  <2>2. PICK b : b = PrivateReply!transitionPrivateReplyIntent(s1[i], "queued", NoRun)
    OBVIOUS
  <2>3. Onwards(s1[i], b) /\ b.evidence \in {s1[i].evidence, NoRun} /\ b.body = s1[i].body
    BY <1>0, <2>1, <2>2, Transitioned DEF Open
  <2>4. /\ \A j \in Intents : Onwards(s1[j], s1[j])
        /\ s1' \in [Intents -> PrivateReply!Intent] /\ s1'[i] = b /\ \A j \in Intents \ {i} : s1'[j] = s1[j]
    BY <1>0, <2>1, <2>2, <2>3, RowsAreGood DEF Onwards
  <2>5. /\ s5' = s5 \cup {<<i, b.body>>} /\ b.body \in 1..MaxBody
    BY <1>0, <1>4, <2>1, <2>3 DEF PrivateReply!ApproveReply, Good, PrivateReply!Intent
  <2> QED BY <1>0, <1>4, <2>3, <2>4, <2>5 DEF PrivateReply!ApproveReply, RowsMove
<1>5. CASE PrivateReply!ReconcileReply(i)
  <2>1. PICK to, e : /\ to \in {"succeeded", "failed"} /\ to \in PrivateReply!replyTransitions[s1[i].status]
                     /\ to = "succeeded" => e # NoRun
                     /\ e \in {s1[i].evidence, NoRun}
                     /\ s1' = [s1 EXCEPT ![i] = PrivateReply!transitionPrivateReplyIntent(s1[i], to, e)]
    BY <1>5 DEF PrivateReply!ReconcileReply, PrivateReply!TransitionReplyIntent, PrivateReply!CanTransition,
       PrivateReply!Save
  <2>2. PICK b : b = PrivateReply!transitionPrivateReplyIntent(s1[i], to, e)
    OBVIOUS
  <2>3. e \in ReplyRuns \cup {NoRun} /\ (to \in Open => s1[i].status \in Open)
    BY <1>0, <2>1 DEF Good, PrivateReply!Intent, Open
  <2>4. Onwards(s1[i], b) /\ b.evidence \in {s1[i].evidence, NoRun} /\ b.status = to
    BY <1>0, <2>1, <2>2, <2>3, Transitioned
  <2> QED BY <1>5, <2>1, <2>2, <2>4, OneRowMoves DEF PrivateReply!ReconcileReply
<1>6. CASE PrivateReply!LeaseExpires(i)
  <2>1. s1[i].status # "none" /\ s1' = [s1 EXCEPT ![i] = [s1[i] EXCEPT !.active = FALSE]]
    BY <1>0, <1>6 DEF PrivateReply!LeaseExpires, Good, PrivateReply!NoIntent
  <2>2. PICK b : b = [s1[i] EXCEPT !.active = FALSE]
    OBVIOUS
  <2>3. Onwards(s1[i], b)
    BY <1>0, <2>1, <2>2, OtherRows
  <2>4. b.status = s1[i].status /\ b.body = s1[i].body /\ b.evidence = s1[i].evidence
    BY <1>0, <2>2 DEF Good, PrivateReply!Intent
  <2> QED BY <1>6, <2>1, <2>2, <2>3, <2>4, OneRowMoves DEF PrivateReply!LeaseExpires
<1>7. CASE PrivateReply!RecoverExpiredReplyIntent(i)
  <2>1. PICK b : b = [s1[i] EXCEPT !.status = "uncertain", !.owner = NoRun, !.version = @ + 1]
    OBVIOUS
  <2>2. Onwards(s1[i], b)
    BY <1>0, <1>7, <2>1, OtherRows DEF PrivateReply!RecoverExpiredReplyIntent
  <2>3. b.status = "uncertain" /\ b.evidence = s1[i].evidence
    BY <1>0, <2>1 DEF Good, PrivateReply!Intent
  <2> QED BY <1>7, <2>1, <2>2, <2>3, OneRowMoves DEF PrivateReply!RecoverExpiredReplyIntent, PrivateReply!Save
<1>8. CASE PrivateReply!PurgeIntent(i)
  <2>1. s1[i].status # "none" /\ s1' = [s1 EXCEPT ![i] = [s1[i] EXCEPT !.tombstoned = TRUE]]
    BY <1>0, <1>8 DEF PrivateReply!PurgeIntent, PrivateReply!Completed
  <2>2. PICK b : b = [s1[i] EXCEPT !.tombstoned = TRUE]
    OBVIOUS
  <2>3. Onwards(s1[i], b)
    BY <1>0, <2>1, <2>2, OtherRows
  <2>4. b.status = s1[i].status /\ b.body = s1[i].body /\ b.evidence = s1[i].evidence
    BY <1>0, <2>2 DEF Good, PrivateReply!Intent
  <2> QED BY <1>8, <2>1, <2>2, <2>3, <2>4, OneRowMoves DEF PrivateReply!PurgeIntent
<1> QED BY <1>1, <1>2, <1>3, <1>4, <1>5, <1>6, <1>7, <1>8 DEF PrivateReply!ReplyIntentStep

\* The erasure of provider data moves the table on and leaves the executions alone.
LEMMA ErasureMovesRows ==
  ASSUME PrivateReply!ReplyInv, PrivateReply!EraseIntents
  PROVE  RowsMove /\ UNCHANGED <<s2, s3, s4>>
<1>1. /\ s1 \in [Intents -> PrivateReply!Intent] /\ s5 \subseteq Intents \X (1..MaxBody)
      /\ UNCHANGED <<s5, s2, s3, s4>>
  BY DEF PrivateReply!ReplyInv, PrivateReply!ReplyTypeOK, PrivateReply!EraseIntents
<1>2. ASSUME NEW i \in Intents
      PROVE  /\ Onwards(s1[i], s1'[i]) /\ s1'[i].evidence \in {s1[i].evidence, NoRun}
             /\ s1'[i].status # "queued"
  <2>1. Good(s1[i])
    BY RowsAreGood
  <2>2. CASE s1[i].status = "none"
    <3>1. s1'[i] = s1[i] /\ s1[i] = PrivateReply!NoIntent
      BY <2>1, <2>2 DEF PrivateReply!EraseIntents, Good
    <3> QED BY <2>2, <3>1, RowsAreGood
  <2>3. CASE s1[i].status # "none"
    <3>1. PICK b : b = [s1[i] EXCEPT !.status = IF @ \in PrivateReply!Completed THEN @ ELSE "cancelled",
                               !.owner = NoRun, !.active = FALSE, !.tombstoned = TRUE]
      OBVIOUS
    <3>2. Onwards(s1[i], b)
      BY <2>1, <2>3, <3>1, OtherRows
    <3>3. b.evidence = s1[i].evidence /\ b.status \in PrivateReply!Completed
      BY <2>1, <3>1 DEF Good, PrivateReply!Intent, PrivateReply!Completed
    <3>4. s1'[i] = b
      BY <2>3, <3>1 DEF PrivateReply!EraseIntents
    <3> QED BY <3>2, <3>3, <3>4 DEF PrivateReply!Completed
  <2> QED BY <2>2, <2>3
<1>3. s1' \in [Intents -> PrivateReply!Intent]
  <2>1. \A i \in Intents : s1'[i] \in PrivateReply!Intent
    BY <1>2 DEF Onwards
  <2>2. s1' = [i \in Intents |-> s1'[i]]
    BY DEF PrivateReply!EraseIntents
  <2> QED BY <2>1, <2>2
<1> QED BY <1>1, <1>2, <1>3 DEF RowsMove

\* How the executions may change in one step that neither reads nor claims.
RunsMove ==
  /\ s2' \in [ReplyRuns -> PrivateReply!ExecutionContext]
  /\ s3' \subseteq s3 \cup {q \in ReplyRuns : s2[q].pc = "claimed"}
  /\ s4 \subseteq s4'
  /\ \A m \in s4' \ s4 : \E q \in s3 \ s3' : m = [intent |-> s2[q].intent, body |-> s2[q].body, run |-> q]
  /\ \A q \in ReplyRuns :
       /\ s2'[q].intent = s2[q].intent /\ s2'[q].body = s2[q].body
       /\ s2'[q].pc \in {"idle", "claimed"} => s2'[q] = s2[q]
       /\ s2'[q].pc = "read" => s2'[q] = s2[q]
       /\ s2[q].pc = "idle" => s2'[q].pc = "idle"
       /\ q \in s3' => s2'[q].pc # "claimed"
       /\ s2'[q].pc \in {"accepted", "checkpointed"} => PrivateReply!SentBy(q)

\* Rows and executions that move in these ways keep the invariant.
LEMMA InvariantMoves == ASSUME PrivateReply!ReplyInv, RowsMove, RunsMove PROVE PrivateReply!ReplyInv'
<1> USE ReplyAssumption
<1>1. /\ PrivateReply!ReplyTypeOK /\ PrivateReply!OneSender /\ PrivateReply!TextIsSpent /\ PrivateReply!ReadIsNotAhead /\ PrivateReply!QueuedWasApproved /\ PrivateReply!MessageIsOfItsRun /\ PrivateReply!EvidenceIsSent
      /\ \A r \in ReplyRuns : s2[r] \in PrivateReply!ExecutionContext /\ s2[r].intent \in Intents /\ s2[r].body \in Nat /\ s2[r].version \in Nat
      /\ \A i \in Intents : s1[i] \in PrivateReply!Intent /\ s1[i].body \in Nat /\ s1[i].version \in Nat
      /\ \A i \in Intents : s1'[i] \in PrivateReply!Intent /\ s1'[i].body \in Nat /\ s1'[i].version \in Nat
      /\ \A i \in Intents : Onwards(s1[i], s1'[i])
      /\ \A m \in s4 : m.run \in ReplyRuns /\ m.intent \in Intents /\ m = [intent |-> m.intent, body |-> m.body, run |-> m.run]
      /\ s3 \subseteq ReplyRuns
  <2>1. PrivateReply!ReplyTypeOK /\ PrivateReply!OneSender /\ PrivateReply!TextIsSpent /\ PrivateReply!ReadIsNotAhead /\ PrivateReply!QueuedWasApproved /\ PrivateReply!MessageIsOfItsRun /\ PrivateReply!EvidenceIsSent
    BY DEF PrivateReply!ReplyInv
  <2>2. \A r \in ReplyRuns : s2[r] \in PrivateReply!ExecutionContext /\ s2[r].intent \in Intents /\ s2[r].body \in Nat /\ s2[r].version \in Nat
    BY <2>1 DEF PrivateReply!ReplyTypeOK, PrivateReply!ExecutionContext
  <2>3. \A i \in Intents : s1[i] \in PrivateReply!Intent /\ s1[i].body \in Nat /\ s1[i].version \in Nat
    BY <2>1 DEF PrivateReply!ReplyTypeOK, PrivateReply!Intent
  <2>4. \A i \in Intents : s1'[i] \in PrivateReply!Intent /\ s1'[i].body \in Nat /\ s1'[i].version \in Nat
    BY DEF RowsMove, PrivateReply!Intent
  <2>5. \A i \in Intents : Onwards(s1[i], s1'[i])
    BY DEF RowsMove
  <2>6. \A m \in s4 : m.run \in ReplyRuns /\ m.intent \in Intents /\ m = [intent |-> m.intent, body |-> m.body, run |-> m.run]
    BY <2>1 DEF PrivateReply!ReplyTypeOK
  <2>7. s3 \subseteq ReplyRuns
    BY <2>1 DEF PrivateReply!ReplyTypeOK
  <2> QED BY <2>1, <2>2, <2>3, <2>4, <2>5, <2>6, <2>7
<1>2. \A m \in s4' \ s4 : /\ m.run \in s3 /\ m.run \notin s3' /\ m.intent = s2[m.run].intent /\ m.body = s2[m.run].body
                          /\ m.body > 0 /\ s2[m.run].pc \notin {"idle", "read", "claimed"}
                          /\ m \in [intent : Intents, body : 1..MaxBody, run : ReplyRuns]
  <2> SUFFICES ASSUME NEW m \in s4' \ s4
               PROVE  /\ m.run \in s3 /\ m.run \notin s3' /\ m.intent = s2[m.run].intent /\ m.body = s2[m.run].body
                      /\ m.body > 0 /\ s2[m.run].pc \notin {"idle", "read", "claimed"}
                      /\ m \in [intent : Intents, body : 1..MaxBody, run : ReplyRuns]
    OBVIOUS
  <2>1. PICK q \in s3 \ s3' : m = [intent |-> s2[q].intent, body |-> s2[q].body, run |-> q]
    BY DEF RunsMove
  <2>2. q \in ReplyRuns /\ s2[q].pc \notin {"idle", "read", "claimed"}
    BY <1>1, <2>1 DEF PrivateReply!EvidenceIsSent
  <2>3. <<s2[q].intent, s2[q].body>> \in Intents \X (1..MaxBody)
    BY <1>1, <2>2 DEF PrivateReply!QueuedWasApproved, PrivateReply!ReplyTypeOK
  <2> QED BY <2>1, <2>2, <2>3
<1>3. \A q \in ReplyRuns : s2'[q].intent = s2[q].intent /\ s2'[q].body = s2[q].body
  BY DEF RunsMove
<1>3a. \A q \in ReplyRuns : (s2'[q].pc = "claimed" \/ q \in s3' \/ \E m \in s4' : m.run = q) => PrivateReply!Sends(q)
  <2>1. \A q \in ReplyRuns : (\E m \in s4' : m.run = q) => PrivateReply!SentBy(q) \/ q \in s3
    BY <1>2 DEF PrivateReply!SentBy
  <2>2. \A q \in ReplyRuns : q \in s3' => q \in s3 \/ s2[q].pc = "claimed"
    BY DEF RunsMove
  <2>3. \A q \in ReplyRuns : s2'[q].pc = "claimed" => s2[q].pc = "claimed"
    BY DEF RunsMove
  <2> QED BY <2>1, <2>2, <2>3 DEF PrivateReply!Sends
<1>4. PrivateReply!ReplyTypeOK'
  <2>1. s3' \subseteq ReplyRuns /\ s2' \in [ReplyRuns -> PrivateReply!ExecutionContext]
    BY <1>1 DEF RunsMove
  <2>2. s4' \subseteq [intent : Intents, body : 1..MaxBody, run : ReplyRuns]
    BY <1>1, <1>2 DEF PrivateReply!ReplyTypeOK
  <2> QED BY <2>1, <2>2 DEF PrivateReply!ReplyTypeOK, RowsMove
<1>5. PrivateReply!OneSender'
  <2> SUFFICES ASSUME NEW r \in ReplyRuns, NEW q \in ReplyRuns,
                      s2'[r].pc = "claimed" \/ r \in s3' \/ \E m \in s4' : m.run = r,
                      s2'[q].pc = "claimed" \/ q \in s3' \/ \E m \in s4' : m.run = q,
                      s2'[r].intent = s2'[q].intent, s2'[r].body = s2'[q].body
               PROVE  r = q
    BY Zenon DEF PrivateReply!OneSender, PrivateReply!Sends, PrivateReply!SentBy
  <2>1. PrivateReply!Sends(r) /\ PrivateReply!Sends(q)
    BY <1>3a
  <2>2. s2[r].intent = s2[q].intent /\ s2[r].body = s2[q].body
    BY <1>3
  <2> QED BY <1>1, <2>1, <2>2 DEF PrivateReply!OneSender
<1>6. PrivateReply!TextIsSpent'
  <2> SUFFICES ASSUME NEW q \in ReplyRuns, s2'[q].pc = "claimed" \/ q \in s3' \/ \E m \in s4' : m.run = q
               PROVE  \/ s2'[q].body < s1'[s2'[q].intent].body
                      \/ (s2'[q].body = s1'[s2'[q].intent].body /\ s1'[s2'[q].intent].status \notin Open)
    BY DEF PrivateReply!TextIsSpent, Open, PrivateReply!Sends, PrivateReply!SentBy
  <2> DEFINE i == s2[q].intent
  <2>0. PrivateReply!Sends(q)
    BY <1>3a
  <2>1. i \in Intents /\ i = s2'[q].intent /\ s2'[q].body = s2[q].body /\ PrivateReply!Sends(q)
    BY <1>1, <1>3, <2>0
  <2>2. s2[q].body < s1[i].body \/ (s2[q].body = s1[i].body /\ s1[i].status \notin Open)
    BY <1>1, <2>1 DEF PrivateReply!TextIsSpent, Open
  <2>3. Onwards(s1[i], s1'[i]) /\ s1[i].body \in Nat /\ s1'[i].body \in Nat /\ s2[q].body \in Nat
    BY <1>1, <2>1
  <2> HIDE DEF i
  <2> QED BY <2>1, <2>2, <2>3 DEF Onwards
<1>7. PrivateReply!ReadIsNotAhead'
  <2> SUFFICES ASSUME NEW q \in ReplyRuns, s2'[q].pc = "read"
               PROVE  /\ s2'[q].version <= s1'[s2'[q].intent].version
                      /\ s2'[q].version = s1'[s2'[q].intent].version => s2'[q].body = s1'[s2'[q].intent].body
    BY DEF PrivateReply!ReadIsNotAhead
  <2> DEFINE i == s2[q].intent
  <2>1. i \in Intents /\ s2'[q] = s2[q] /\ s2[q].pc = "read"
    BY <1>1 DEF RunsMove
  <2>2. s2[q].version <= s1[i].version /\ (s2[q].version = s1[i].version => s2[q].body = s1[i].body)
    BY <1>1, <2>1 DEF PrivateReply!ReadIsNotAhead
  <2>3. /\ Onwards(s1[i], s1'[i]) /\ s1[i].version \in Nat /\ s1'[i].version \in Nat
        /\ s2[q].version \in Nat
    BY <1>1, <2>1
  <2> QED BY <2>1, <2>2, <2>3 DEF Onwards
<1>8. PrivateReply!QueuedWasApproved'
  <2>1. \A i \in Intents : s1'[i].status = "queued" => <<i, s1'[i].body>> \in s5'
    BY <1>1 DEF RowsMove, PrivateReply!QueuedWasApproved
  <2>2. \A q \in ReplyRuns : s2'[q].pc # "idle" => <<s2'[q].intent, s2'[q].body>> \in s5'
    BY <1>1, <1>3 DEF RowsMove, RunsMove, PrivateReply!QueuedWasApproved
  <2> QED BY <2>1, <2>2 DEF PrivateReply!QueuedWasApproved
<1>9. PrivateReply!MessageIsOfItsRun'
  <2> SUFFICES ASSUME NEW m \in s4'
               PROVE  /\ m.intent = s2'[m.run].intent /\ m.body = s2'[m.run].body
                      /\ s2'[m.run].pc \notin {"idle", "read", "claimed"} /\ m.run \notin s3'
    BY DEF PrivateReply!MessageIsOfItsRun
  <2>1. /\ m.intent = s2[m.run].intent /\ m.body = s2[m.run].body /\ m.run \in ReplyRuns
        /\ s2[m.run].pc \notin {"idle", "read", "claimed"} /\ m.run \notin s3'
    <3>1. CASE m \in s4
      BY <1>1, <3>1 DEF PrivateReply!MessageIsOfItsRun, RunsMove
    <3>2. CASE m \notin s4
      BY <1>1, <1>2, <3>2
    <3> QED BY <3>1, <3>2
  <2> QED BY <2>1 DEF RunsMove
<1>10. PrivateReply!EvidenceIsSent'
  <2>1. \A i \in Intents : /\ s1'[i].status = "succeeded" => s1'[i].evidence # NoRun
                           /\ s1'[i].status = "none" => s1'[i] = PrivateReply!NoIntent
                           /\ s1'[i].status # "none" => s1'[i].body > 0
    BY <1>1 DEF Onwards
  <2>2. ASSUME NEW i \in Intents, s1'[i].evidence # NoRun
        PROVE  \E m \in s4' : m.run = s1'[i].evidence /\ m.intent = i
    <3>1. CASE s1'[i].evidence = s1[i].evidence
      BY <1>1, <2>2, <3>1 DEF PrivateReply!EvidenceIsSent, RunsMove
    <3>2. CASE s1'[i].evidence # s1[i].evidence
      <4>1. PICK r \in ReplyRuns : r = s1'[i].evidence /\ s2[r].intent = i /\ s2[r].pc \in {"accepted", "checkpointed"}
        BY <2>2, <3>2 DEF RowsMove
      <4>2. PICK m \in s4 : m.run = r
        BY <1>1, <4>1 DEF PrivateReply!EvidenceIsSent, PrivateReply!SentBy
      <4>3. m.intent = i /\ m \in s4'
        BY <1>1, <4>1, <4>2 DEF PrivateReply!MessageIsOfItsRun, RunsMove
      <4> QED BY <4>1, <4>2, <4>3
    <3> QED BY <3>1, <3>2
  <2>3. \A q \in ReplyRuns : /\ s2'[q].pc \in {"accepted", "checkpointed"} => (\E m \in s4' : m.run = q)
                             /\ q \in s3' => s2'[q].pc \notin {"idle", "read", "claimed"}
    <3>1. \A q \in ReplyRuns : s2'[q].pc \in {"accepted", "checkpointed"} => \E m \in s4' : m.run = q
      BY DEF RunsMove, PrivateReply!SentBy
    <3>2. ASSUME NEW q \in ReplyRuns, q \in s3' PROVE s2'[q].pc \notin {"idle", "read", "claimed"}
      BY <1>1, <3>2 DEF RunsMove, PrivateReply!EvidenceIsSent
    <3> QED BY <3>1, <3>2
  <2> QED BY <2>1, <2>2, <2>3 DEF PrivateReply!EvidenceIsSent, PrivateReply!SentBy
<1> QED BY <1>4, <1>5, <1>6, <1>7, <1>8, <1>9, <1>10 DEF PrivateReply!ReplyInv

\* A write of an execution that knows its text has left the queue moves the table on.
LEMMA WriteMovesRows ==
  ASSUME PrivateReply!ReplyInv, NEW r \in ReplyRuns, NEW to \in {"succeeded", "failed", "uncertain", "expired"},
         NEW e, NEW n, NEW o, e = NoRun \/ (e = r /\ s2[r].pc \in {"accepted", "checkpointed"}), to = "succeeded" => e # NoRun,
         s5' = s5,
         \/ UNCHANGED s1
         \/ /\ PrivateReply!CanTransition(s2[r].intent, n, o, to)
            /\ PrivateReply!Save(s2[r].intent, PrivateReply!transitionPrivateReplyIntent(s1[s2[r].intent], to, e))
  PROVE  RowsMove
<1>1. CASE UNCHANGED s1
  BY <1>1, NoRowMoves
<1>2. CASE /\ PrivateReply!CanTransition(s2[r].intent, n, o, to)
           /\ PrivateReply!Save(s2[r].intent, PrivateReply!transitionPrivateReplyIntent(s1[s2[r].intent], to, e))
  <2>1. PICK i \in Intents : i = s2[r].intent
    BY DEF PrivateReply!ReplyInv, PrivateReply!ReplyTypeOK, PrivateReply!ExecutionContext
  <2>2. PICK b : b = PrivateReply!transitionPrivateReplyIntent(s1[i], to, e)
    OBVIOUS
  <2>3. to \in PrivateReply!replyTransitions[s1[i].status] /\ Good(s1[i]) /\ e \in ReplyRuns \cup {NoRun} /\ to \notin Open
    BY <1>2, <2>1, RowsAreGood DEF PrivateReply!CanTransition, Open
  <2>4. Onwards(s1[i], b) /\ b.status = to /\ b.evidence \in {s1[i].evidence, e, NoRun}
    BY <2>2, <2>3, Transitioned
  <2>5. s1' = [s1 EXCEPT ![i] = b]
    BY <1>2, <2>1, <2>2 DEF PrivateReply!Save
  <2> QED BY <2>1, <2>4, <2>5, OneRowMoves
<1> QED BY <1>1, <1>2

\* An execution that goes on without reading or claiming moves the executions in the permitted way.
LEMMA RunGoesOn ==
  ASSUME PrivateReply!ReplyInv, NEW r \in ReplyRuns, NEW l \in {"sending", "accepted", "checkpointed", "done"}, NEW n \in Nat,
         s2' = [s2 EXCEPT ![r] = [s2[r] EXCEPT !.pc = l, !.version = n]],
         l \in {"accepted", "checkpointed"} => PrivateReply!SentBy(r), s2[r].pc # "idle",
         UNCHANGED s4, s3' \subseteq s3 \cup {q \in ReplyRuns : s2[q].pc = "claimed"} /\ (s3' \subseteq s3 \cup {r})
  PROVE  RunsMove
<1>1. PICK q : q = [s2[r] EXCEPT !.pc = l, !.version = n]
  OBVIOUS
<1>2. s2 \in [ReplyRuns -> PrivateReply!ExecutionContext] /\ s2[r] \in PrivateReply!ExecutionContext
  BY DEF PrivateReply!ReplyInv, PrivateReply!ReplyTypeOK
<1>3. q \in PrivateReply!ExecutionContext /\ q.pc = l /\ q.intent = s2[r].intent /\ q.body = s2[r].body
  BY <1>1, <1>2 DEF PrivateReply!ExecutionContext
<1>4. s2' \in [ReplyRuns -> PrivateReply!ExecutionContext] /\ s2'[r] = q /\ \A p \in ReplyRuns \ {r} : s2'[p] = s2[p]
  BY <1>1, <1>2, <1>3
<1>5. \A p \in ReplyRuns : s2[p].pc \in {"accepted", "checkpointed"} => PrivateReply!SentBy(p)
  BY DEF PrivateReply!ReplyInv, PrivateReply!EvidenceIsSent
<1>6. \A p \in ReplyRuns : p \in s3 => s2[p].pc # "claimed"
  BY DEF PrivateReply!ReplyInv, PrivateReply!EvidenceIsSent
<1>7. ASSUME NEW p \in ReplyRuns
      PROVE  /\ s2'[p].intent = s2[p].intent /\ s2'[p].body = s2[p].body
             /\ s2'[p].pc \in {"idle", "claimed"} => s2'[p] = s2[p]
             /\ s2'[p].pc = "read" => s2'[p] = s2[p]
             /\ s2[p].pc = "idle" => s2'[p].pc = "idle"
             /\ p \in s3' => s2'[p].pc # "claimed"
             /\ s2'[p].pc \in {"accepted", "checkpointed"} => PrivateReply!SentBy(p)
  BY <1>3, <1>4, <1>5, <1>6
<1> QED BY <1>4, <1>7 DEF RunsMove

\* An execution that has not claimed sends nothing, has nothing underway and nothing sent.
LEMMA OpenSender ==
  ASSUME PrivateReply!ReplyInv, NEW r \in ReplyRuns, s2[r].pc \in {"idle", "read"}
  PROVE  ~PrivateReply!Sends(r) /\ r \notin s3 /\ \A m \in s4 : m.run # r /\ m.run \in ReplyRuns
  BY DEF PrivateReply!ReplyInv, PrivateReply!ReplyTypeOK, PrivateReply!EvidenceIsSent, PrivateReply!MessageIsOfItsRun,
     PrivateReply!Sends, PrivateReply!SentBy

\* An execution that reads its reply keeps the invariant.
LEMMA ReadKeeps ==
  ASSUME PrivateReply!ReplyInv, NEW r \in ReplyRuns, NEW i \in Intents, PrivateReply!ReadReply(r, i)
  PROVE  PrivateReply!ReplyInv'
<1> USE ReplyAssumption
<1>1. PICK x : x = [pc |-> "read", intent |-> i, version |-> s1[i].version, body |-> s1[i].body]
  OBVIOUS
<1>2. /\ x \in PrivateReply!ExecutionContext /\ x.pc = "read" /\ x.intent = i /\ x.version = s1[i].version /\ x.body = s1[i].body
      /\ x.version \in Nat
  BY <1>1 DEF PrivateReply!ReplyInv, PrivateReply!ReplyTypeOK, PrivateReply!Intent, PrivateReply!ExecutionContext
<1>3. /\ s2' \in [ReplyRuns -> PrivateReply!ExecutionContext] /\ s2'[r] = x /\ \A q \in ReplyRuns \ {r} : s2'[q] = s2[q]
      /\ s2[r].pc = "idle" /\ UNCHANGED <<s1, s3, s4, s5>> /\ s1[i].status = "queued"
  BY <1>1, <1>2 DEF PrivateReply!ReadReply, PrivateReply!ReplyInv, PrivateReply!ReplyTypeOK
<1>4. ~PrivateReply!Sends(r) /\ r \notin s3 /\ \A m \in s4 : m.run # r /\ m.run \in ReplyRuns
  BY <1>3, OpenSender
<1>5. \A q \in ReplyRuns : PrivateReply!Sends(q)' => PrivateReply!Sends(q) /\ q # r
  BY <1>2, <1>3, <1>4 DEF PrivateReply!Sends, PrivateReply!SentBy
<1>6. PrivateReply!ReplyTypeOK' /\ PrivateReply!OneSender' /\ PrivateReply!TextIsSpent'
  BY <1>3, <1>5 DEF PrivateReply!ReplyInv, PrivateReply!ReplyTypeOK, PrivateReply!OneSender, PrivateReply!TextIsSpent
<1>7. PrivateReply!ReadIsNotAhead' /\ PrivateReply!QueuedWasApproved'
  BY <1>2, <1>3 DEF PrivateReply!ReplyInv, PrivateReply!ReadIsNotAhead, PrivateReply!QueuedWasApproved
<1>8. PrivateReply!MessageIsOfItsRun'
  BY <1>3, <1>4 DEF PrivateReply!ReplyInv, PrivateReply!MessageIsOfItsRun
<1>9. PrivateReply!EvidenceIsSent'
  BY <1>2, <1>3, <1>4 DEF PrivateReply!ReplyInv, PrivateReply!EvidenceIsSent, PrivateReply!SentBy
<1> QED BY <1>6, <1>7, <1>8, <1>9 DEF PrivateReply!ReplyInv

\* A claim moves the table on.
LEMMA ClaimMovesRows ==
  ASSUME PrivateReply!ReplyInv, NEW r \in ReplyRuns, PrivateReply!ClaimReply(r), PrivateReply!CanClaim(r)
  PROVE  RowsMove
<1>1. PICK i \in Intents : i = s2[r].intent
  BY DEF PrivateReply!ReplyInv, PrivateReply!ReplyTypeOK, PrivateReply!ExecutionContext
<1>2. PICK b : b = PrivateReply!claimPrivateReplyIntent(s1[i], r)
  OBVIOUS
<1>3. Good(s1[i]) /\ s1[i].status = "queued"
  BY <1>1, RowsAreGood DEF PrivateReply!CanClaim
<1>4. Onwards(s1[i], b)
  BY <1>2, <1>3, OtherRows
<1>5. b.status = "processing" /\ b.evidence = s1[i].evidence
  BY <1>2, <1>3 DEF PrivateReply!claimPrivateReplyIntent, Good, PrivateReply!Intent
<1> QED BY <1>1, <1>2, <1>4, <1>5, OneRowMoves DEF PrivateReply!ClaimReply, PrivateReply!Save

\* A claim keeps the invariant: the text it takes is in the queue, so no other execution sends it.
LEMMA ClaimKeeps ==
  ASSUME PrivateReply!ReplyInv, NEW r \in ReplyRuns, PrivateReply!ClaimReply(r), PrivateReply!CanClaim(r)
  PROVE  PrivateReply!ReplyInv'
<1> USE ReplyAssumption
<1>0. RowsMove
  BY ClaimMovesRows
<1>1. PICK i \in Intents : i = s2[r].intent
  BY DEF PrivateReply!ReplyInv, PrivateReply!ReplyTypeOK, PrivateReply!ExecutionContext
<1>2. /\ s2 \in [ReplyRuns -> PrivateReply!ExecutionContext] /\ s2[r] \in PrivateReply!ExecutionContext /\ s1[i] \in PrivateReply!Intent
      /\ s2[r].pc = "read" /\ s1[i].status = "queued" /\ s2[r].version = s1[i].version /\ UNCHANGED <<s3, s4, s5>>
  BY <1>1 DEF PrivateReply!ReplyInv, PrivateReply!ReplyTypeOK, PrivateReply!ClaimReply, PrivateReply!CanClaim
<1>3. s2[r].body = s1[i].body /\ s2[r].body \in Nat /\ s2[r].version \in Nat
  BY <1>1, <1>2 DEF PrivateReply!ReplyInv, PrivateReply!ReadIsNotAhead, PrivateReply!ExecutionContext
<1>4. PICK n \in Nat : n = s2[r].version + 1
  BY <1>3
<1>5. PICK x : x = [s2[r] EXCEPT !.pc = "claimed", !.version = n]
  OBVIOUS
<1>6. x \in PrivateReply!ExecutionContext /\ x.pc = "claimed" /\ x.intent = i /\ x.body = s2[r].body
  BY <1>1, <1>2, <1>5 DEF PrivateReply!ExecutionContext
<1>7. s2' \in [ReplyRuns -> PrivateReply!ExecutionContext] /\ s2'[r] = x /\ \A q \in ReplyRuns \ {r} : s2'[q] = s2[q]
  BY <1>2, <1>4, <1>5, <1>6 DEF PrivateReply!ClaimReply
<1>8. s1'[i] = PrivateReply!claimPrivateReplyIntent(s1[i], r) /\ \A j \in Intents \ {i} : s1'[j] = s1[j]
  BY <1>1, <1>2 DEF PrivateReply!ClaimReply, PrivateReply!Save, PrivateReply!ReplyInv, PrivateReply!ReplyTypeOK
<1>9. /\ s1'[i].status = "processing" /\ s1'[i].body = s1[i].body
      /\ s1'[i].evidence = s1[i].evidence
  BY <1>2, <1>8 DEF PrivateReply!claimPrivateReplyIntent, PrivateReply!Intent
<1>10. ~PrivateReply!Sends(r) /\ r \notin s3 /\ \A m \in s4 : m.run # r /\ m.run \in ReplyRuns
  BY <1>2, OpenSender
<1>11. \A q \in ReplyRuns \ {r} : PrivateReply!Sends(q)' <=> PrivateReply!Sends(q)
  BY <1>2, <1>7 DEF PrivateReply!Sends, PrivateReply!SentBy
<1>12. \A q \in ReplyRuns \ {r} : PrivateReply!Sends(q) => s2[q].intent # i \/ s2[q].body # s2[r].body
  <2>1. \A q \in ReplyRuns : s2[q].body \in Nat
    BY <1>2 DEF PrivateReply!ExecutionContext
  <2> QED BY <1>2, <1>3, <2>1 DEF PrivateReply!ReplyInv, PrivateReply!TextIsSpent
<1>13. PrivateReply!ReplyTypeOK'
  BY <1>0, <1>2, <1>7 DEF RowsMove, PrivateReply!ReplyInv, PrivateReply!ReplyTypeOK
<1>14. PrivateReply!OneSender'
  BY <1>6, <1>7, <1>11, <1>12 DEF PrivateReply!ReplyInv, PrivateReply!OneSender
<1>15. PrivateReply!TextIsSpent'
  <2> SUFFICES ASSUME NEW q \in ReplyRuns, PrivateReply!Sends(q)'
               PROVE  \/ s2'[q].body < s1'[s2'[q].intent].body
                      \/ (s2'[q].body = s1'[s2'[q].intent].body /\ s1'[s2'[q].intent].status \notin Open)
    BY DEF PrivateReply!TextIsSpent, Open
  <2>1. CASE q = r
    BY <1>3, <1>6, <1>7, <1>9, <2>1 DEF Open
  <2>2. CASE q # r
    <3>1. PrivateReply!Sends(q) /\ s2'[q] = s2[q]
      BY <1>7, <1>11, <2>2
    <3>2. \/ s2[q].body < s1[s2[q].intent].body
          \/ (s2[q].body = s1[s2[q].intent].body /\ s1[s2[q].intent].status \notin Open)
      BY <3>1 DEF PrivateReply!ReplyInv, PrivateReply!TextIsSpent, Open
    <3>3. s2[q].intent \in Intents
      BY <1>2 DEF PrivateReply!ExecutionContext
    <3> QED BY <1>8, <1>9, <3>1, <3>2, <3>3 DEF Open
  <2> QED BY <2>1, <2>2
<1>16. PrivateReply!ReadIsNotAhead'
  <2> SUFFICES ASSUME NEW q \in ReplyRuns, s2'[q].pc = "read"
               PROVE  /\ s2'[q].version <= s1'[s2'[q].intent].version
                      /\ s2'[q].version = s1'[s2'[q].intent].version => s2'[q].body = s1'[s2'[q].intent].body
    BY DEF PrivateReply!ReadIsNotAhead
  <2>1. q # r /\ s2'[q] = s2[q] /\ s2[q].intent \in Intents /\ s2[q].version \in Nat
    BY <1>2, <1>6, <1>7 DEF PrivateReply!ExecutionContext
  <2>2. PICK j \in Intents : j = s2[q].intent
    BY <2>1
  <2>3. s2[q].version <= s1[j].version /\ (s2[q].version = s1[j].version => s2[q].body = s1[j].body)
    BY <2>1, <2>2 DEF PrivateReply!ReplyInv, PrivateReply!ReadIsNotAhead
  <2>4. Onwards(s1[j], s1'[j]) /\ s1[j].version \in Nat /\ s1'[j].version \in Nat
    BY <1>0 DEF RowsMove, PrivateReply!ReplyInv, PrivateReply!ReplyTypeOK, PrivateReply!Intent
  <2> QED BY <2>1, <2>2, <2>3, <2>4 DEF Onwards
<1>17. PrivateReply!QueuedWasApproved'
  <2>1. \A j \in Intents : s1'[j].status = "queued" => <<j, s1'[j].body>> \in s5'
    BY <1>2, <1>8, <1>9 DEF PrivateReply!ReplyInv, PrivateReply!QueuedWasApproved
  <2>2. \A q \in ReplyRuns : s2'[q].pc # "idle" => <<s2'[q].intent, s2'[q].body>> \in s5'
    BY <1>1, <1>2, <1>6, <1>7 DEF PrivateReply!ReplyInv, PrivateReply!QueuedWasApproved
  <2> QED BY <2>1, <2>2 DEF PrivateReply!QueuedWasApproved
<1>18. PrivateReply!MessageIsOfItsRun'
  BY <1>2, <1>7, <1>10 DEF PrivateReply!ReplyInv, PrivateReply!MessageIsOfItsRun
<1>19. PrivateReply!EvidenceIsSent'
  <2>1. \A j \in Intents : /\ s1'[j].status = "succeeded" => s1'[j].evidence # NoRun
                           /\ s1'[j].status = "none" => s1'[j] = PrivateReply!NoIntent
                           /\ s1'[j].status # "none" => s1'[j].body > 0
    BY <1>0 DEF RowsMove, Onwards
  <2>2. \A j \in Intents : s1'[j].evidence = s1[j].evidence
    BY <1>8, <1>9
  <2>3. \A j \in Intents : s1'[j].evidence # NoRun => \E m \in s4' : m.run = s1'[j].evidence /\ m.intent = j
    BY <1>2, <2>2 DEF PrivateReply!ReplyInv, PrivateReply!EvidenceIsSent
  <2>4. \A q \in ReplyRuns : /\ s2'[q].pc \in {"accepted", "checkpointed"} => (\E m \in s4' : m.run = q)
                             /\ q \in s3' => s2'[q].pc \notin {"idle", "read", "claimed"}
    BY <1>2, <1>6, <1>7, <1>10 DEF PrivateReply!ReplyInv, PrivateReply!EvidenceIsSent, PrivateReply!SentBy
  <2> QED BY <2>1, <2>3, <2>4 DEF PrivateReply!EvidenceIsSent, PrivateReply!SentBy
<1> QED BY <1>13, <1>14, <1>15, <1>16, <1>17, <1>18, <1>19 DEF PrivateReply!ReplyInv

\* Every step of an execution moves the table on.
LEMMA RunsMoveRows == ASSUME PrivateReply!ReplyInv, NEW r \in ReplyRuns, PrivateReply!ReplyRunStep(r) PROVE RowsMove
<1>1. CASE PrivateReply!Ineligible(r) \/ PrivateReply!SendUncertain(r) \/ PrivateReply!EvidenceInvalid(r) \/ PrivateReply!SendRejected(r)
  <2>1. PICK to \in {"expired", "failed", "uncertain"} : PrivateReply!TransitionFromProcessing(r, to, NoRun)
    BY <1>1 DEF PrivateReply!Ineligible, PrivateReply!SendUncertain, PrivateReply!EvidenceInvalid,
       PrivateReply!SendRejected
  <2>2. s5' = s5
    BY <1>1 DEF PrivateReply!Ineligible, PrivateReply!SendUncertain, PrivateReply!EvidenceInvalid,
       PrivateReply!SendRejected
  <2> QED BY <2>1, <2>2, WriteMovesRows DEF PrivateReply!TransitionFromProcessing
<1>2. CASE PrivateReply!SendText(r) \/ PrivateReply!SendAccepted(r) \/ PrivateReply!WorkerStops(r) \/ PrivateReply!ProviderAccepts(r) \/ \E i \in Intents : PrivateReply!ReadReply(r, i)
  BY <1>2, NoRowMoves DEF PrivateReply!SendText, PrivateReply!SendAccepted, PrivateReply!WorkerStops,
     PrivateReply!ProviderAccepts, PrivateReply!ReadReply
<1>3. CASE PrivateReply!ConfirmReply(r)
  BY <1>3, WriteMovesRows, ReplyAssumption DEF PrivateReply!ConfirmReply, PrivateReply!TransitionFromProcessing
<1>4. CASE PrivateReply!Checkpoint(r)
  BY <1>4, WriteMovesRows DEF PrivateReply!Checkpoint
<1>5. CASE PrivateReply!ClaimReply(r)
  <2>1. CASE PrivateReply!CanClaim(r)
    BY <1>5, <2>1, ClaimMovesRows
  <2>2. CASE ~PrivateReply!CanClaim(r)
    BY <1>5, <2>2, NoRowMoves DEF PrivateReply!ClaimReply
  <2> QED BY <2>1, <2>2
<1> QED BY <1>1, <1>2, <1>3, <1>4, <1>5 DEF PrivateReply!ReplyRunStep

\* Every step of an execution keeps the invariant.
LEMMA RunSteps ==
  ASSUME PrivateReply!ReplyInv, NEW r \in ReplyRuns, PrivateReply!ReplyRunStep(r)
  PROVE  PrivateReply!ReplyInv'
<1> USE ReplyAssumption
<1>rows. RowsMove
  BY RunsMoveRows
<1>0. /\ s2 \in [ReplyRuns -> PrivateReply!ExecutionContext] /\ s2[r] \in PrivateReply!ExecutionContext /\ s2[r].intent \in Intents
      /\ s2[r].version \in Nat /\ s2[r].body \in Nat /\ s3 \subseteq ReplyRuns
      /\ s1[s2[r].intent] \in PrivateReply!Intent /\ s1[s2[r].intent].version \in Nat
  <2>1. s2 \in [ReplyRuns -> PrivateReply!ExecutionContext] /\ s2[r] \in PrivateReply!ExecutionContext /\ s3 \subseteq ReplyRuns
        /\ s1 \in [Intents -> PrivateReply!Intent]
    BY DEF PrivateReply!ReplyInv, PrivateReply!ReplyTypeOK
  <2>2. s2[r].intent \in Intents /\ s2[r].version \in Nat /\ s2[r].body \in Nat
    BY <2>1 DEF PrivateReply!ExecutionContext
  <2>3. s1[s2[r].intent] \in PrivateReply!Intent
    BY <2>1, <2>2
  <2>4. s1[s2[r].intent].version \in Nat
    BY <2>3 DEF PrivateReply!Intent
  <2> QED BY <2>1, <2>2, <2>3, <2>4
<1>1. ASSUME NEW l \in {"sending", "accepted", "checkpointed", "done"}, PrivateReply!GoTo(r, l),
             l \in {"accepted", "checkpointed"} => PrivateReply!SentBy(r), s2[r].pc # "idle", UNCHANGED s4,
             s3' = s3 \/ s3' = s3 \ {r} \/ (s3' = s3 \cup {r} /\ s2[r].pc = "claimed")
      PROVE  RunsMove
  <2>1. s2' = [s2 EXCEPT ![r] = [s2[r] EXCEPT !.pc = l, !.version = s2[r].version]]
    <3>1. [s2[r] EXCEPT !.pc = l] = [s2[r] EXCEPT !.pc = l, !.version = s2[r].version]
      BY <1>0 DEF PrivateReply!ExecutionContext
    <3> QED BY <1>0, <1>1, <3>1 DEF PrivateReply!GoTo
  <2> QED BY <1>0, <1>1, <2>1, RunGoesOn
<1>2. CASE PrivateReply!Ineligible(r) \/ PrivateReply!SendUncertain(r) \/ PrivateReply!EvidenceInvalid(r)
  <2>1. PrivateReply!GoTo(r, "done") /\ UNCHANGED <<s3, s4>> /\ s2[r].pc # "idle"
    BY <1>2 DEF PrivateReply!Ineligible, PrivateReply!SendUncertain, PrivateReply!EvidenceInvalid
  <2> QED BY <1>rows, <1>1, <2>1, InvariantMoves
<1>3. CASE PrivateReply!SendRejected(r)
  <2>1. PrivateReply!GoTo(r, "done") /\ UNCHANGED s4 /\ s2[r].pc # "idle" /\ s3' = s3 \ {r}
    BY <1>3 DEF PrivateReply!SendRejected
  <2> QED BY <1>rows, <1>1, <2>1, InvariantMoves
<1>4. CASE PrivateReply!SendText(r) \/ PrivateReply!SendAccepted(r) \/ PrivateReply!WorkerStops(r)
  <2>1. CASE PrivateReply!SendText(r)
    BY <1>rows, <1>1, <2>1, InvariantMoves DEF PrivateReply!SendText
  <2>2. CASE PrivateReply!SendAccepted(r)
    BY <1>rows, <1>1, <2>2, InvariantMoves DEF PrivateReply!SendAccepted
  <2>3. CASE PrivateReply!WorkerStops(r)
    BY <1>rows, <1>1, <2>3, InvariantMoves DEF PrivateReply!WorkerStops
  <2> QED BY <1>4, <2>1, <2>2, <2>3
<1>5. CASE PrivateReply!ConfirmReply(r)
  BY <1>rows, <1>1, <1>5, InvariantMoves DEF PrivateReply!ConfirmReply
<1>6. CASE PrivateReply!ProviderAccepts(r)
  <2>1. \A q \in ReplyRuns : s2[q].pc \in {"accepted", "checkpointed"} => PrivateReply!SentBy(q)
    BY DEF PrivateReply!ReplyInv, PrivateReply!EvidenceIsSent
  <2>2. \A q \in s3 : s2[q].pc # "claimed"
    BY <1>0 DEF PrivateReply!ReplyInv, PrivateReply!EvidenceIsSent
  <2>3. RunsMove
    BY <1>0, <1>6, <2>1, <2>2 DEF PrivateReply!ProviderAccepts, RunsMove
  <2> QED BY <1>rows, <2>3, InvariantMoves
<1>7. CASE PrivateReply!Checkpoint(r)
  <2>1. PrivateReply!SentBy(r)
    BY <1>7 DEF PrivateReply!Checkpoint, PrivateReply!ReplyInv, PrivateReply!EvidenceIsSent
  <2>2. RunsMove
    <3>1. PICK n \in Nat : \/ s2' = [s2 EXCEPT ![r].pc = "checkpointed", ![r].version = n]
                           \/ PrivateReply!GoTo(r, "done")
      BY <1>0, <1>7 DEF PrivateReply!Checkpoint
    <3>2. CASE PrivateReply!GoTo(r, "done")
      BY <1>1, <1>7, <3>2 DEF PrivateReply!Checkpoint
    <3>3. CASE s2' = [s2 EXCEPT ![r].pc = "checkpointed", ![r].version = n]
      <4>1. s2' = [s2 EXCEPT ![r] = [s2[r] EXCEPT !.pc = "checkpointed", !.version = n]]
        BY <1>0, <3>3
      <4> QED BY <1>7, <2>1, <4>1, RunGoesOn DEF PrivateReply!Checkpoint
    <3> QED BY <3>1, <3>2, <3>3
  <2> QED BY <1>rows, <2>2, InvariantMoves
<1>8. CASE \E i \in Intents : PrivateReply!ReadReply(r, i)
  BY <1>8, ReadKeeps
<1>9. CASE PrivateReply!ClaimReply(r)
  <2>1. CASE PrivateReply!CanClaim(r)
    BY <1>9, <2>1, ClaimKeeps
  <2>2. CASE ~PrivateReply!CanClaim(r)
    BY <1>rows, <1>1, <1>9, <2>2, InvariantMoves DEF PrivateReply!ClaimReply
  <2> QED BY <2>1, <2>2
<1> QED BY <1>2, <1>3, <1>4, <1>5, <1>6, <1>7, <1>8, <1>9 DEF PrivateReply!ReplyRunStep

\* Every step of the private replies keeps their invariant.
LEMMA PrivateReplyNext == PrivateReply!ReplyInv /\ [PrivateReply!ReplyNext]_PrivateReply!replyVars => PrivateReply!ReplyInv'
<1> SUFFICES ASSUME PrivateReply!ReplyInv, [PrivateReply!ReplyNext]_PrivateReply!replyVars PROVE PrivateReply!ReplyInv'
  OBVIOUS
<1>1. ASSUME RowsMove, UNCHANGED <<s2, s3, s4>> PROVE PrivateReply!ReplyInv'
  <2>1. /\ s2 \in [ReplyRuns -> PrivateReply!ExecutionContext]
        /\ \A q \in ReplyRuns : s2[q].pc \in {"accepted", "checkpointed"} => PrivateReply!SentBy(q)
        /\ \A q \in ReplyRuns : q \in s3 => s2[q].pc # "claimed"
    BY DEF PrivateReply!ReplyInv, PrivateReply!ReplyTypeOK, PrivateReply!EvidenceIsSent
  <2>2. RunsMove
    BY <1>1, <2>1 DEF RunsMove
  <2> QED BY <1>1, <2>2, InvariantMoves
<1>2. CASE \E i \in Intents : PrivateReply!ReplyIntentStep(i)
  BY <1>1, <1>2, PeopleMoveRows
<1>3. CASE PrivateReply!EraseIntents
  BY <1>1, <1>3, ErasureMovesRows
<1>4. CASE \E r \in ReplyRuns : PrivateReply!ReplyRunStep(r)
  BY <1>4, RunSteps
<1>5. CASE UNCHANGED PrivateReply!replyVars
  BY <1>1, <1>5, NoRowMoves DEF PrivateReply!replyVars
<1> QED BY <1>2, <1>3, <1>4, <1>5 DEF PrivateReply!ReplyNext

\* A row that moves on stays settled: sent and cancelled replies never come back to life.
LEMMA RepliesStay == ASSUME PrivateReply!ReplyInv, PrivateReply!ReplyNext PROVE PrivateReply!SettledReplyStays
<1>1. ASSUME RowsMove PROVE PrivateReply!SettledReplyStays
  BY <1>1 DEF RowsMove, Onwards, PrivateReply!SettledReplyStays
<1>2. CASE \E i \in Intents : PrivateReply!ReplyIntentStep(i)
  BY <1>1, <1>2, PeopleMoveRows
<1>3. CASE PrivateReply!EraseIntents
  BY <1>1, <1>3, ErasureMovesRows
<1>4. CASE \E r \in ReplyRuns : PrivateReply!ReplyRunStep(r)
  BY <1>1, <1>4, RunsMoveRows
<1> QED BY <1>2, <1>3, <1>4 DEF PrivateReply!ReplyNext

\* The invariant of the private replies implies what they promise.
LEMMA ReplyImplies == PrivateReply!ReplyInv => PrivateReply!ReplyTypeOK /\ PrivateReply!ReplySentOnce /\ PrivateReply!ReplyWasApproved /\ PrivateReply!SucceededWasSent
<1> SUFFICES ASSUME PrivateReply!ReplyInv PROVE PrivateReply!ReplyTypeOK /\ PrivateReply!ReplySentOnce /\ PrivateReply!ReplyWasApproved /\ PrivateReply!SucceededWasSent
  OBVIOUS
<1>1. \A m \in s4 : /\ m.run \in ReplyRuns /\ m = [intent |-> m.intent, body |-> m.body, run |-> m.run]
                    /\ m.intent = s2[m.run].intent /\ m.body = s2[m.run].body /\ s2[m.run].pc # "idle" /\ PrivateReply!Sends(m.run)
  BY DEF PrivateReply!ReplyInv, PrivateReply!ReplyTypeOK, PrivateReply!MessageIsOfItsRun, PrivateReply!Sends,
     PrivateReply!SentBy
<1>2. PrivateReply!ReplySentOnce
  <2> SUFFICES ASSUME NEW m \in s4, NEW n \in s4, m.intent = n.intent, m.body = n.body PROVE m = n
    BY DEF PrivateReply!ReplySentOnce
  <2>1. m.run = n.run
    BY <1>1 DEF PrivateReply!ReplyInv, PrivateReply!OneSender
  <2> QED BY <1>1, <2>1
<1>3. PrivateReply!ReplyWasApproved
  BY <1>1 DEF PrivateReply!ReplyInv, PrivateReply!QueuedWasApproved, PrivateReply!ReplyWasApproved
<1>4. PrivateReply!SucceededWasSent
  BY DEF PrivateReply!ReplyInv, PrivateReply!EvidenceIsSent, PrivateReply!SucceededWasSent
<1> QED BY <1>2, <1>3, <1>4 DEF PrivateReply!ReplyInv

\* It holds before there are replies.
LEMMA ReplyStarts == PrivateReply!ReplyInit => PrivateReply!ReplyInv
<1> SUFFICES ASSUME PrivateReply!ReplyInit PROVE PrivateReply!ReplyInv
  OBVIOUS
<1>1. PrivateReply!NoIntent \in PrivateReply!Intent /\ PrivateReply!NoIntent.status = "none" /\ PrivateReply!NoIntent.evidence = NoRun
  <2>1. PICK none \in PrivateReply!RowStatus, zero \in 0..MaxBody, first \in Nat : none = "none" /\ zero = 0 /\ first = 0
    BY ReplyAssumption DEF PrivateReply!RowStatus
  <2>2. PICK a : a = [status |-> none, version |-> first, body |-> zero, approved |-> FALSE,
                      evidence |-> NoRun, owner |-> NoRun, active |-> FALSE, tombstoned |-> FALSE]
    OBVIOUS
  <2>3. a \in PrivateReply!Intent /\ a.status = none /\ a.evidence = NoRun
    BY <2>2 DEF PrivateReply!Intent
  <2>4. a = PrivateReply!NoIntent
    BY <2>1, <2>2 DEF PrivateReply!NoIntent
  <2> QED BY <2>1, <2>3, <2>4
<1>2. s1 \in [Intents -> PrivateReply!Intent] /\ \A i \in Intents : s1[i] = PrivateReply!NoIntent
  BY <1>1 DEF PrivateReply!ReplyInit
<1>3. \A r \in ReplyRuns : s2[r] \in PrivateReply!ExecutionContext /\ s2[r].pc = "idle"
  <2> SUFFICES ASSUME NEW r \in ReplyRuns PROVE s2[r] \in PrivateReply!ExecutionContext /\ s2[r].pc = "idle"
    OBVIOUS
  <2>1. PICK i \in Intents : s2[r] = [pc |-> "idle", intent |-> i, version |-> 0, body |-> 0]
    BY DEF PrivateReply!ReplyInit
  <2>2. PICK zero \in 0..MaxBody, first \in Nat : zero = 0 /\ first = 0
    BY ReplyAssumption
  <2>3. s2[r] = [pc |-> "idle", intent |-> i, version |-> first, body |-> zero]
    BY <2>1, <2>2
  <2> QED BY <2>3 DEF PrivateReply!ExecutionContext
<1>4. s2 \in [ReplyRuns -> PrivateReply!ExecutionContext] /\ s3 = {} /\ s4 = {} /\ s5 = {}
  BY <1>3 DEF PrivateReply!ReplyInit
<1>5. \A r \in ReplyRuns : ~PrivateReply!Sends(r)
  BY <1>3, <1>4 DEF PrivateReply!Sends, PrivateReply!SentBy
<1>6. PrivateReply!ReplyTypeOK
  BY <1>2, <1>4 DEF PrivateReply!ReplyTypeOK
<1>7. PrivateReply!OneSender /\ PrivateReply!TextIsSpent /\ PrivateReply!ReadIsNotAhead /\ PrivateReply!QueuedWasApproved /\ PrivateReply!MessageIsOfItsRun
  BY <1>1, <1>2, <1>3, <1>4, <1>5 DEF PrivateReply!OneSender, PrivateReply!TextIsSpent, PrivateReply!ReadIsNotAhead,
     PrivateReply!QueuedWasApproved, PrivateReply!MessageIsOfItsRun
<1>8. PrivateReply!EvidenceIsSent
  BY <1>1, <1>2, <1>3, <1>4 DEF PrivateReply!EvidenceIsSent
<1> QED BY <1>6, <1>7, <1>8 DEF PrivateReply!ReplyInv

-----------------------------------------------------------------------------
(* Proofs.  Comment replies.                                               *)

\* The number of executions in a set, with one more and with one less.
LEMMA JobsCounted ==
  ASSUME NEW M \in SUBSET ReplyJobs
  PROVE  /\ CommentReply!Cardinality(M) \in Nat
         /\ \A j \in M : CommentReply!Cardinality(M \ {j}) + 1 = CommentReply!Cardinality(M)
         /\ \A j \in ReplyJobs \ M : CommentReply!Cardinality(M \cup {j}) = CommentReply!Cardinality(M) + 1
<1>1. IsFiniteSet(M) /\ Cardinality(M) \in Nat
  BY CommentAssumption, FS_Subset, FS_CardinalityType
<1>2. ASSUME NEW j \in M PROVE Cardinality(M \ {j}) + 1 = Cardinality(M)
  <2>1. Cardinality(M \ {j}) = Cardinality(M) - 1
    BY <1>1, FS_RemoveElement
  <2> QED BY <1>1, <2>1
<1>3. ASSUME NEW j \in ReplyJobs \ M PROVE Cardinality(M \cup {j}) = Cardinality(M) + 1
  BY <1>1, FS_AddElement
<1>4. \A X : CommentReply!Cardinality(X) = Cardinality(X)
  BY DEF CommentReply!Cardinality, Cardinality
<1> QED BY <1>1, <1>2, <1>3, <1>4

\* When one execution moves, the number of those that may still post reply q moves with it.
LEMMA OneJobMoves ==
  ASSUME NEW j \in ReplyJobs, \A k \in ReplyJobs \ {j} : s2'[k] = s2[k], NEW q
  PROVE  LET was == CommentReply!ReplyOf(j) = q /\ CommentReply!HasNotPosted(j)
             is  == (CommentReply!ReplyOf(j) = q)' /\ CommentReply!HasNotPosted(j)'
             n   == CommentReply!Cardinality(CommentReply!JobsToPost(q)) IN
         /\ n \in Nat /\ CommentReply!Cardinality(CommentReply!JobsToPost(q)') \in Nat
         /\ (was <=> is) => CommentReply!Cardinality(CommentReply!JobsToPost(q)') = n
         /\ was /\ ~is => CommentReply!Cardinality(CommentReply!JobsToPost(q)') + 1 = n
         /\ ~was /\ is => CommentReply!Cardinality(CommentReply!JobsToPost(q)') = n + 1
<1> DEFINE M == CommentReply!JobsToPost(q)
           N == CommentReply!JobsToPost(q)'
           was == CommentReply!ReplyOf(j) = q /\ CommentReply!HasNotPosted(j)
           is  == (CommentReply!ReplyOf(j) = q)' /\ CommentReply!HasNotPosted(j)'
<1>1. M \in SUBSET ReplyJobs /\ N \in SUBSET ReplyJobs
  BY DEF CommentReply!JobsToPost
<1>2. (j \in M <=> was) /\ (j \in N <=> is)
  BY DEF CommentReply!JobsToPost
<1>3. \A k \in ReplyJobs \ {j} : k \in M <=> k \in N
  BY DEF CommentReply!JobsToPost, CommentReply!ReplyOf, CommentReply!HasNotPosted
<1>4. (was <=> is) => N = M
  BY <1>1, <1>2, <1>3
<1>5. was /\ ~is => N = M \ {j} /\ j \in M
  BY <1>1, <1>2, <1>3
<1>6. ~was /\ is => N = M \cup {j} /\ j \in ReplyJobs \ M
  BY <1>1, <1>2, <1>3
<1> HIDE DEF M, N, was, is
<1>7. CommentReply!Cardinality(M) \in Nat /\ CommentReply!Cardinality(N) \in Nat
  BY <1>1, JobsCounted
<1>8. was /\ ~is => CommentReply!Cardinality(N) + 1 = CommentReply!Cardinality(M)
  BY <1>1, <1>5, JobsCounted
<1>9. ~was /\ is => CommentReply!Cardinality(N) = CommentReply!Cardinality(M) + 1
  BY <1>1, <1>6, JobsCounted
<1> QED BY <1>4, <1>7, <1>8, <1>9 DEF M, N, was, is

\* What the providers refuse with is an error of the table, and ambiguous where a refusal may come after the
\* comment was posted.
LEMMA RefusalsAreErrors ==
  ASSUME NEW x \in CommentReply!facebookReplyErrors \cup CommentReply!instagramReplyErrors
  PROVE  /\ x[1] \in CommentReply!EngagementError /\ x[2] \in BOOLEAN
         /\ x[2] => CommentReply!replyFailureIsAmbiguous(x[1])
<1>1. ASSUME NEW s, NEW c PROVE CommentReply!facebookEngagementError(s, c) \in CommentReply!EngagementError
  BY DEF CommentReply!facebookEngagementError, CommentReply!EngagementError
<1>2. ASSUME NEW s, NEW c PROVE CommentReply!instagramEngagementError(s, c) \in CommentReply!EngagementError
  BY DEF CommentReply!instagramEngagementError, CommentReply!EngagementError
<1>3. CASE x \in {"uncertain"} \X BOOLEAN \/ x \in {"provider_failed"} \X BOOLEAN
  <2>1. PICK e \in {"uncertain", "provider_failed"}, b \in BOOLEAN : x = <<e, b>>
    BY <1>3
  <2> QED BY <2>1 DEF CommentReply!replyFailureIsAmbiguous, CommentReply!EngagementError
<1>4. CASE ~(x \in {"uncertain"} \X BOOLEAN \/ x \in {"provider_failed"} \X BOOLEAN)
  <2>1. \/ x \in {<<CommentReply!facebookEngagementError(y[1], y[2]), FALSE>> : y \in CommentReply!Refusals}
        \/ x \in {<<CommentReply!instagramEngagementError(y[1], y[2]), FALSE>> : y \in CommentReply!Refusals}
    BY <1>4 DEF CommentReply!facebookReplyErrors, CommentReply!instagramReplyErrors
  <2>2. PICK e \in CommentReply!EngagementError : x = <<e, FALSE>>
    BY <1>1, <1>2, <2>1
  <2> QED BY <2>2
<1> QED BY <1>3, <1>4

\* A transition gives a row of the table, in the status it is for.
LEMMA ReplyRow ==
  ASSUME NEW a \in CommentReply!EngagementAction, NEW to \in CommentReply!EngagementActionStatus, NEW proof \in BOOLEAN
  PROVE  /\ CommentReply!transitionEngagementAction(a, to, proof) \in CommentReply!EngagementAction
         /\ CommentReply!transitionEngagementAction(a, to, proof).status = to
<1>1. PICK b \in BOOLEAN : b = (to \notin CommentReply!ResetsAttempt /\ (proof \/ a.proof))
  OBVIOUS
<1>2. PICK n \in Nat : n = a.version + 1
  BY DEF CommentReply!EngagementAction
<1>3. PICK q : q = [status |-> to, version |-> n, proof |-> b]
  OBVIOUS
<1>4. q = CommentReply!transitionEngagementAction(a, to, proof)
  BY <1>1, <1>2, <1>3 DEF CommentReply!transitionEngagementAction
<1>5. q \in CommentReply!EngagementAction /\ q.status = to
  BY <1>3 DEF CommentReply!EngagementAction
<1> QED BY <1>4, <1>5

\* The invariant of the comment replies holds before there are replies.
LEMMA EngagementInit == CommentReply!EngagementReplyInit => CommentReply!EngagementReplyInv
<1> SUFFICES ASSUME CommentReply!EngagementReplyInit PROVE CommentReply!EngagementReplyInv
  OBVIOUS
<1>1. (CHOOSE r \in Replies : TRUE) \in Replies
  BY CommentAssumption
<1>2. CommentReply!EngagementReplyTypeOK
  <2>1. PICK n \in Nat : n = 0
    OBVIOUS
  <2>2. PICK a : a = [status |-> "none", version |-> n, proof |-> FALSE]
    OBVIOUS
  <2>3. PICK r \in Replies : r = (CHOOSE x \in Replies : TRUE)
    BY <1>1
  <2>4a. PICK b : b = [pc |-> "idle", reply |-> r, version |-> n, error |-> "none"]
    OBVIOUS
  <2>4. a \in CommentReply!EngagementAction
    BY <2>2 DEF CommentReply!EngagementAction
  <2>5. b \in CommentReply!ReplyJob
    <3>1. PICK none \in CommentReply!EngagementError \cup {"none"} : none = "none"
      OBVIOUS
    <3>2. b = [pc |-> "idle", reply |-> r, version |-> n, error |-> none]
      BY <2>4a, <3>1
    <3> QED BY <3>2 DEF CommentReply!ReplyJob
  <2>6. s1 \in [Replies -> CommentReply!EngagementAction]
    BY <2>1, <2>2, <2>4 DEF CommentReply!EngagementReplyInit
  <2>7. s2 \in [ReplyJobs -> CommentReply!ReplyJob]
    BY <2>1, <2>3, <2>4a, <2>5 DEF CommentReply!EngagementReplyInit
  <2> QED BY <2>6, <2>7 DEF CommentReply!EngagementReplyInit, CommentReply!EngagementReplyTypeOK
<1>3. \A r \in Replies : CommentReply!JobsToPost(r) = {}
  BY DEF CommentReply!EngagementReplyInit, CommentReply!JobsToPost, CommentReply!HasNotPosted
<1>4. \A r \in Replies : CommentReply!Cardinality(CommentReply!JobsToPost(r)) = 0 /\ s7[r] = 0 /\ s8[r] = 0 /\ s1[r].status = "none"
  <2>1. CommentReply!Cardinality({}) = 0
    <3>1. \A X : CommentReply!Cardinality(X) = Cardinality(X)
      BY DEF CommentReply!Cardinality, Cardinality
    <3> QED BY <3>1, FS_EmptySet
  <2> QED BY <1>3, <2>1 DEF CommentReply!EngagementReplyInit
<1>5. CommentReply!ApprovalsAreCounted
  BY <1>4 DEF CommentReply!ApprovalsAreCounted
<1> QED BY <1>2, <1>5 DEF CommentReply!EngagementReplyInv

\* A versioned transition writes one row, from a status that allows it.
LEMMA Transition ==
  ASSUME CommentReply!EngagementReplyTypeOK, NEW r \in Replies, NEW v \in Nat, NEW to \in CommentReply!EngagementActionStatus, NEW proof \in BOOLEAN,
         CommentReply!transitionAction(r, v, to, proof)
  PROVE  /\ s1' \in [Replies -> CommentReply!EngagementAction]
         /\ s1'[r].status = to /\ \A q \in Replies \ {r} : s1'[q] = s1[q]
         /\ s1[r].version = v /\ to \in CommentReply!actionTransitions[s1[r].status]
<1>1. s1 \in [Replies -> CommentReply!EngagementAction] /\ s1[r] \in CommentReply!EngagementAction
  BY DEF CommentReply!EngagementReplyTypeOK
<1>2. PICK b : b = CommentReply!transitionEngagementAction(s1[r], to, proof)
  OBVIOUS
<1>3. b \in CommentReply!EngagementAction /\ b.status = to
  BY <1>1, <1>2, ReplyRow
<1>4. s1' = [s1 EXCEPT ![r] = b]
  BY <1>2 DEF CommentReply!transitionAction
<1>5. s1' \in [Replies -> CommentReply!EngagementAction] /\ s1'[r] = b /\ \A q \in Replies \ {r} : s1'[q] = s1[q]
  BY <1>1, <1>3, <1>4
<1> QED BY <1>3, <1>5 DEF CommentReply!transitionAction, CommentReply!mayTransition,
   CommentReply!canTransitionEngagementAction

\* While no execution moves, a reply is queued only with one more approval.
LEMMA JobsStand ==
  ASSUME CommentReply!EngagementReplyInv, UNCHANGED <<s2, s7>>,
         \A r \in Replies : \/ s8'[r] = s8[r] /\ (s1'[r].status = "queued" => s1[r].status = "queued")
                            \/ s8'[r] = s8[r] + 1 
  PROVE  CommentReply!ApprovalsAreCounted'
<1>1. \A r \in Replies : CommentReply!JobsToPost(r)' = CommentReply!JobsToPost(r) /\ CommentReply!JobsToPost(r) \in SUBSET ReplyJobs
  BY DEF CommentReply!JobsToPost, CommentReply!HasNotPosted, CommentReply!ReplyOf
<1>2. \A r \in Replies : CommentReply!Cardinality(CommentReply!JobsToPost(r)) \in Nat /\ s7[r] \in Nat /\ s8[r] \in Nat
  BY <1>1, JobsCounted DEF CommentReply!EngagementReplyInv, CommentReply!EngagementReplyTypeOK
<1>3. ASSUME NEW r \in Replies
      PROVE  s7'[r] + CommentReply!Cardinality(CommentReply!JobsToPost(r)') + (IF s1'[r].status = "queued" THEN 1 ELSE 0) <= s8'[r]
  <2>1. PICK n \in Nat : n = CommentReply!Cardinality(CommentReply!JobsToPost(r))
    BY <1>2
  <2>2. n = CommentReply!Cardinality(CommentReply!JobsToPost(r)') /\ s7'[r] = s7[r]
    BY <1>1, <2>1
  <2>3. s7[r] + n + (IF s1[r].status = "queued" THEN 1 ELSE 0) <= s8[r]
    BY <2>1 DEF CommentReply!EngagementReplyInv, CommentReply!ApprovalsAreCounted
  <2> QED BY <1>2, <2>2, <2>3
<1> QED BY <1>3 DEF CommentReply!ApprovalsAreCounted

\* The table of transitions: what is queued is not queued again, and only what is queued is processed.
LEMMA ActionTable ==
  /\ "queued" \notin CommentReply!actionTransitions["queued"]
  /\ \A s \in CommentReply!EngagementActionStatus \cup {"none"} : "processing" \in CommentReply!actionTransitions[s] => s = "queued"
  BY DEF CommentReply!actionTransitions, CommentReply!EngagementActionStatus

\* What people and the recovery do with a reply keeps the invariant.
LEMMA ReplyPeople ==
  ASSUME CommentReply!EngagementReplyInv, NEW r \in Replies,
         CommentReply!createReplyDraft(r) \/ CommentReply!checkApproval(r) \/ CommentReply!approve(r) \/ CommentReply!cancel(r) \/ CommentReply!reconcileAction(r) \/ CommentReply!recoverPending(r)
  PROVE  CommentReply!EngagementReplyInv'
<1>0. /\ CommentReply!EngagementReplyTypeOK /\ CommentReply!ApprovalsAreCounted /\ s1[r] \in CommentReply!EngagementAction /\ s1[r].version \in Nat
      /\ s6[r] \in Nat
  BY DEF CommentReply!EngagementReplyInv, CommentReply!EngagementReplyTypeOK, CommentReply!EngagementAction
<1>1. CASE CommentReply!createReplyDraft(r)
  <2>1. s1' = [s1 EXCEPT ![r] = [status |-> "pending_approval", version |-> 1, proof |-> FALSE]]
        /\ UNCHANGED <<s2, s3, s4, s5, s6, s7, s8>>
    BY <1>1 DEF CommentReply!createReplyDraft, CommentReply!saveAction
  <2>2. [status |-> "pending_approval", version |-> 1, proof |-> FALSE] \in CommentReply!EngagementAction
    BY DEF CommentReply!EngagementAction, CommentReply!EngagementActionStatus
  <2>3. CommentReply!EngagementReplyTypeOK'
    BY <1>0, <2>1, <2>2 DEF CommentReply!EngagementReplyTypeOK
  <2>4. \A q \in Replies : s8'[q] = s8[q] /\ (s1'[q].status = "queued" => s1[q].status = "queued")
    BY <1>0, <2>1 DEF CommentReply!EngagementReplyTypeOK
  <2>5. CommentReply!ApprovalsAreCounted'
    BY <2>1, <2>4, JobsStand
  <2> QED BY <2>3, <2>5 DEF CommentReply!EngagementReplyInv
<1>2. CASE CommentReply!checkApproval(r)
  <2>1. CommentReply!EngagementReplyTypeOK'
    BY <1>0, <1>2 DEF CommentReply!checkApproval, CommentReply!EngagementReplyTypeOK
  <2>2. CommentReply!ApprovalsAreCounted'
    BY <1>2, JobsStand DEF CommentReply!checkApproval
  <2> QED BY <2>1, <2>2 DEF CommentReply!EngagementReplyInv
<1>3. CASE CommentReply!approve(r)
  <2>1. CASE CommentReply!transitionAction(r, s6[r], "queued", FALSE)
    <3>1. /\ s1' \in [Replies -> CommentReply!EngagementAction] /\ \A q \in Replies \ {r} : s1'[q] = s1[q]
          /\ "queued" \in CommentReply!actionTransitions[s1[r].status]
      BY <1>0, <2>1, Transition DEF CommentReply!EngagementActionStatus
    <3>2. /\ s8' = [s8 EXCEPT ![r] = @ + 1] /\ s3' \in {s3, s3 \cup {r}}
          /\ s6' = [s6 EXCEPT ![r] = 0] /\ UNCHANGED <<s2, s4, s5, s7>>
      <4>1. CommentReply!mayTransition(r, s6[r], "queued")
        BY <2>1 DEF CommentReply!transitionAction
      <4> QED BY <1>3, <4>1 DEF CommentReply!approve
    <3>3. CommentReply!EngagementReplyTypeOK'
      BY <1>0, <3>1, <3>2 DEF CommentReply!EngagementReplyTypeOK
    <3>4. \A q \in Replies : \/ s8'[q] = s8[q] /\ (s1'[q].status = "queued" => s1[q].status = "queued")
                             \/ s8'[q] = s8[q] + 1
      BY <1>0, <3>1, <3>2 DEF CommentReply!EngagementReplyTypeOK
    <3>5. CommentReply!ApprovalsAreCounted'
      BY <3>2, <3>4, JobsStand
    <3> QED BY <3>3, <3>5 DEF CommentReply!EngagementReplyInv
  <2>2. CASE UNCHANGED <<s1, s3, s8>>
    <3>1. CommentReply!EngagementReplyTypeOK'
      BY <1>0, <1>3, <2>2 DEF CommentReply!approve, CommentReply!EngagementReplyTypeOK
    <3>2. CommentReply!ApprovalsAreCounted'
      BY <1>3, <2>2, JobsStand DEF CommentReply!approve
    <3> QED BY <3>1, <3>2 DEF CommentReply!EngagementReplyInv
  <2> QED BY <1>3, <2>1, <2>2 DEF CommentReply!approve
<1>4. CASE CommentReply!cancel(r) \/ CommentReply!reconcileAction(r) \/ (CommentReply!recoverPending(r) /\ s1[r].status # "queued")
  <2>1. PICK to \in {"cancelled", "succeeded", "failed", "uncertain"}, proof \in BOOLEAN :
               CommentReply!transitionAction(r, s1[r].version, to, proof)
    <3>1. CASE CommentReply!cancel(r)
      BY <3>1 DEF CommentReply!cancel
    <3>2. CASE CommentReply!reconcileAction(r)
      BY <3>2 DEF CommentReply!reconcileAction
    <3>3. CASE CommentReply!recoverPending(r) /\ s1[r].status # "queued"
      BY <3>3 DEF CommentReply!recoverPending
    <3> QED BY <1>4, <3>1, <3>2, <3>3
  <2>2. /\ s1' \in [Replies -> CommentReply!EngagementAction] /\ s1'[r].status = to
        /\ \A q \in Replies \ {r} : s1'[q] = s1[q]
    BY <1>0, <2>1, Transition DEF CommentReply!EngagementActionStatus
  <2>3. UNCHANGED <<s2, s3, s4, s5, s6, s7, s8>>
    BY <1>4 DEF CommentReply!cancel, CommentReply!reconcileAction, CommentReply!recoverPending
  <2>4. CommentReply!EngagementReplyTypeOK'
    BY <1>0, <2>2, <2>3 DEF CommentReply!EngagementReplyTypeOK
  <2>5. CommentReply!ApprovalsAreCounted'
    BY <2>1, <2>2, <2>3, JobsStand
  <2> QED BY <2>4, <2>5 DEF CommentReply!EngagementReplyInv
<1>5. CASE CommentReply!recoverPending(r) /\ s1[r].status = "queued"
  <2>1. CommentReply!EngagementReplyTypeOK'
    BY <1>0, <1>5 DEF CommentReply!recoverPending, CommentReply!EngagementReplyTypeOK
  <2>2. CommentReply!ApprovalsAreCounted'
    BY <1>5, JobsStand DEF CommentReply!recoverPending
  <2> QED BY <2>1, <2>2 DEF CommentReply!EngagementReplyInv
<1> QED BY <1>1, <1>2, <1>3, <1>4, <1>5

\* An execution that posts spends its claim on the reply, and one that takes the reply takes its place in the
\* queue.
LEMMA JobMoves ==
  ASSUME CommentReply!EngagementReplyInv, NEW j \in ReplyJobs, NEW b \in CommentReply!ReplyJob, s2' = [s2 EXCEPT ![j] = b],
         CommentReply!EngagementReplyTypeOK', UNCHANGED s8,
         LET r == CommentReply!ReplyOf(j)
             was == CommentReply!HasNotPosted(j)
             is  == CommentReply!HasNotPosted(j)' IN
         /\ b.reply = r \/ (~was /\ ~is)
         /\ s7'[r] = s7[r] \/ (s7'[r] = s7[r] + 1 /\ was /\ ~is)
         /\ \A q \in Replies \ {r} : s7'[q] = s7[q]
         /\ ~was /\ is => s1[r].status = "queued" /\ s1'[r].status # "queued"
         /\ \A q \in Replies : s1'[q].status = "queued" => s1[q].status = "queued"
  PROVE  CommentReply!ApprovalsAreCounted'
<1> DEFINE r == CommentReply!ReplyOf(j)
           was == CommentReply!HasNotPosted(j)
           is == CommentReply!HasNotPosted(j)'
<1>1. /\ \A k \in ReplyJobs \ {j} : s2'[k] = s2[k] /\ s2'[j] = b /\ r \in Replies
      /\ \A q \in Replies : s7[q] \in Nat /\ s7'[q] \in Nat /\ s8[q] \in Nat
  BY DEF CommentReply!EngagementReplyInv, CommentReply!EngagementReplyTypeOK, CommentReply!ReplyJob, CommentReply!ReplyOf
<1>2. CommentReply!ReplyOf(j)' = b.reply /\ \A k \in ReplyJobs \ {j} : s2'[k] = s2[k]
  BY <1>1 DEF CommentReply!EngagementReplyInv, CommentReply!EngagementReplyTypeOK, CommentReply!ReplyOf
<1>3. ASSUME NEW q \in Replies
      PROVE  s7'[q] + CommentReply!Cardinality(CommentReply!JobsToPost(q)') + (IF s1'[q].status = "queued" THEN 1 ELSE 0) <= s8'[q]
  <2>1. PICK n \in Nat, m \in Nat : /\ n = CommentReply!Cardinality(CommentReply!JobsToPost(q)) /\ m = CommentReply!Cardinality(CommentReply!JobsToPost(q)')
    BY <1>2, OneJobMoves
  <2>2. s7[q] + n + (IF s1[q].status = "queued" THEN 1 ELSE 0) <= s8[q]
    BY <2>1 DEF CommentReply!EngagementReplyInv, CommentReply!ApprovalsAreCounted
  <2>3. CASE q = r
    <3>1. /\ (was <=> is) \/ (b.reply # r) => m = n
          /\ was /\ ~is => m + 1 = n
          /\ ~was /\ is => m = n + 1
      <4>1. /\ ((CommentReply!ReplyOf(j) = q /\ was) <=> (b.reply = q /\ is)) => m = n
            /\ (CommentReply!ReplyOf(j) = q /\ was) /\ ~(b.reply = q /\ is) => m + 1 = n
            /\ ~(CommentReply!ReplyOf(j) = q /\ was) /\ (b.reply = q /\ is) => m = n + 1
        BY <1>2, <2>1, OneJobMoves
      <4> QED BY <2>3, <4>1
    <3> QED BY <1>1, <2>1, <2>2, <2>3, <3>1
  <2>4. CASE q # r
    <3>1. m = n
      <4>1. ((CommentReply!ReplyOf(j) = q /\ was) <=> (b.reply = q /\ is)) => m = n
        BY <1>2, <2>1, OneJobMoves
      <4> QED BY <2>4, <4>1
    <3> QED BY <1>1, <2>1, <2>2, <2>4, <3>1
  <2> QED BY <2>3, <2>4
<1> QED BY <1>3 DEF CommentReply!ApprovalsAreCounted

\* Every step of an execution keeps the invariant.
LEMMA ReplyJobSteps ==
  ASSUME CommentReply!EngagementReplyInv, NEW j \in ReplyJobs,
         \/ \E r \in Replies : CommentReply!startReply(j, r)
         \/ CommentReply!takeReply(j) \/ CommentReply!replyToComment(j) \/ CommentReply!recordFailure(j) \/ CommentReply!recordSuccess(j) \/ CommentReply!markUnsaved(j) \/ CommentReply!JobStops(j)
  PROVE  CommentReply!EngagementReplyInv'
<1> DEFINE r == CommentReply!ReplyOf(j)
<1>0. /\ CommentReply!EngagementReplyTypeOK /\ s2 \in [ReplyJobs -> CommentReply!ReplyJob] /\ s2[j] \in CommentReply!ReplyJob
      /\ r \in Replies /\ s2[j].version \in Nat /\ s1 \in [Replies -> CommentReply!EngagementAction]
      /\ \A q \in Replies : s1[q].version \in Nat
      /\ \A q \in Replies : s1[q] \in CommentReply!EngagementAction /\ s1[q].status \in CommentReply!EngagementActionStatus \cup {"none"}
  BY DEF CommentReply!EngagementReplyInv, CommentReply!EngagementReplyTypeOK, CommentReply!ReplyJob,
     CommentReply!ReplyOf, CommentReply!EngagementAction
\* Only the row of the reply and the step of the job change.
<1>1. ASSUME NEW l \in {"done", "accepted", "unsaved"}, CommentReply!JobTo(j, l), UNCHANGED <<s3, s4, s5, s6, s8>>,
             s1' \in [Replies -> CommentReply!EngagementAction],
             \A q \in Replies : s1'[q].status = "queued" => s1[q].status = "queued",
             s7' = s7 \/ (CommentReply!Post(r) /\ CommentReply!HasNotPosted(j))
      PROVE  CommentReply!EngagementReplyInv'
  <2>1. PICK b : b = [s2[j] EXCEPT !.pc = l]
    OBVIOUS
  <2>2. b \in CommentReply!ReplyJob /\ b.reply = r /\ b.pc = l /\ s2' = [s2 EXCEPT ![j] = b]
    BY <1>0, <1>1, <2>1 DEF CommentReply!JobTo, CommentReply!ReplyJob, CommentReply!ReplyOf
  <2>3. CommentReply!EngagementReplyTypeOK'
    BY <1>0, <1>1, <2>2 DEF CommentReply!EngagementReplyTypeOK, CommentReply!Post
  <2>4. ~CommentReply!HasNotPosted(j)'
    BY <1>0, <1>1, <2>2 DEF CommentReply!HasNotPosted
  <2>5. \A q \in Replies : s7'[q] = s7[q] \/ (q = r /\ s7'[q] = s7[q] + 1 /\ CommentReply!HasNotPosted(j))
    BY <1>0, <1>1 DEF CommentReply!Post, CommentReply!EngagementReplyTypeOK
  <2>6. CommentReply!ApprovalsAreCounted'
    BY <1>0, <1>1, <2>2, <2>3, <2>4, <2>5, JobMoves
  <2> QED BY <2>3, <2>6 DEF CommentReply!EngagementReplyInv
<1>2. ASSUME NEW to \in {"failed", "uncertain", "succeeded"}, NEW v \in Nat, NEW proof \in BOOLEAN, CommentReply!transitionAction(r, v, to, proof)
      PROVE  /\ s1' \in [Replies -> CommentReply!EngagementAction]
             /\ \A q \in Replies : s1'[q].status = "queued" => s1[q].status = "queued"
  BY <1>0, <1>2, Transition DEF CommentReply!EngagementActionStatus
<1>3. CASE CommentReply!recordFailure(j)
  <2>1. PICK to \in {"failed", "uncertain"} : UNCHANGED s1 \/ CommentReply!transitionAction(r, s2[j].version, to, FALSE)
    BY <1>3 DEF CommentReply!recordFailure
  <2>2. /\ s1' \in [Replies -> CommentReply!EngagementAction]
        /\ \A q \in Replies : s1'[q].status = "queued" => s1[q].status = "queued"
    BY <1>0, <1>2, <2>1
  <2> QED BY <1>1, <1>3, <2>2 DEF CommentReply!recordFailure
<1>4. CASE CommentReply!recordSuccess(j)
  <2>1. UNCHANGED s1 \/ CommentReply!transitionAction(r, s2[j].version, "succeeded", TRUE)
    BY <1>4 DEF CommentReply!recordSuccess
  <2>2. /\ s1' \in [Replies -> CommentReply!EngagementAction]
        /\ \A q \in Replies : s1'[q].status = "queued" => s1[q].status = "queued"
    BY <1>0, <1>2, <2>1
  <2> QED BY <1>1, <1>4, <2>2 DEF CommentReply!recordSuccess
<1>5. CASE CommentReply!markUnsaved(j)
  <2>1. UNCHANGED s1 \/ CommentReply!transitionAction(r, s1[r].version, "uncertain", TRUE)
    BY <1>5 DEF CommentReply!markUnsaved
  <2>2. /\ s1' \in [Replies -> CommentReply!EngagementAction]
        /\ \A q \in Replies : s1'[q].status = "queued" => s1[q].status = "queued"
    BY <1>0, <1>2, <2>1
  <2> QED BY <1>1, <1>5, <2>2 DEF CommentReply!markUnsaved
<1>6. CASE CommentReply!JobStops(j)
  BY <1>0, <1>1, <1>6 DEF CommentReply!JobStops
<1>7. CASE CommentReply!replyToComment(j)
  <2>1. CommentReply!HasNotPosted(j) /\ UNCHANGED <<s1, s3, s4, s5, s6, s8>>
    BY <1>7 DEF CommentReply!replyToComment, CommentReply!HasNotPosted, CommentReply!JobAt
  <2>2. CASE CommentReply!Post(r) /\ CommentReply!JobTo(j, "accepted")
    BY <1>0, <1>1, <2>1, <2>2
  <2>3. CASE ~(CommentReply!Post(r) /\ CommentReply!JobTo(j, "accepted"))
    <3>1. PICK x \in CommentReply!facebookReplyErrors \cup CommentReply!instagramReplyErrors :
            /\ IF x[2] THEN CommentReply!Post(r) ELSE UNCHANGED s7
            /\ s2' = [s2 EXCEPT ![j].pc = "failed", ![j].error = x[1]]
      BY <1>7, <2>3 DEF CommentReply!replyToComment
    <3>2. x[1] \in CommentReply!EngagementError /\ x[2] \in BOOLEAN /\ (x[2] => CommentReply!replyFailureIsAmbiguous(x[1]))
      BY RefusalsAreErrors
    <3>3. PICK b : b = [s2[j] EXCEPT !.pc = "failed", !.error = x[1]]
      OBVIOUS
    <3>4. b \in CommentReply!ReplyJob /\ b.reply = r /\ b.pc = "failed" /\ b.error = x[1] /\ s2' = [s2 EXCEPT ![j] = b]
      BY <1>0, <3>1, <3>2, <3>3 DEF CommentReply!ReplyJob, CommentReply!ReplyOf
    <3>5. CommentReply!HasNotPosted(j)' <=> ~CommentReply!replyFailureIsAmbiguous(x[1])
      BY <1>0, <3>4 DEF CommentReply!HasNotPosted
    <3>5a. s7' \in [Replies -> Nat]
      BY <1>0, <3>1 DEF CommentReply!EngagementReplyTypeOK, CommentReply!Post
    <3>6. CommentReply!EngagementReplyTypeOK'
      BY <1>0, <2>1, <3>4, <3>5a DEF CommentReply!EngagementReplyTypeOK
    <3>7. \A q \in Replies : s7'[q] = s7[q] \/ (q = r /\ s7'[q] = s7[q] + 1 /\ x[2])
      BY <1>0, <3>1 DEF CommentReply!Post, CommentReply!EngagementReplyTypeOK
    <3>8. CommentReply!ApprovalsAreCounted'
      BY <1>0, <2>1, <3>2, <3>4, <3>5, <3>6, <3>7, JobMoves
    <3> QED BY <3>6, <3>8 DEF CommentReply!EngagementReplyInv
  <2> QED BY <2>2, <2>3
<1>8. CASE CommentReply!takeReply(j)
  <2>1. CASE CommentReply!transitionAction(r, s2[j].version, "processing", FALSE)
             /\ s2' = [s2 EXCEPT ![j].pc = "sending", ![j].version = @ + 1]
    <3>1. /\ s1' \in [Replies -> CommentReply!EngagementAction] /\ s1'[r].status = "processing"
          /\ \A q \in Replies \ {r} : s1'[q] = s1[q]
          /\ s1[r].status = "queued"
      BY <1>0, <2>1, Transition, ActionTable DEF CommentReply!EngagementActionStatus
    <3>2. PICK n \in Nat : n = s2[j].version + 1
      BY <1>0
    <3>3. PICK b : b = [s2[j] EXCEPT !.pc = "sending", !.version = n]
      OBVIOUS
    <3>4. b \in CommentReply!ReplyJob /\ b.reply = r /\ b.pc = "sending"
      BY <1>0, <3>3 DEF CommentReply!ReplyJob, CommentReply!ReplyOf
    <3>5. s2' = [s2 EXCEPT ![j] = b]
      BY <1>0, <2>1, <3>2, <3>3
    <3>6. ~CommentReply!HasNotPosted(j) /\ UNCHANGED <<s3, s4, s5, s6, s7, s8>>
      BY <1>8 DEF CommentReply!takeReply, CommentReply!HasNotPosted, CommentReply!JobAt
    <3>7. CommentReply!EngagementReplyTypeOK'
      BY <1>0, <3>1, <3>4, <3>5, <3>6 DEF CommentReply!EngagementReplyTypeOK
    <3>8. CommentReply!ApprovalsAreCounted'
      BY <1>0, <3>1, <3>4, <3>5, <3>6, <3>7, JobMoves
    <3> QED BY <3>7, <3>8 DEF CommentReply!EngagementReplyInv
  <2>2. CASE CommentReply!JobTo(j, "done") /\ UNCHANGED s1
    BY <1>0, <1>1, <1>8, <2>2 DEF CommentReply!takeReply
  <2> QED BY <1>8, <2>1, <2>2 DEF CommentReply!takeReply
<1>9. ASSUME NEW q \in Replies, CommentReply!startReply(j, q) PROVE CommentReply!EngagementReplyInv'
  <2>1. PICK b : b = IF s1[q].status = "queued" THEN [pc |-> "read", reply |-> q, version |-> s1[q].version, error |-> "none"]
                     ELSE [s2[j] EXCEPT !.pc = "done"]
    OBVIOUS
  <2>2. b \in CommentReply!ReplyJob /\ b.pc \in {"read", "done"}
    <3>1. PICK none \in CommentReply!EngagementError \cup {"none"}, n \in Nat : none = "none" /\ n = s1[q].version
      BY <1>0
    <3>2. [pc |-> "read", reply |-> q, version |-> n, error |-> none] \in CommentReply!ReplyJob
      BY DEF CommentReply!ReplyJob
    <3>3. [s2[j] EXCEPT !.pc = "done"] \in CommentReply!ReplyJob /\ [s2[j] EXCEPT !.pc = "done"].pc = "done"
      BY <1>0 DEF CommentReply!ReplyJob
    <3> QED BY <2>1, <3>1, <3>2, <3>3
  <2>3. /\ s2' = [s2 EXCEPT ![j] = b] /\ CommentReply!JobAt(j, "idle")
        /\ UNCHANGED <<s1, s4, s5, s6, s7, s8>> /\ s3' \subseteq s3
    BY <1>0, <1>9, <2>1 DEF CommentReply!startReply
  <2>4. CommentReply!EngagementReplyTypeOK'
    BY <1>0, <2>2, <2>3 DEF CommentReply!EngagementReplyTypeOK
  <2>5. ~CommentReply!HasNotPosted(j) /\ ~CommentReply!HasNotPosted(j)'
    BY <1>0, <2>2, <2>3 DEF CommentReply!HasNotPosted, CommentReply!JobAt
  <2>6. CommentReply!ApprovalsAreCounted'
    BY <1>0, <2>2, <2>3, <2>4, <2>5, JobMoves
  <2> QED BY <2>4, <2>6 DEF CommentReply!EngagementReplyInv
<1> QED BY <1>3, <1>4, <1>5, <1>6, <1>7, <1>8, <1>9

\* Every step of the comment replies keeps their invariant.
LEMMA EngagementNext == CommentReply!EngagementReplyInv /\ [CommentReply!EngagementReplyNext]_CommentReply!engagementReplyVars => CommentReply!EngagementReplyInv'
<1> SUFFICES ASSUME CommentReply!EngagementReplyInv, [CommentReply!EngagementReplyNext]_CommentReply!engagementReplyVars PROVE CommentReply!EngagementReplyInv'
  OBVIOUS
<1>1. CASE CommentReply!CommentChanges \/ UNCHANGED CommentReply!engagementReplyVars
  <2>1. CommentReply!EngagementReplyTypeOK'
    BY <1>1 DEF CommentReply!CommentChanges, CommentReply!engagementReplyVars, CommentReply!EngagementReplyInv,
       CommentReply!EngagementReplyTypeOK
  <2>2. CommentReply!ApprovalsAreCounted'
    BY <1>1, JobsStand DEF CommentReply!CommentChanges, CommentReply!engagementReplyVars
  <2> QED BY <2>1, <2>2 DEF CommentReply!EngagementReplyInv
<1>2. CASE CommentReply!EngagementReplyNext /\ ~CommentReply!CommentChanges
  BY <1>2, ReplyPeople, ReplyJobSteps DEF CommentReply!EngagementReplyNext
<1> QED BY <1>1, <1>2

\* The invariant of the comment replies implies that a reply is posted at most as often as it was approved.
LEMMA EngagementImplies == CommentReply!EngagementReplyInv => CommentReply!EngagementReplyTypeOK /\ CommentReply!PostedAsApproved
<1> SUFFICES ASSUME CommentReply!EngagementReplyInv, NEW r \in Replies PROVE s7[r] <= s8[r]
  BY DEF CommentReply!EngagementReplyInv, CommentReply!PostedAsApproved
<1>1. PICK n \in Nat : n = CommentReply!Cardinality(CommentReply!JobsToPost(r))
  BY JobsCounted DEF CommentReply!JobsToPost
<1>2. s7[r] + n + (IF s1[r].status = "queued" THEN 1 ELSE 0) <= s8[r] /\ s7[r] \in Nat /\ s8[r] \in Nat
  BY <1>1 DEF CommentReply!EngagementReplyInv, CommentReply!ApprovalsAreCounted, CommentReply!EngagementReplyTypeOK
<1> QED BY <1>2

\* A reply that an execution marks failed was not posted under its last approval: that execution counts as one that
\* may still post.
LEMMA FailedWasNotPosted ==
  ASSUME CommentReply!EngagementReplyInv, CommentReply!EngagementReplyNext
  PROVE  CommentReply!PostedIsNotFailed
<1> SUFFICES ASSUME NEW r \in Replies, s1[r].status = "processing", s1'[r].status = "failed"
             PROVE  s7[r] < s8[r]
  BY DEF CommentReply!PostedIsNotFailed
<1>0. /\ CommentReply!EngagementReplyTypeOK
      /\ \A q \in Replies : s1[q].version \in Nat /\ s6[q] \in Nat
      /\ \A j \in ReplyJobs : CommentReply!ReplyOf(j) \in Replies /\ s2[j].version \in Nat
  BY DEF CommentReply!EngagementReplyInv, CommentReply!EngagementReplyTypeOK, CommentReply!EngagementAction,
     CommentReply!ReplyJob, CommentReply!ReplyOf
<1>1. ASSUME NEW q \in Replies, NEW v \in Nat, NEW to \in CommentReply!EngagementActionStatus, NEW proof \in BOOLEAN,
             CommentReply!transitionAction(q, v, to, proof)
      PROVE  q = r /\ to = "failed"
  BY <1>0, <1>1, Transition
<1>2. ~UNCHANGED s1
  OBVIOUS
<1>3. ASSUME NEW q \in Replies PROVE ~(CommentReply!createReplyDraft(q) \/ CommentReply!checkApproval(q) \/ CommentReply!approve(q) \/ CommentReply!cancel(q) \/ CommentReply!reconcileAction(q)
                                       \/ CommentReply!recoverPending(q) \/ \E j \in ReplyJobs : CommentReply!startReply(j, q))
  <2>1. ~CommentReply!createReplyDraft(q)
    BY <1>0 DEF CommentReply!createReplyDraft, CommentReply!saveAction, CommentReply!EngagementReplyTypeOK
  <2>2. ~CommentReply!checkApproval(q) /\ ~\E j \in ReplyJobs : CommentReply!startReply(j, q)
    BY <1>2 DEF CommentReply!checkApproval, CommentReply!startReply
  <2>3. ~CommentReply!approve(q) /\ ~CommentReply!cancel(q)
    BY <1>0, <1>1, <1>2 DEF CommentReply!approve, CommentReply!cancel, CommentReply!EngagementActionStatus
  <2>4. ~CommentReply!reconcileAction(q)
    BY <1>0, <1>1 DEF CommentReply!reconcileAction, CommentReply!EngagementActionStatus
  <2>5. ~CommentReply!recoverPending(q)
    BY <1>0, <1>1, <1>2 DEF CommentReply!recoverPending, CommentReply!EngagementActionStatus
  <2> QED BY <2>1, <2>2, <2>3, <2>4, <2>5
<1>4. ASSUME NEW j \in ReplyJobs PROVE ~(CommentReply!takeReply(j) \/ CommentReply!replyToComment(j) \/ CommentReply!recordSuccess(j) \/ CommentReply!markUnsaved(j) \/ CommentReply!JobStops(j))
  <2>1. ~CommentReply!replyToComment(j) /\ ~CommentReply!JobStops(j)
    BY <1>2 DEF CommentReply!replyToComment, CommentReply!JobStops
  <2>2. ~CommentReply!takeReply(j)
    BY <1>0, <1>1, <1>2 DEF CommentReply!takeReply, CommentReply!EngagementActionStatus
  <2>3. ~CommentReply!recordSuccess(j)
    BY <1>0, <1>1, <1>2 DEF CommentReply!recordSuccess, CommentReply!EngagementActionStatus
  <2>4. ~CommentReply!markUnsaved(j)
    BY <1>0, <1>1, <1>2 DEF CommentReply!markUnsaved, CommentReply!EngagementActionStatus
  <2> QED BY <2>1, <2>2, <2>3, <2>4
<1>5. PICK j \in ReplyJobs : CommentReply!recordFailure(j)
  BY <1>2, <1>3, <1>4 DEF CommentReply!EngagementReplyNext, CommentReply!CommentChanges
<1>6. PICK to \in {"failed", "uncertain"} :
        /\ to = "failed" => ~CommentReply!replyFailureIsAmbiguous(s2[j].error)
        /\ CommentReply!transitionAction(CommentReply!ReplyOf(j), s2[j].version, to, FALSE)
  BY <1>2, <1>5 DEF CommentReply!recordFailure
<1>7. CommentReply!ReplyOf(j) = r /\ CommentReply!HasNotPosted(j)
  BY <1>0, <1>1, <1>5, <1>6 DEF CommentReply!recordFailure, CommentReply!HasNotPosted, CommentReply!JobAt,
     CommentReply!EngagementActionStatus
<1>8. PICK M \in SUBSET ReplyJobs : M = CommentReply!JobsToPost(r) /\ j \in M
  BY <1>7 DEF CommentReply!JobsToPost
<1>9. PICK n \in Nat, m \in Nat : n = CommentReply!Cardinality(M) /\ m = CommentReply!Cardinality(M \ {j})
  BY <1>8, JobsCounted
<1>10. m + 1 = n
  BY <1>8, <1>9, JobsCounted
<1>11. s7[r] + n + 0 <= s8[r] /\ s7[r] \in Nat /\ s8[r] \in Nat
  BY <1>8, <1>9 DEF CommentReply!EngagementReplyInv, CommentReply!ApprovalsAreCounted, CommentReply!EngagementReplyTypeOK
<1> QED BY <1>10, <1>11

-----------------------------------------------------------------------------
(* Proofs.  Private inbox.                                                 *)

\* What the inbox starts with is typed.
LEMMA InboxStart == PrivateMessage!IdleHandler \in PrivateMessage!Handler /\ PrivateMessage!NoSync \in PrivateMessage!SyncState /\ PrivateMessage!FreshSync \in PrivateMessage!SyncState /\ PrivateMessage!EmptyPage \in [Messages -> PrivateMessage!ObservationKind]
                    /\ PrivateMessage!NoReceipt \in PrivateMessage!WebhookReceipt /\ PrivateMessage!NoMessage \in PrivateMessage!Message
<1> USE MessageAssumption
<1>1. PrivateMessage!NoSync \in PrivateMessage!SyncState /\ PrivateMessage!FreshSync \in PrivateMessage!SyncState
  BY DEF PrivateMessage!NoSync, PrivateMessage!FreshSync, PrivateMessage!SyncState
<1>2. PrivateMessage!EmptyPage \in [Messages -> PrivateMessage!ObservationKind]
  BY DEF PrivateMessage!EmptyPage, PrivateMessage!ObservationKind
<1>3. (CHOOSE e \in PrivateMessage!Events : TRUE) \in PrivateMessage!Events
  <2>1. PICK m \in Messages : TRUE
    OBVIOUS
  <2>2. <<"message", m>> \in PrivateMessage!Events
    BY DEF PrivateMessage!Events
  <2> QED BY <2>2
<1>4. PICK e \in PrivateMessage!Events : e = CHOOSE x \in PrivateMessage!Events : TRUE
  BY <1>3
<1>5. PICK n \in 0..MaxReceiptAttempts : n = 0
  OBVIOUS
<1>6. [pc |-> "idle", event |-> e, fence |-> n, seen |-> PrivateMessage!NoSync, page |-> PrivateMessage!EmptyPage] \in PrivateMessage!Handler
  BY <1>1, <1>2 DEF PrivateMessage!Handler
<1>7. PrivateMessage!NoReceipt \in PrivateMessage!WebhookReceipt
  BY DEF PrivateMessage!NoReceipt, PrivateMessage!WebhookReceipt
<1>8. PrivateMessage!NoMessage \in PrivateMessage!Message
  BY DEF PrivateMessage!NoMessage, PrivateMessage!Message, PrivateMessage!Availability, PrivateMessage!DeliveryState
<1> QED BY <1>1, <1>2, <1>4, <1>5, <1>6, <1>7, <1>8 DEF PrivateMessage!IdleHandler

\* The invariant of the inbox holds before anything was read.
LEMMA InboxInitial == PrivateMessage!InboxInit => PrivateMessage!InboxInv
<1> SUFFICES ASSUME PrivateMessage!InboxInit PROVE PrivateMessage!InboxInv
  OBVIOUS
<1>1. s1 \in [Messages -> PrivateMessage!ProviderMessage]
  BY DEF PrivateMessage!InboxInit, PrivateMessage!ProviderMessage
<1>2. /\ s2 \in [Messages -> PrivateMessage!Message] /\ s3 \in PrivateMessage!Conversation /\ s4 \in {"absent", "present", "redacted"}
      /\ s5 \in PrivateMessage!SyncState /\ s6 \in BOOLEAN
  BY InboxStart DEF PrivateMessage!InboxInit, PrivateMessage!Conversation
<1>3. s7 \in [PrivateMessage!Events -> PrivateMessage!WebhookReceipt] /\ s8 \in [Syncers -> PrivateMessage!Handler]
  BY InboxStart DEF PrivateMessage!InboxInit
<1>4. PrivateMessage!AbsentIsUnknown
  BY DEF PrivateMessage!InboxInit, PrivateMessage!AbsentIsUnknown, PrivateMessage!NoMessage
<1> QED BY <1>1, <1>2, <1>3, <1>4 DEF PrivateMessage!InboxInv, PrivateMessage!InboxTypeOK

\* An observation gives a stored message, and brings back neither a deleted nor an expired one.
LEMMA Observed ==
  ASSUME NEW a \in PrivateMessage!Message, NEW kind \in PrivateMessage!ObservationKind
  PROVE  LET b == PrivateMessage!applyPrivateMessageObservation(a, kind) IN
         /\ b \in PrivateMessage!Message
         /\ a.availability \in {"deleted", "expired"} => b.availability \in {"deleted", "expired"}
         /\ a.delivery = "read" => b.delivery = "read"
         /\ a.availability # "absent" => b.availability # "absent"
<1>1. \A d \in PrivateMessage!DeliveryState : PrivateMessage!deliveryRank["read"] >= PrivateMessage!deliveryRank[d] 
  BY DEF PrivateMessage!deliveryRank, PrivateMessage!DeliveryState
<1>2. CASE kind = "deleted"
  BY <1>2 DEF PrivateMessage!applyPrivateMessageObservation, PrivateMessage!Message, PrivateMessage!Availability
<1>3. CASE kind # "deleted" /\ (a.availability = "deleted" \/ kind # "read")
  BY <1>3 DEF PrivateMessage!applyPrivateMessageObservation
<1>4. CASE kind # "deleted" /\ a.availability # "deleted" /\ kind = "read"
  <2>1. PICK q : q = [a EXCEPT !.delivery = "read"]
    OBVIOUS
  <2>2. q \in PrivateMessage!Message /\ q.availability = a.availability /\ q.delivery = "read"
    BY <2>1 DEF PrivateMessage!Message, PrivateMessage!DeliveryState
  <2>3. q = PrivateMessage!applyPrivateMessageObservation(a, kind)
    BY <1>1, <1>4, <2>1 DEF PrivateMessage!applyPrivateMessageObservation, PrivateMessage!Message
  <2> QED BY <2>2, <2>3
<1> QED BY <1>2, <1>3, <1>4

\* How the stored messages may change in one step.
MessagesMove ==
  /\ s2' \in [Messages -> PrivateMessage!Message]
  /\ \A m \in Messages :
       /\ s2[m].availability \in {"deleted", "expired"} => s2'[m].availability \in {"deleted", "expired"}
       /\ s2[m].delivery = "read" => s2'[m].delivery = "read"
       /\ s2'[m].availability = "absent" => s2'[m].delivery = "unknown"

\* A page that is ingested moves the messages only in the permitted way.
LEMMA PageIsIngested ==
  ASSUME PrivateMessage!InboxInv, NEW page \in [Messages -> PrivateMessage!ObservationKind], PrivateMessage!Ingest(page)
  PROVE  MessagesMove /\ s3' \in PrivateMessage!Conversation /\ s4' \in {"absent", "present", "redacted"}
<1>1. s2 \in [Messages -> PrivateMessage!Message] /\ \A m \in Messages : s2[m].availability = "absent" => s2[m].delivery = "unknown"
  BY DEF PrivateMessage!InboxInv, PrivateMessage!InboxTypeOK, PrivateMessage!AbsentIsUnknown
<1>2. s2' = [m \in Messages |-> s2'[m]]
  BY DEF PrivateMessage!Ingest
<1>3. ASSUME NEW m \in Messages
      PROVE  /\ s2'[m] \in PrivateMessage!Message
             /\ s2[m].availability \in {"deleted", "expired"} => s2'[m].availability \in {"deleted", "expired"}
             /\ s2[m].delivery = "read" => s2'[m].delivery = "read"
             /\ s2'[m].availability = "absent" => s2'[m].delivery = "unknown"
  <2>1. CASE page[m] = "none"
    BY <1>1, <2>1 DEF PrivateMessage!Ingest
  <2>2. CASE page[m] # "none" /\ s2[m].availability = "absent"
    <3>1. PrivateMessage!mapMessage(m) \in PrivateMessage!Message /\ PrivateMessage!mapMessage(m).availability # "absent"
      BY DEF PrivateMessage!mapMessage, PrivateMessage!Message, PrivateMessage!Availability, PrivateMessage!DeliveryState
    <3>2. s2'[m] = PrivateMessage!applyPrivateMessageObservation(PrivateMessage!mapMessage(m), page[m])
      BY <2>2 DEF PrivateMessage!Ingest
    <3> QED BY <1>1, <2>2, <3>1, <3>2, Observed
  <2>3. CASE page[m] # "none" /\ s2[m].availability # "absent"
    <3>1. s2'[m] = PrivateMessage!applyPrivateMessageObservation(s2[m], page[m])
      BY <2>3 DEF PrivateMessage!Ingest
    <3> QED BY <1>1, <2>3, <3>1, Observed
  <2> QED BY <2>1, <2>2, <2>3
<1>4. s3' \in PrivateMessage!Conversation /\ s4' \in {"absent", "present", "redacted"}
  BY DEF PrivateMessage!Ingest, PrivateMessage!InboxInv, PrivateMessage!InboxTypeOK, PrivateMessage!Conversation
<1>5. s2' \in [Messages -> PrivateMessage!Message]
  BY <1>2, <1>3
<1> QED BY <1>3, <1>4, <1>5 DEF MessagesMove

\* Messages nobody writes have moved in the permitted way.
LEMMA MessagesStand == ASSUME PrivateMessage!InboxInv, UNCHANGED s2 PROVE MessagesMove
  BY DEF PrivateMessage!InboxInv, PrivateMessage!InboxTypeOK, PrivateMessage!AbsentIsUnknown, MessagesMove

\* One handler that moves keeps its type.
LEMMA HandlerRow ==
  ASSUME PrivateMessage!InboxInv, NEW h \in Syncers, NEW b \in PrivateMessage!Handler, s8' = [s8 EXCEPT ![h] = b]
  PROVE  s8' \in [Syncers -> PrivateMessage!Handler]
  BY DEF PrivateMessage!InboxInv, PrivateMessage!InboxTypeOK

\* A handler that ends keeps its type.
LEMMA HandlerGoes ==
  ASSUME PrivateMessage!InboxInv, NEW h \in Syncers, NEW l \in {"finished", "erred"}, PrivateMessage!GoTo(h, l)
  PROVE  s8' \in [Syncers -> PrivateMessage!Handler]
<1>1. s8 \in [Syncers -> PrivateMessage!Handler] /\ s8[h] \in PrivateMessage!Handler
  BY DEF PrivateMessage!InboxInv, PrivateMessage!InboxTypeOK
<1>2. PICK b : b = [s8[h] EXCEPT !.pc = l, !.seen = PrivateMessage!NoSync, !.page = PrivateMessage!EmptyPage]
  OBVIOUS
<1>3. b \in PrivateMessage!Handler
  BY <1>1, <1>2, InboxStart DEF PrivateMessage!Handler
<1>4. s8' = [s8 EXCEPT ![h] = b]
  BY <1>1, <1>2 DEF PrivateMessage!GoTo
<1> QED BY <1>3, <1>4, HandlerRow

\* Every step of a handler keeps the invariant and moves the messages only in the permitted way.
LEMMA InboxHandlers ==
  ASSUME PrivateMessage!InboxInv, NEW h \in Syncers, PrivateMessage!InboxHandlerStep(h)
  PROVE  PrivateMessage!InboxInv' /\ MessagesMove
<1> USE MessageAssumption
<1>0. /\ PrivateMessage!InboxTypeOK /\ s8[h] \in PrivateMessage!Handler /\ s8[h].event \in PrivateMessage!Events /\ s8[h].seen \in PrivateMessage!SyncState
      /\ s8[h].page \in [Messages -> PrivateMessage!ObservationKind] /\ s5 \in PrivateMessage!SyncState /\ s7 \in [PrivateMessage!Events -> PrivateMessage!WebhookReceipt]
      /\ \A e \in PrivateMessage!Events : s7[e].attempts \in 0..MaxReceiptAttempts
  BY DEF PrivateMessage!InboxInv, PrivateMessage!InboxTypeOK, PrivateMessage!Handler, PrivateMessage!WebhookReceipt
<1>1. ASSUME UNCHANGED <<s1, s2, s3, s4, s6>>, s8' \in [Syncers -> PrivateMessage!Handler],
             s7' \in [PrivateMessage!Events -> PrivateMessage!WebhookReceipt], s5' \in PrivateMessage!SyncState
      PROVE  PrivateMessage!InboxInv' /\ MessagesMove
  <2>1. PrivateMessage!InboxInv'
    BY <1>0, <1>1 DEF PrivateMessage!InboxInv, PrivateMessage!InboxTypeOK, PrivateMessage!AbsentIsUnknown,
       PrivateMessage!Incoming
  <2> QED BY <1>1, <2>1, MessagesStand
<1>2. ASSUME MessagesMove, s3' \in PrivateMessage!Conversation, s4' \in {"absent", "present", "redacted"}, s5' \in PrivateMessage!SyncState,
             UNCHANGED <<s1, s6, s7>>, s8' \in [Syncers -> PrivateMessage!Handler]
      PROVE  PrivateMessage!InboxInv'
  BY <1>0, <1>2 DEF PrivateMessage!InboxInv, PrivateMessage!InboxTypeOK, PrivateMessage!AbsentIsUnknown, MessagesMove
<1>3. CASE PrivateMessage!StartSyncJob(h)
  <2>1. PICK b : b = [PrivateMessage!IdleHandler EXCEPT !.pc = "reading", !.seen = s5]
    OBVIOUS
  <2>2. b \in PrivateMessage!Handler
    BY <1>0, <2>1, InboxStart DEF PrivateMessage!Handler
  <2>3. s8' \in [Syncers -> PrivateMessage!Handler]
    BY <1>3, <2>1, <2>2, HandlerRow DEF PrivateMessage!StartSyncJob
  <2> QED BY <1>0, <1>1, <1>3, <2>3 DEF PrivateMessage!StartSyncJob
<1>4. ASSUME NEW e \in PrivateMessage!Events, PrivateMessage!ClaimWebhookReceipt(h, e) PROVE PrivateMessage!InboxInv' /\ MessagesMove
  <2>1. PICK n \in 0..MaxReceiptAttempts : n = s7[e].attempts + 1
    BY <1>0, <1>4 DEF PrivateMessage!ClaimWebhookReceipt
  <2>2. PICK b : b = [PrivateMessage!IdleHandler EXCEPT !.pc = "claimed", !.event = e, !.fence = n]
    OBVIOUS
  <2>3. b \in PrivateMessage!Handler
    BY <2>2, InboxStart DEF PrivateMessage!Handler
  <2>4. [status |-> "processing", attempts |-> n, active |-> TRUE] \in PrivateMessage!WebhookReceipt
    BY DEF PrivateMessage!WebhookReceipt
  <2>5. s7' \in [PrivateMessage!Events -> PrivateMessage!WebhookReceipt]
    BY <1>0, <1>4, <2>1, <2>4 DEF PrivateMessage!ClaimWebhookReceipt
  <2>6. s8' \in [Syncers -> PrivateMessage!Handler]
    BY <1>4, <2>1, <2>2, <2>3, HandlerRow DEF PrivateMessage!ClaimWebhookReceipt
  <2> QED BY <1>0, <1>1, <1>4, <2>5, <2>6 DEF PrivateMessage!ClaimWebhookReceipt
<1>5. CASE PrivateMessage!DeleteByReceipt(h)
  <2>1. PICK m \in Messages : m = s8[h].event[2]
    BY <1>0 DEF PrivateMessage!Events
  <2>2. s2 \in [Messages -> PrivateMessage!Message] /\ (s2[m].availability = "absent" => s2[m].delivery = "unknown")
    BY DEF PrivateMessage!InboxInv, PrivateMessage!InboxTypeOK, PrivateMessage!AbsentIsUnknown
  <2>3. PICK b : b = IF s2[m].availability = "absent" THEN s2[m] ELSE PrivateMessage!applyPrivateMessageObservation(s2[m], "deleted")
    OBVIOUS
  <2>4. /\ b \in PrivateMessage!Message /\ (s2[m].availability \in {"deleted", "expired"} => b.availability \in {"deleted", "expired"})
        /\ s2[m].delivery = "read" => b.delivery = "read"
        /\ b.availability = "absent" => b.delivery = "unknown"
    BY <2>2, <2>3, Observed DEF PrivateMessage!ObservationKind
  <2>5. s2' = [s2 EXCEPT ![m] = b]
    BY <1>5, <2>1, <2>2, <2>3 DEF PrivateMessage!DeleteByReceipt, PrivateMessage!ApplyProviderMessageDeletion
  <2>6. MessagesMove
    BY <2>2, <2>4, <2>5 DEF MessagesMove, PrivateMessage!InboxInv, PrivateMessage!AbsentIsUnknown
  <2>7. s8' \in [Syncers -> PrivateMessage!Handler]
    BY <1>5, HandlerGoes DEF PrivateMessage!DeleteByReceipt
  <2> QED BY <1>0, <1>2, <1>5, <2>6, <2>7 DEF PrivateMessage!DeleteByReceipt, PrivateMessage!InboxTypeOK
<1>6. CASE PrivateMessage!SyncByReceipt(h)
  <2>1. PICK l \in {"reading", "erred"} : l = IF s5.exists THEN "reading" ELSE "erred"
    OBVIOUS
  <2>2. PICK b : b = [s8[h] EXCEPT !.pc = l, !.seen = s5]
    OBVIOUS
  <2>3. b \in PrivateMessage!Handler
    BY <1>0, <2>2 DEF PrivateMessage!Handler
  <2>4. s8' = [s8 EXCEPT ![h] = b]
    BY <1>0, <1>6, <2>1, <2>2 DEF PrivateMessage!SyncByReceipt, PrivateMessage!InboxTypeOK
  <2>5. s8' \in [Syncers -> PrivateMessage!Handler]
    BY <2>3, <2>4, HandlerRow
  <2> QED BY <1>0, <1>1, <1>6, <2>5 DEF PrivateMessage!SyncByReceipt
<1>7. CASE PrivateMessage!FetchPage(h)
  <2>1. PICK page \in PrivateMessage!SyncPages(s8[h].seen.cursor) : s8' = [s8 EXCEPT ![h].pc = "fetched", ![h].page = page]
    BY <1>7 DEF PrivateMessage!FetchPage
  <2>2. page \in [Messages -> PrivateMessage!ObservationKind]
    BY DEF PrivateMessage!SyncPages
  <2>3. PICK b : b = [s8[h] EXCEPT !.pc = "fetched", !.page = page]
    OBVIOUS
  <2>4. b \in PrivateMessage!Handler
    BY <1>0, <2>2, <2>3 DEF PrivateMessage!Handler
  <2>5. s8' = [s8 EXCEPT ![h] = b]
    BY <1>0, <2>1, <2>3 DEF PrivateMessage!InboxTypeOK
  <2>6. s8' \in [Syncers -> PrivateMessage!Handler]
    BY <2>4, <2>5, HandlerRow
  <2> QED BY <1>0, <1>1, <1>7, <2>6 DEF PrivateMessage!FetchPage
<1>8. CASE PrivateMessage!FetchFails(h)
  <2>1. s8' \in [Syncers -> PrivateMessage!Handler]
    BY <1>8, HandlerGoes DEF PrivateMessage!FetchFails
  <2> QED BY <1>0, <1>1, <1>8, <2>1 DEF PrivateMessage!FetchFails
<1>9. CASE PrivateMessage!SavePage(h) /\ PrivateMessage!SyncIsFresh(s8[h].seen)
  <2>1. PrivateMessage!SaveSyncPage(s8[h].seen, s8[h].page) /\ UNCHANGED <<s1, s6, s7>> /\ s5.version < MaxSyncVersion
    BY <1>9 DEF PrivateMessage!SavePage
  <2>2. MessagesMove /\ s3' \in PrivateMessage!Conversation /\ s4' \in {"absent", "present", "redacted"}
    BY <1>0, <2>1, PageIsIngested DEF PrivateMessage!SaveSyncPage
  <2>3. PrivateMessage!NextCursor(s8[h].seen.cursor) \in 1..MessagePages
    BY <1>0 DEF PrivateMessage!NextCursor, PrivateMessage!SyncState
  <2>4. PICK c \in 1..MessagePages : c = PrivateMessage!NextCursor(s8[h].seen.cursor)
    BY <2>3
  <2>5. PICK n \in 0..MaxSyncVersion : n = s5.version + 1
    BY <1>0, <2>1 DEF PrivateMessage!SyncState
  <2>6. [s5 EXCEPT !.version = n, !.cursor = c] \in PrivateMessage!SyncState
    BY <1>0 DEF PrivateMessage!SyncState
  <2>7. [PrivateMessage!FreshSync EXCEPT !.cursor = c] \in PrivateMessage!SyncState
    BY InboxStart DEF PrivateMessage!SyncState
  <2>8. s5' \in PrivateMessage!SyncState
    BY <2>1, <2>4, <2>5, <2>6, <2>7 DEF PrivateMessage!SaveSyncPage
  <2>9. s8' \in [Syncers -> PrivateMessage!Handler]
    BY <1>9, HandlerGoes DEF PrivateMessage!SavePage
  <2> QED BY <1>2, <2>1, <2>2, <2>8, <2>9
<1>10. CASE PrivateMessage!SavePage(h) /\ ~PrivateMessage!SyncIsFresh(s8[h].seen)
  <2>1. s8' \in [Syncers -> PrivateMessage!Handler]
    BY <1>10, HandlerGoes DEF PrivateMessage!SavePage
  <2> QED BY <1>0, <1>1, <1>10, <2>1 DEF PrivateMessage!SavePage
<1>11. CASE PrivateMessage!CompleteWebhookReceipt(h) \/ PrivateMessage!FailWebhookReceipt(h)
  <2>1. s8' \in [Syncers -> PrivateMessage!Handler]
    BY <1>11, InboxStart, HandlerRow DEF PrivateMessage!CompleteWebhookReceipt, PrivateMessage!FailWebhookReceipt
  <2>2. PICK e \in PrivateMessage!Events : e = s8[h].event
    BY <1>0
  <2>3. PICK l \in {"processed", "failed", "pending"} :
          s7' = s7 \/ s7' = [s7 EXCEPT ![e].status = l, ![e].active = FALSE]
    <3>1. CASE PrivateMessage!CompleteWebhookReceipt(h)
      BY <2>2, <3>1 DEF PrivateMessage!CompleteWebhookReceipt
    <3>2. CASE PrivateMessage!FailWebhookReceipt(h)
      <4>1. PICK l \in {"failed", "pending"} : l = IF s8[h].fence >= MaxReceiptAttempts THEN "failed" ELSE "pending"
        OBVIOUS
      <4> QED BY <2>2, <3>2, <4>1 DEF PrivateMessage!FailWebhookReceipt
    <3> QED BY <1>11, <3>1, <3>2
  <2>4. s7[e] \in PrivateMessage!WebhookReceipt
    BY <1>0
  <2>5. [s7[e] EXCEPT !.status = l, !.active = FALSE] \in PrivateMessage!WebhookReceipt
    BY <2>4 DEF PrivateMessage!WebhookReceipt
  <2>6. s7' \in [PrivateMessage!Events -> PrivateMessage!WebhookReceipt]
    BY <1>0, <2>3, <2>5
  <2>7. UNCHANGED <<s1, s2, s3, s4, s5, s6>>
    BY <1>11 DEF PrivateMessage!CompleteWebhookReceipt, PrivateMessage!FailWebhookReceipt
  <2> QED BY <1>0, <1>1, <2>1, <2>6, <2>7
<1> QED BY <1>3, <1>4, <1>5, <1>6, <1>7, <1>8, <1>9, <1>10, <1>11 DEF PrivateMessage!InboxHandlerStep

\* So do the provider, the echoes, the notices and the leases.
LEMMA InboxOutsiders ==
  ASSUME PrivateMessage!InboxInv,
         \/ \E m \in Messages : PrivateMessage!MessageArrives(m) \/ PrivateMessage!MessageIsDeleted(m) \/ PrivateMessage!IngestEcho(m)
         \/ \E e \in PrivateMessage!Events : PrivateMessage!normalizeMetaPrivateWebhookEvent(e) \/ PrivateMessage!ReceiptLeaseExpires(e)
         \/ \E state \in {"open", "resolved"} : PrivateMessage!UpdateConversation(state)
         \/ PrivateMessage!EnableCapabilities \/ PrivateMessage!InitializeSync \/ PrivateMessage!CompensateDemoCapabilities
  PROVE  PrivateMessage!InboxInv' /\ MessagesMove
<1>0. PrivateMessage!InboxTypeOK /\ PrivateMessage!AbsentIsUnknown
  BY DEF PrivateMessage!InboxInv
<1>1. ASSUME NEW m \in Messages, PrivateMessage!MessageArrives(m) \/ PrivateMessage!MessageIsDeleted(m) PROVE PrivateMessage!InboxInv' /\ MessagesMove
  <2>1. s1' \in [Messages -> PrivateMessage!ProviderMessage]
    <3>1. s1 \in [Messages -> PrivateMessage!ProviderMessage]
      BY <1>0 DEF PrivateMessage!InboxTypeOK
    <3>2. CASE PrivateMessage!MessageArrives(m)
      BY <3>1, <3>2 DEF PrivateMessage!MessageArrives, PrivateMessage!ProviderMessage
    <3>3. CASE PrivateMessage!MessageIsDeleted(m)
      BY <3>1, <3>3 DEF PrivateMessage!MessageIsDeleted, PrivateMessage!ProviderMessage
    <3> QED BY <1>1, <3>2, <3>3
  <2>2. UNCHANGED <<s2, s3, s4, s5, s6, s7, s8>>
    BY <1>1 DEF PrivateMessage!MessageArrives, PrivateMessage!MessageIsDeleted
  <2>3. PrivateMessage!InboxInv'
    BY <1>0, <2>1, <2>2 DEF PrivateMessage!InboxInv, PrivateMessage!InboxTypeOK, PrivateMessage!AbsentIsUnknown
  <2> QED BY <2>2, <2>3, MessagesStand
<1>2. ASSUME NEW m \in Messages, PrivateMessage!IngestEcho(m) PROVE PrivateMessage!InboxInv' /\ MessagesMove
  <2>1. [PrivateMessage!EmptyPage EXCEPT ![m] = "message"] \in [Messages -> PrivateMessage!ObservationKind]
    BY InboxStart DEF PrivateMessage!ObservationKind
  <2>2. MessagesMove /\ s3' \in PrivateMessage!Conversation /\ s4' \in {"absent", "present", "redacted"}
    BY <1>2, <2>1, PageIsIngested DEF PrivateMessage!IngestEcho
  <2>3. PrivateMessage!InboxInv'
    BY <1>0, <1>2, <2>2 DEF PrivateMessage!IngestEcho, PrivateMessage!InboxInv, PrivateMessage!InboxTypeOK,
       PrivateMessage!AbsentIsUnknown, MessagesMove
  <2> QED BY <2>2, <2>3
<1>3. ASSUME NEW e \in PrivateMessage!Events, PrivateMessage!normalizeMetaPrivateWebhookEvent(e) \/ PrivateMessage!ReceiptLeaseExpires(e) PROVE PrivateMessage!InboxInv' /\ MessagesMove
  <2>1. s7 \in [PrivateMessage!Events -> PrivateMessage!WebhookReceipt] /\ s7[e] \in PrivateMessage!WebhookReceipt
    BY <1>0 DEF PrivateMessage!InboxTypeOK
  <2>2. [s7[e] EXCEPT !.status = "pending"] \in PrivateMessage!WebhookReceipt /\ [s7[e] EXCEPT !.active = FALSE] \in PrivateMessage!WebhookReceipt
    BY <2>1 DEF PrivateMessage!WebhookReceipt
  <2>3. s7' \in [PrivateMessage!Events -> PrivateMessage!WebhookReceipt]
    BY <1>3, <2>1, <2>2 DEF PrivateMessage!normalizeMetaPrivateWebhookEvent, PrivateMessage!RecordWebhookReceipt,
       PrivateMessage!ReceiptLeaseExpires
  <2>4. UNCHANGED <<s1, s2, s3, s4, s5, s6, s8>>
    BY <1>3 DEF PrivateMessage!normalizeMetaPrivateWebhookEvent, PrivateMessage!ReceiptLeaseExpires
  <2>5. PrivateMessage!InboxInv'
    BY <1>0, <2>3, <2>4 DEF PrivateMessage!InboxInv, PrivateMessage!InboxTypeOK, PrivateMessage!AbsentIsUnknown
  <2> QED BY <2>4, <2>5, MessagesStand
<1>4. ASSUME \/ \E state \in {"open", "resolved"} : PrivateMessage!UpdateConversation(state)
             \/ PrivateMessage!EnableCapabilities \/ PrivateMessage!InitializeSync \/ PrivateMessage!CompensateDemoCapabilities
      PROVE  PrivateMessage!InboxInv' /\ MessagesMove
  <2>1. /\ s3' \in PrivateMessage!Conversation /\ s6' \in BOOLEAN /\ s5' \in PrivateMessage!SyncState
        /\ UNCHANGED <<s1, s2, s4, s7, s8>>
    BY <1>0, <1>4, InboxStart DEF PrivateMessage!UpdateConversation, PrivateMessage!EnableCapabilities,
       PrivateMessage!InitializeSync, PrivateMessage!CompensateDemoCapabilities, PrivateMessage!InboxTypeOK,
       PrivateMessage!Conversation
  <2>2. PrivateMessage!InboxInv'
    BY <1>0, <2>1 DEF PrivateMessage!InboxInv, PrivateMessage!InboxTypeOK, PrivateMessage!AbsentIsUnknown
  <2> QED BY <2>1, <2>2, MessagesStand
<1> QED BY <1>1, <1>2, <1>3, <1>4

\* So do the retention job and the erasure of provider data.
LEMMA InboxForgets ==
  ASSUME PrivateMessage!InboxInv, PrivateMessage!PurgeExpired \/ PrivateMessage!EraseProviderData
  PROVE  PrivateMessage!InboxInv' /\ MessagesMove
<1>0. PrivateMessage!InboxTypeOK /\ PrivateMessage!AbsentIsUnknown /\ s2 \in [Messages -> PrivateMessage!Message] /\ s7 \in [PrivateMessage!Events -> PrivateMessage!WebhookReceipt]
  BY DEF PrivateMessage!InboxInv, PrivateMessage!InboxTypeOK
<1>1. \A m \in Messages : /\ [s2[m] EXCEPT !.availability = "expired"] \in PrivateMessage!Message
                          /\ [s2[m] EXCEPT !.availability = "expired"].availability = "expired"
                          /\ [s2[m] EXCEPT !.availability = "expired"].delivery = s2[m].delivery
  BY <1>0 DEF PrivateMessage!Message, PrivateMessage!Availability
<1>2. CASE PrivateMessage!PurgeExpired
  <2>1. PICK gone \in (SUBSET {m \in Messages : s2[m].availability = "available"}) \ {{}} :
          s2' = [m \in Messages |-> IF m \in gone THEN [s2[m] EXCEPT !.availability = "expired"] ELSE s2[m]]
    BY <1>2 DEF PrivateMessage!PurgeExpired
  <2>2. MessagesMove
    BY <1>0, <1>1, <2>1 DEF MessagesMove, PrivateMessage!AbsentIsUnknown
  <2>3. s7' \in [PrivateMessage!Events -> PrivateMessage!WebhookReceipt]
    BY <1>0, <1>2, InboxStart DEF PrivateMessage!PurgeExpired
  <2>4. PrivateMessage!InboxInv'
    BY <1>0, <1>2, <2>2, <2>3 DEF PrivateMessage!PurgeExpired, PrivateMessage!InboxInv, PrivateMessage!InboxTypeOK,
       PrivateMessage!AbsentIsUnknown, MessagesMove
  <2> QED BY <2>2, <2>4
<1>3. CASE PrivateMessage!EraseProviderData
  <2>1. MessagesMove
    BY <1>0, <1>1, <1>3, InboxStart DEF PrivateMessage!EraseProviderData, MessagesMove, PrivateMessage!AbsentIsUnknown,
       PrivateMessage!NoMessage
  <2>2. s7' \in [PrivateMessage!Events -> PrivateMessage!WebhookReceipt] /\ s5' \in PrivateMessage!SyncState /\ s6' \in BOOLEAN /\ s3' \in PrivateMessage!Conversation
    BY <1>0, <1>3, InboxStart DEF PrivateMessage!EraseProviderData, PrivateMessage!InboxTypeOK,
       PrivateMessage!Conversation
  <2>3. PrivateMessage!InboxInv'
    BY <1>0, <1>3, <2>1, <2>2 DEF PrivateMessage!EraseProviderData, PrivateMessage!InboxInv, PrivateMessage!InboxTypeOK,
       PrivateMessage!AbsentIsUnknown, MessagesMove
  <2> QED BY <2>1, <2>3
<1> QED BY <1>2, <1>3

\* Every step of the inbox keeps its invariant and moves the messages only in the permitted way.
LEMMA InboxNextKeeps ==
  ASSUME PrivateMessage!InboxInv, PrivateMessage!InboxNext
  PROVE  PrivateMessage!InboxInv' /\ MessagesMove
  BY InboxHandlers, InboxOutsiders, InboxForgets DEF PrivateMessage!InboxNext

\* No step shows a removed message again.
LEMMA RemovedStays == ASSUME PrivateMessage!InboxInv, PrivateMessage!InboxNext PROVE PrivateMessage!RemovedContentStays
  BY InboxNextKeeps DEF MessagesMove, PrivateMessage!RemovedContentStays

\* The inductive invariant of the private inbox survives every step.
LEMMA InboxKept == PrivateMessage!InboxInv /\ [PrivateMessage!InboxNext]_PrivateMessage!inboxVars => PrivateMessage!InboxInv'
<1>1. ASSUME PrivateMessage!InboxInv, UNCHANGED PrivateMessage!inboxVars PROVE PrivateMessage!InboxInv'
  BY <1>1 DEF PrivateMessage!inboxVars, PrivateMessage!InboxInv, PrivateMessage!InboxTypeOK,
     PrivateMessage!AbsentIsUnknown
<1> QED BY <1>1, InboxNextKeeps

-----------------------------------------------------------------------------
(* Proofs.  Sign-in.                                                       *)

\* A request names what its next step needs.
Whole(b) ==
  /\ b.pc = "accepting" => b.invite \in Invites /\ b.token \in 1..MaxToken /\ b.person \in People
  /\ b.pc \in {"resolve", "link", "provision"} => b.subject \in Subjects /\ b.person \in People
  /\ b.pc = "refused" => b.count < MaxFailures

\* How the requests may change in one step that does not take a sign-in state.
VisitsMove ==
  /\ s8' \in [Visits -> Membership!Visit]
  /\ \A v \in Visits : Whole(s8'[v]) /\ s8'[v].state \in {Nobody, s8[v].state}

\* How the sessions may change in one step that makes none.
SessionsMove ==
  /\ s5' \in [People -> Seq(Membership!AuthSession)]
  /\ \A p \in People : /\ DOMAIN s5'[p] = DOMAIN s5[p]
                       /\ \A n \in DOMAIN s5[p] : s5'[p][n].via = s5[p][n].via

\* How the invitations may change in one step that admits nobody.
InvitationsMove ==
  /\ s3' \in [Invites -> Membership!WorkspaceInvitation]
  /\ \A i \in Invites : s3[i].status = "accepted" => s3'[i] = s3[i]
  /\ \A i \in Invites : s3'[i].status # "none" => s3'[i].email \in People

\* A request has its type, and names what its next step needs.
LEMMA VisitTypes == ASSUME Membership!SignInInv, NEW v \in Visits PROVE s8[v] \in Membership!Visit /\ Whole(s8[v])
  BY DEF Membership!SignInInv, Membership!SignInTypeOK, Membership!VisitsAreWhole, Whole

\* A request holds a sign-in state or none.
LEMMA VisitState == ASSUME Membership!SignInInv, NEW v \in Visits PROVE s8[v].state \in LoginStates \cup {Nobody}
<1>1. s8[v] \in Membership!Visit
  BY VisitTypes
<1> QED BY <1>1 DEF Membership!Visit

\* A session came from a sign-in state or from none.
LEMMA SessionVia ==
  ASSUME Membership!SignInInv, NEW p \in People, NEW n \in DOMAIN s5[p]
  PROVE  s5[p][n].via \in LoginStates \cup {Nobody}
<1>1. s5[p] \in Seq(Membership!AuthSession)
  BY DEF Membership!SignInInv, Membership!SignInTypeOK
<1>2. s5[p][n] \in Membership!AuthSession
  BY <1>1
<1> QED BY <1>2 DEF Membership!AuthSession

\* A request that has not begun, and one that has ended, hold no sign-in state.
LEMMA IdleVisit == /\ Membership!Idle \in Membership!Visit /\ Membership!Idle.state = Nobody 
                   /\ [Membership!Idle EXCEPT !.pc = "done"] \in Membership!Visit /\ [Membership!Idle EXCEPT !.pc = "done"].state = Nobody /\ Whole([Membership!Idle EXCEPT !.pc = "done"])
<1>1. PICK idle \in Membership!VisitStep, done \in Membership!VisitStep : idle = "idle" /\ done = "done"
  BY DEF Membership!VisitStep
<1>2. PICK none \in Membership!VisitKind, viewer \in Membership!Role, n \in Nat : none = "none" /\ viewer = "viewer" /\ n = 0
  BY DEF Membership!VisitKind, Membership!Role
<1>3. PICK x : x = [pc |-> idle, op |-> none, person |-> Nobody, role |-> viewer, session |-> n, invite |-> Nobody,
         token |-> n, state |-> Nobody, subject |-> Nobody, count |-> n]
  OBVIOUS
<1>4. x \in Membership!Visit /\ x.state = Nobody
  BY <1>3 DEF Membership!Visit
<1>5. x = Membership!Idle
  BY <1>1, <1>2, <1>3 DEF Membership!Idle
<1>6. PICK y : y = [x EXCEPT !.pc = done]
  OBVIOUS
<1>7. y \in Membership!Visit /\ y.pc = done /\ y.state = Nobody
  BY <1>4, <1>6 DEF Membership!Visit
<1> QED BY <1>1, <1>4, <1>5, <1>6, <1>7 DEF Whole

\* One request that moves without taking a sign-in state moves the requests in the permitted way.
LEMMA VisitMoves ==
  ASSUME Membership!SignInInv, NEW v \in Visits, NEW b \in Membership!Visit, Whole(b), b.state \in {Nobody, s8[v].state},
         s8' = [s8 EXCEPT ![v] = b]
  PROVE  VisitsMove
<1>1. s8 \in [Visits -> Membership!Visit] /\ \A w \in Visits : Whole(s8[w])
  BY VisitTypes DEF Membership!SignInInv, Membership!SignInTypeOK
<1>2. s8' \in [Visits -> Membership!Visit] /\ s8'[v] = b /\ \A w \in Visits \ {v} : s8'[w] = s8[w]
  BY <1>1
<1> QED BY <1>1, <1>2 DEF VisitsMove

\* So does one that ends.
LEMMA VisitEnds == ASSUME Membership!SignInInv, NEW v \in Visits, Membership!Ends(v) PROVE VisitsMove
  BY IdleVisit, VisitMoves DEF Membership!Ends

\* So do requests that stand still.
LEMMA VisitsStand == ASSUME Membership!SignInInv, UNCHANGED s8 PROVE VisitsMove
  BY VisitTypes DEF Membership!SignInInv, Membership!SignInTypeOK, VisitsMove

\* Sessions nobody writes keep their places and origins.
LEMMA SessionsStand == ASSUME Membership!SignInInv, UNCHANGED s5 PROVE SessionsMove
  BY DEF Membership!SignInInv, Membership!SignInTypeOK, SessionsMove

\* Revoked sessions keep their places and origins.
LEMMA SessionsRevoked ==
  ASSUME Membership!SignInInv, NEW p, NEW id, s5' = Membership!revokeSession(p, id) \/ s5' = Membership!revokeUserSessions(p, id)
  PROVE  SessionsMove
<1>1. s5 \in [People -> Seq(Membership!AuthSession)]
  BY DEF Membership!SignInInv, Membership!SignInTypeOK
<1>2. CASE p \notin People
  <2>1. s5' = s5
    BY <1>1, <1>2 DEF Membership!revokeSession, Membership!revokeUserSessions
  <2> QED BY <2>1, SessionsStand
<1>3. CASE p \in People
  <2>1. PICK s \in Seq(Membership!AuthSession) : s = s5[p]
    BY <1>1, <1>3
  <2> DEFINE without == [n \in DOMAIN s |-> [s[n] EXCEPT !.live = @ /\ s[n].id # id]]
             only    == [n \in DOMAIN s |-> [s[n] EXCEPT !.live = @ /\ s[n].id = id]]
  <2>6. s5' = [s5 EXCEPT ![p] = without] \/ s5' = [s5 EXCEPT ![p] = only]
    <3>1. CASE s5' = Membership!revokeSession(p, id)
      <4>1. s5' = [s5 EXCEPT ![p] = without]
        BY <2>1, <3>1 DEF Membership!revokeSession
      <4> QED BY <4>1
    <3>2. CASE s5' = Membership!revokeUserSessions(p, id)
      <4>1. s5' = [s5 EXCEPT ![p] = only]
        BY <2>1, <3>2 DEF Membership!revokeUserSessions
      <4> QED BY <4>1
    <3> QED BY <3>1, <3>2
  <2>2. PICK t : (t = without \/ t = only) /\ s5' = [s5 EXCEPT ![p] = t]
    <3> HIDE DEF without, only
    <3> QED BY <2>6
  <2>3. DOMAIN t = DOMAIN s /\ DOMAIN s = 1..Len(s) /\ Len(s) \in Nat
    BY <2>1, <2>2
  <2>4. \A n \in DOMAIN s : t[n] \in Membership!AuthSession /\ t[n].via = s[n].via
    <3> SUFFICES ASSUME NEW n \in DOMAIN s PROVE t[n] \in Membership!AuthSession /\ t[n].via = s[n].via
      OBVIOUS
    <3>1. s[n] \in Membership!AuthSession
      BY <2>1
    <3>2. PICK b \in BOOLEAN : t[n] = [s[n] EXCEPT !.live = b]
      BY <2>2, <3>1 DEF Membership!AuthSession
    <3> QED BY <3>1, <3>2 DEF Membership!AuthSession
  <2>5. t \in Seq(Membership!AuthSession)
    <3>1. t = [n \in 1..Len(s) |-> t[n]]
      BY <2>2, <2>3
    <3> QED BY <2>3, <2>4, <3>1
  <2> QED BY <1>1, <2>1, <2>2, <2>3, <2>4, <2>5 DEF SessionsMove
<1> QED BY <1>2, <1>3

\* Invitations nobody writes have moved in the permitted way.
LEMMA InvitationsStand == ASSUME Membership!SignInInv, UNCHANGED s3 PROVE InvitationsMove
  BY DEF Membership!SignInInv, Membership!SignInTypeOK, InvitationsMove, Membership!InvitationsAreAddressed

\* A step that makes no session, takes no sign-in state and admits only by an accepted invitation keeps the
\* invariant.
LEMMA SignInKept ==
  ASSUME Membership!SignInInv, VisitsMove, SessionsMove, s3' \in [Invites -> Membership!WorkspaceInvitation],
         \A i \in Invites : s3[i].status = "accepted" => s3'[i] = s3[i],
         \A i \in Invites : s3'[i].status # "none" => s3'[i].email \in People,
         s1' \in [People -> Membership!AuthUser], s2' \in [Subjects -> People \cup {Nobody}],
         s4' \in [LoginStates -> Membership!OidcLoginState], s6' \in Nat, s7' \in [People -> 0..MaxFailures],
         \A s \in LoginStates : s4[s] = "consumed" => s4'[s] = "consumed",
         s9' \subseteq Invites \X People \X (1..MaxToken),
         \A a \in s9' \ s9 : LET i == s3'[a[1]] IN i.status = "accepted" /\ i.email = a[2] /\ i.token = a[3]
  PROVE  Membership!SignInInv'
<1> USE SignInAssumption
<1>1. Membership!SignInTypeOK'
  BY DEF Membership!SignInTypeOK, VisitsMove, SessionsMove
<1>2. Membership!VisitsAreWhole'
  BY DEF VisitsMove, Membership!VisitsAreWhole, Whole
<1>3. \A v \in Visits : s8[v].state # Nobody => s8[v].state \in LoginStates
  BY VisitState
<1>4. \A p \in People : \A n \in DOMAIN s5[p] : s5[p][n].via # Nobody => s5[p][n].via \in LoginStates
  BY SessionVia
<1>5. Membership!StatesAreHeldOnce'
  <2>4. \A v \in Visits : s8'[v].state \in {Nobody, s8[v].state}
    BY DEF VisitsMove
  <2>5. \A v \in Visits : s8'[v].state # Nobody => s8'[v].state = s8[v].state
    BY <2>4
  <2>1. \A v \in Visits : s8'[v].state # Nobody => s4'[s8'[v].state] = "consumed"
    BY <1>3, <2>5 DEF Membership!SignInInv, Membership!StatesAreHeldOnce
  <2>2. \A v, w \in Visits : s8'[v].state = s8'[w].state /\ s8'[v].state # Nobody => v = w
    BY <2>4, <2>5 DEF Membership!SignInInv, Membership!StatesAreHeldOnce
  <2>3. \A p \in People : \A n \in DOMAIN s5'[p] : s5'[p][n].via # Nobody =>
          s4'[s5'[p][n].via] = "consumed" /\ \A v \in Visits : s8'[v].state # s5'[p][n].via
    <3> SUFFICES ASSUME NEW p \in People, NEW n \in DOMAIN s5'[p], s5'[p][n].via # Nobody
                 PROVE  s4'[s5'[p][n].via] = "consumed" /\ \A v \in Visits : s8'[v].state # s5'[p][n].via
      OBVIOUS
    <3>1. n \in DOMAIN s5[p] /\ s5'[p][n].via = s5[p][n].via
      BY DEF SessionsMove
    <3>2. /\ s5[p][n].via \in LoginStates /\ s4[s5[p][n].via] = "consumed"
          /\ \A v \in Visits : s8[v].state # s5[p][n].via
      BY <1>4, <3>1 DEF Membership!SignInInv, Membership!StatesAreHeldOnce
    <3> QED BY <2>4, <3>1, <3>2
  <2> QED BY <2>1, <2>2, <2>3 DEF Membership!StatesAreHeldOnce
<1>6. Membership!LoginStateUsedOnce'
  <2> SUFFICES ASSUME NEW p \in People, NEW q \in People, NEW m \in DOMAIN s5'[p], NEW n \in DOMAIN s5'[q],
                      s5'[p][m].via # Nobody, s5'[p][m].via = s5'[q][n].via
               PROVE  p = q /\ m = n
    BY DEF Membership!LoginStateUsedOnce
  <2>1. /\ m \in DOMAIN s5[p] /\ s5'[p][m].via = s5[p][m].via
        /\ n \in DOMAIN s5[q] /\ s5'[q][n].via = s5[q][n].via
    BY DEF SessionsMove
  <2>2. s5[p][m].via # Nobody /\ s5[p][m].via = s5[q][n].via
    BY <2>1
  <2>3. Membership!LoginStateUsedOnce
    BY DEF Membership!SignInInv
  <2> QED BY <2>1, <2>2, <2>3 DEF Membership!LoginStateUsedOnce
<1>7. Membership!InvitationAdmitsItsPerson'
  <2> SUFFICES ASSUME NEW a \in s9' PROVE LET i == s3'[a[1]] IN i.status = "accepted" /\ i.email = a[2] /\ i.token = a[3]
    BY DEF Membership!InvitationAdmitsItsPerson
  <2>1. CASE a \in s9
    <3>1. a[1] \in Invites
      BY <2>1 DEF Membership!SignInInv, Membership!SignInTypeOK
    <3> QED BY <2>1, <3>1 DEF Membership!SignInInv, Membership!InvitationAdmitsItsPerson
  <2>2. CASE a \notin s9
    BY <2>2
  <2> QED BY <2>1, <2>2
<1>8. Membership!InvitationsAreAddressed'
  BY DEF Membership!InvitationsAreAddressed
<1> QED BY <1>1, <1>2, <1>5, <1>6, <1>7, <1>8 DEF Membership!SignInInv

\* The steps at which a request needs nothing but its own fields.
FreeStep == Membership!VisitStep \ {"accepting", "resolve", "link", "provision", "refused"}

\* A request that goes on to its next step still names what that step needs.
LEMMA RequestGoesOn ==
  ASSUME Membership!SignInInv, NEW v \in Visits, NEW pc \in Membership!VisitStep, NEW b, b = [s8[v] EXCEPT !.pc = pc],
         pc \in {"changed", "counted", "session"} \/ (pc \in {"link", "provision"} /\ s8[v].pc = "resolve")
  PROVE  b \in Membership!Visit /\ Whole(b) /\ b.state = s8[v].state /\ b.pc = pc /\ b.subject = s8[v].subject
<1>1. s8[v] \in Membership!Visit /\ Whole(s8[v])
  BY VisitTypes
<1>2. b \in Membership!Visit /\ b.pc = pc /\ b.state = s8[v].state /\ b.subject = s8[v].subject /\ b.person = s8[v].person
  BY <1>1 DEF Membership!Visit
<1>3. Whole(b)
  BY <1>1, <1>2 DEF Whole
<1> QED BY <1>2, <1>3

\* A request that goes on moves the requests in the permitted way.
LEMMA RequestMoves ==
  ASSUME Membership!SignInInv, NEW v \in Visits, NEW pc \in Membership!VisitStep, Membership!To(v, [s8[v] EXCEPT !.pc = pc]),
         pc \in {"changed", "counted", "session"} \/ (pc \in {"link", "provision"} /\ s8[v].pc = "resolve")
  PROVE  VisitsMove
<1>1. PICK b : b = [s8[v] EXCEPT !.pc = pc]
  OBVIOUS
<1>2. b \in Membership!Visit /\ Whole(b) /\ b.state = s8[v].state
  BY <1>1, RequestGoesOn
<1> QED BY <1>1, <1>2, VisitMoves DEF Membership!To

\* A step of a request that writes users and sessions at most, and makes no session, keeps the invariant.
LEMMA OnlyVisitsMove ==
  ASSUME Membership!SignInInv, VisitsMove, UNCHANGED <<s2, s3, s4, s6, s7, s9>>,
         SessionsMove, s1' \in [People -> Membership!AuthUser]
  PROVE  Membership!SignInInv'
<1>1. /\ s3 \in [Invites -> Membership!WorkspaceInvitation] /\ s2 \in [Subjects -> People \cup {Nobody}]
      /\ s4 \in [LoginStates -> Membership!OidcLoginState] /\ s6 \in Nat /\ s7 \in [People -> 0..MaxFailures]
      /\ s9 \subseteq Invites \X People \X (1..MaxToken)
  BY DEF Membership!SignInInv, Membership!SignInTypeOK
<1>2. \A i \in Invites : s3[i].status # "none" => s3[i].email \in People
  BY DEF Membership!SignInInv, Membership!InvitationsAreAddressed
<1> QED BY <1>1, <1>2, SignInKept

\* Users nobody writes keep their type.
LEMMA UserRows == ASSUME Membership!SignInInv, UNCHANGED s1 PROVE s1' \in [People -> Membership!AuthUser]
  BY DEF Membership!SignInInv, Membership!SignInTypeOK

\* A request for a new password begins.
LEMMA PasswordAsked ==
  ASSUME Membership!SignInInv, NEW v \in Visits, NEW p \in People, NEW session \in Nat, Membership!changePassword(v, p, session)
  PROVE  VisitsMove
<1>1. PICK pc \in FreeStep, op \in Membership!VisitKind : pc = "changing" /\ op = "password"
  BY DEF Membership!VisitStep, Membership!VisitKind, FreeStep
<1>2. PICK b : b = [Membership!Idle EXCEPT !.pc = pc, !.op = op, !.person = p, !.session = session]
  OBVIOUS
<1>3. b \in Membership!Visit /\ b.state = Nobody /\ b.pc = pc
  BY <1>2, IdleVisit DEF Membership!Visit, FreeStep
<1>4. Membership!To(v, b)
  BY <1>1, <1>2 DEF Membership!changePassword
<1> QED BY <1>3, <1>4, VisitMoves DEF Membership!To, FreeStep, Whole

\* A request for another role begins.
LEMMA RoleAsked ==
  ASSUME Membership!SignInInv, NEW v \in Visits, NEW p \in People, NEW session \in Nat, NEW other \in People, NEW role \in Membership!GivenRoles,
         Membership!updateRole(v, p, session, other, role)
  PROVE  VisitsMove
<1>1. PICK pc \in FreeStep, op \in Membership!VisitKind : pc = "owner" /\ op = "role"
  BY DEF Membership!VisitStep, Membership!VisitKind, FreeStep
<1>5. role \in Membership!Role
  BY DEF Membership!GivenRoles, Membership!Role
<1>2. PICK b : b = [Membership!Idle EXCEPT !.pc = pc, !.op = op, !.person = other, !.role = role]
  OBVIOUS
<1>3. b \in Membership!Visit /\ b.state = Nobody /\ b.pc = pc
  BY <1>2, <1>5, IdleVisit DEF Membership!Visit, FreeStep
<1>4. Membership!To(v, b)
  BY <1>1, <1>2 DEF Membership!updateRole
<1> QED BY <1>3, <1>4, VisitMoves DEF Membership!To, FreeStep, Whole

\* A request to accept an invitation begins, with the invitation, its token and its person.
LEMMA AcceptanceAsked ==
  ASSUME Membership!SignInInv, NEW v \in Visits, NEW p \in People, NEW i \in Invites, NEW token \in 1..MaxToken, NEW op \in Membership!VisitKind,
         NEW pc \in Membership!VisitStep, pc = "accepting",
         Membership!To(v, [Membership!Idle EXCEPT !.pc = pc, !.op = op, !.person = p, !.invite = i, !.token = token])
  PROVE  VisitsMove
<1>1. token \in Nat
  BY SignInAssumption
<1>2. PICK b : b = [Membership!Idle EXCEPT !.pc = pc, !.op = op, !.person = p, !.invite = i, !.token = token]
  OBVIOUS
<1>3. b \in Membership!Visit /\ b.state = Nobody /\ b.pc = pc /\ b.invite = i /\ b.token = token /\ b.person = p
  BY <1>1, <1>2, IdleVisit DEF Membership!Visit
<1>4. Whole(b)
  BY <1>3 DEF Whole
<1> QED BY <1>2, <1>3, <1>4, VisitMoves DEF Membership!To

\* A sign-in with a password begins, unless the person is blocked.
LEMMA LoginAsked ==
  ASSUME Membership!SignInInv, NEW v \in Visits, NEW p \in People, NEW typed \in Nat, Membership!login(v, p, typed)
  PROVE  VisitsMove
<1>1. PICK op \in Membership!VisitKind : op = "login"
  BY DEF Membership!VisitKind
<1>2. PICK pc \in Membership!VisitStep : /\ pc = IF s1[p].status = "active" /\ Membership!verify(typed, s1[p].password) THEN "session" ELSE "refused"
                                         /\ pc \in {"session", "refused"}
  BY DEF Membership!VisitStep
<1>3. s7[p] \in 0..MaxFailures /\ MaxFailures \in Nat
  BY SignInAssumption DEF Membership!SignInInv, Membership!SignInTypeOK
<1>4. s7[p] \in Nat /\ s7[p] < MaxFailures
  BY <1>3 DEF Membership!login, Membership!blocked
<1>5. PICK b : b = [Membership!Idle EXCEPT !.op = op, !.person = p, !.count = s7[p], !.pc = pc]
  OBVIOUS
<1>6. b \in Membership!Visit /\ b.state = Nobody /\ b.pc = pc /\ b.count = s7[p]
  BY <1>4, <1>5, IdleVisit DEF Membership!Visit
<1>7. Whole(b)
  BY <1>2, <1>4, <1>6 DEF Whole
<1>8. Membership!To(v, b)
  BY <1>1, <1>2, <1>5 DEF Membership!login
<1> QED BY <1>6, <1>7, <1>8, VisitMoves DEF Membership!To

\* The claims are verified, or the request ends.
LEMMA ClaimsVerified ==
  ASSUME Membership!SignInInv, NEW v \in Visits, NEW subject \in Subjects, NEW email \in People, NEW groups, NEW shown,
         NEW domainAllowed, NEW groupAllowed, Membership!verifyClaims(v, subject, email, groups, shown, domainAllowed, groupAllowed)
  PROVE  VisitsMove
<1>1. CASE Membership!To(v, [s8[v] EXCEPT !.pc = "resolve", !.subject = subject, !.person = email, !.role = Membership!mappedRole(groups)])
  <2>1. PICK pc \in Membership!VisitStep : pc = "resolve"
    BY DEF Membership!VisitStep
  <2>2. PICK role \in Membership!Role : role = Membership!mappedRole(groups)
    BY DEF Membership!mappedRole, Membership!Role
  <2>3. PICK b : b = [s8[v] EXCEPT !.pc = pc, !.subject = subject, !.person = email, !.role = role]
    OBVIOUS
  <2>4. b \in Membership!Visit /\ b.state = s8[v].state /\ b.pc = pc /\ b.subject = subject /\ b.person = email
    BY <2>3, VisitTypes DEF Membership!Visit
  <2>5. Whole(b)
    BY <2>1, <2>4 DEF Whole
  <2>6. Membership!To(v, b)
    BY <1>1, <2>1, <2>2, <2>3
  <2> QED BY <2>4, <2>5, <2>6, VisitMoves DEF Membership!To
<1>2. CASE Membership!Ends(v)
  BY <1>2, VisitEnds
<1> QED BY <1>1, <1>2 DEF Membership!verifyClaims

\* The person of the claims is found, or will be made, or the request ends.
LEMMA UserResolved ==
  ASSUME Membership!SignInInv, NEW v \in Visits, NEW auto \in BOOLEAN, Membership!resolveUser(v, auto)
  PROVE  VisitsMove
<1>1. PICK linking \in Membership!VisitStep, provisioning \in Membership!VisitStep : linking = "link" /\ provisioning = "provision"
  BY DEF Membership!VisitStep
<1>2. PICK p : p = IF s2[s8[v].subject] # Nobody THEN s2[s8[v].subject] ELSE s8[v].person
  OBVIOUS
<1>3. s8[v].pc = "resolve" /\ s8[v] \in Membership!Visit /\ Whole(s8[v])
  BY VisitTypes DEF Membership!resolveUser
<1>4. s8[v].subject \in Subjects /\ s8[v].person \in People
  BY <1>3 DEF Whole
<1>5. p \in People
  BY <1>2, <1>4 DEF Membership!SignInInv, Membership!SignInTypeOK
<1>6. \/ Membership!To(v, [s8[v] EXCEPT !.pc = linking, !.person = p])
      \/ Membership!To(v, [s8[v] EXCEPT !.pc = provisioning])
      \/ Membership!Ends(v)
  BY <1>1, <1>2 DEF Membership!resolveUser
<1>7. CASE Membership!To(v, [s8[v] EXCEPT !.pc = linking, !.person = p])
  <2>1. PICK b : b = [s8[v] EXCEPT !.pc = linking, !.person = p]
    OBVIOUS
  <2>2. b \in Membership!Visit /\ b.state = s8[v].state /\ b.pc = linking /\ b.person = p /\ b.subject = s8[v].subject
    BY <1>3, <1>5, <2>1 DEF Membership!Visit
  <2>3. Whole(b)
    BY <1>1, <1>4, <1>5, <2>2 DEF Whole
  <2> QED BY <1>7, <2>1, <2>2, <2>3, VisitMoves DEF Membership!To
<1>8. CASE Membership!To(v, [s8[v] EXCEPT !.pc = provisioning])
  BY <1>1, <1>3, <1>8, RequestMoves
<1>9. CASE Membership!Ends(v)
  BY <1>9, VisitEnds
<1> QED BY <1>6, <1>7, <1>8, <1>9

\* A new member is a user.
LEMMA MembersAreUsers ==
  ASSUME Membership!SignInInv, NEW p, NEW password \in 0..MaxPassword, NEW role \in Membership!Role, Membership!createUserWithMembership(p, password, role)
  PROVE  s1' \in [People -> Membership!AuthUser]
<1>1. PICK active \in Membership!UserStatus : active = "active"
  BY DEF Membership!UserStatus
<1>2. PICK b : b = [status |-> active, password |-> password, role |-> role]
  OBVIOUS
<1>3. b \in Membership!AuthUser
  BY <1>2 DEF Membership!AuthUser
<1>4. s1' = [s1 EXCEPT ![p] = b]
  BY <1>1, <1>2 DEF Membership!createUserWithMembership
<1> QED BY <1>3, <1>4 DEF Membership!SignInInv, Membership!SignInTypeOK

\* The fields of a user have their types.
LEMMA UserRow == ASSUME Membership!SignInInv, NEW p \in People
                 PROVE  s1[p] \in Membership!AuthUser /\ s1[p].password \in 0..MaxPassword /\ s1[p].role \in Membership!Role \cup {"none"}
<1>1. s1[p] \in Membership!AuthUser
  BY DEF Membership!SignInInv, Membership!SignInTypeOK
<1> QED BY <1>1 DEF Membership!AuthUser

\* A new password keeps the type of the users.
LEMMA PasswordUpdated ==
  ASSUME Membership!SignInInv, NEW v \in Visits, Membership!updatePassword(v)
  PROVE  s1' \in [People -> Membership!AuthUser]
<1>1. PICK p : p = s8[v].person
  OBVIOUS
<1>2. CASE p \in People
  <2>1. s1[p] \in Membership!AuthUser /\ s1[p].password \in Nat /\ s1[p].password < MaxPassword
    BY <1>1, <1>2, UserRow, SignInAssumption DEF Membership!updatePassword
  <2>2. PICK n \in 0..MaxPassword : n = s1[p].password + 1
    BY <2>1, SignInAssumption
  <2>3. PICK b : b = [s1[p] EXCEPT !.password = n]
    OBVIOUS
  <2>4. b \in Membership!AuthUser
    BY <2>1, <2>3 DEF Membership!AuthUser
  <2>5. s1' = [s1 EXCEPT ![p] = b]
    BY <1>1, <2>2, <2>3 DEF Membership!updatePassword
  <2> QED BY <2>4, <2>5 DEF Membership!SignInInv, Membership!SignInTypeOK
<1>3. CASE p \notin People
  <2>1. s1' = s1
    BY <1>1, <1>3 DEF Membership!updatePassword, Membership!SignInInv, Membership!SignInTypeOK
  <2> QED BY <2>1, UserRows
<1> QED BY <1>2, <1>3

\* So does another role.
LEMMA RoleUpdated ==
  ASSUME Membership!SignInInv, NEW v \in Visits, Membership!updateMembershipRole(v)
  PROVE  s1' \in [People -> Membership!AuthUser]
<1>4. s8[v] \in Membership!Visit
  BY VisitTypes
<1>1. PICK p \in People \cup {Nobody}, role \in Membership!Role : p = s8[v].person /\ role = s8[v].role
  BY <1>4 DEF Membership!Visit
<1>2. CASE p \in People
  <2>1. PICK b : b = [s1[p] EXCEPT !.role = role]
    OBVIOUS
  <2>2. b \in Membership!AuthUser
    BY <1>2, <2>1, UserRow DEF Membership!AuthUser
  <2>3. s1' = [s1 EXCEPT ![p] = b]
    BY <1>1, <2>1 DEF Membership!updateMembershipRole
  <2> QED BY <2>2, <2>3 DEF Membership!SignInInv, Membership!SignInTypeOK
<1>3. CASE p \notin People
  <2>1. s1' = s1
    BY <1>1, <1>3 DEF Membership!updateMembershipRole, Membership!SignInInv, Membership!SignInTypeOK
  <2> QED BY <2>1, UserRows
<1> QED BY <1>2, <1>3

\* The fields of an invitation have their types, and it is addressed once it was sent.
LEMMA InvitationRow ==
  ASSUME Membership!SignInInv, NEW i \in Invites
  PROVE  /\ s3[i] \in Membership!WorkspaceInvitation /\ s3[i].token \in 0..MaxToken
         /\ s3[i].email \in People \cup {Nobody} /\ s3[i].role \in Membership!Role
         /\ (s3[i].status # "none" => s3[i].email \in People)
<1>1. s3[i] \in Membership!WorkspaceInvitation
  BY DEF Membership!SignInInv, Membership!SignInTypeOK
<1> QED BY <1>1 DEF Membership!WorkspaceInvitation, Membership!SignInInv, Membership!InvitationsAreAddressed

\* One invitation that is not accepted may be written.
LEMMA OneInvitation ==
  ASSUME Membership!SignInInv, NEW i \in Invites, s3[i].status # "accepted", NEW b \in Membership!WorkspaceInvitation, b.email \in People,
         s3' = [s3 EXCEPT ![i] = b]
  PROVE  InvitationsMove
<1>1. s3 \in [Invites -> Membership!WorkspaceInvitation] /\ \A j \in Invites : s3[j].status # "none" => s3[j].email \in People
  BY DEF Membership!SignInInv, Membership!SignInTypeOK, Membership!InvitationsAreAddressed
<1> QED BY <1>1 DEF InvitationsMove

\* Its status may change.
LEMMA StatusChanges ==
  ASSUME Membership!SignInInv, NEW i \in Invites, s3[i].status \notin {"none", "accepted"}, NEW status \in Membership!InvitationStatus,
         s3' = [s3 EXCEPT ![i].status = status]
  PROVE  InvitationsMove
<1>1. PICK b : b = [s3[i] EXCEPT !.status = status]
  OBVIOUS
<1>2. b \in Membership!WorkspaceInvitation /\ b.email = s3[i].email
  BY <1>1, InvitationRow DEF Membership!WorkspaceInvitation
<1>3. s3' = [s3 EXCEPT ![i] = b] /\ s3[i].email \in People
  BY <1>1, InvitationRow
<1> QED BY <1>2, <1>3, OneInvitation

\* A new invitation leaves the accepted ones alone.
LEMMA InvitationCreated ==
  ASSUME Membership!SignInInv, NEW v \in Visits, NEW p, NEW session, NEW i \in Invites, NEW other \in People, NEW role \in Membership!GivenRoles,
         Membership!createInvitation(v, p, session, i, other, role)
  PROVE  InvitationsMove
<1>1. PICK pending \in Membership!InvitationStatus, expired \in Membership!InvitationStatus, r \in Membership!Role : pending = "pending" /\ expired = "expired" /\ r = role
  BY DEF Membership!InvitationStatus, Membership!GivenRoles, Membership!Role
<1>2. PICK one \in 0..MaxToken : one = 1
  BY SignInAssumption
<1>3. PICK new : new = [email |-> other, role |-> r, status |-> pending, token |-> one]
  OBVIOUS
<1>4. new \in Membership!WorkspaceInvitation /\ new.email = other
  BY <1>3 DEF Membership!WorkspaceInvitation
<1>5. s3' = [j \in Invites |->
       IF j = i THEN new
       ELSE IF s3[j].email = other /\ s3[j].status = "overdue"
              THEN [s3[j] EXCEPT !.status = expired] ELSE s3[j]]
  BY <1>1, <1>2, <1>3 DEF Membership!createInvitation
<1>6. ASSUME NEW j \in Invites
      PROVE  /\ [s3[j] EXCEPT !.status = expired] \in Membership!WorkspaceInvitation
             /\ [s3[j] EXCEPT !.status = expired].email = s3[j].email
  <2>1. PICK b : b = [s3[j] EXCEPT !.status = expired]
    OBVIOUS
  <2>2. b \in Membership!WorkspaceInvitation /\ b.email = s3[j].email
    BY <2>1, InvitationRow DEF Membership!WorkspaceInvitation
  <2> QED BY <2>1, <2>2
<1>7. \A j \in Invites : s3'[j] \in Membership!WorkspaceInvitation
  BY <1>4, <1>5, <1>6, InvitationRow
<1>8. s3' \in [Invites -> Membership!WorkspaceInvitation]
  BY <1>5, <1>7
<1>9. \A j \in Invites : s3[j].status = "accepted" => s3'[j] = s3[j]
  BY <1>5 DEF Membership!createInvitation
<1>10. \A j \in Invites : s3'[j].status # "none" => s3'[j].email \in People
  <2> SUFFICES ASSUME NEW j \in Invites, s3'[j].status # "none" PROVE s3'[j].email \in People
    OBVIOUS
  <2>1. CASE j = i
    BY <1>4, <1>5, <2>1
  <2>2. CASE j # i /\ s3[j].email = other /\ s3[j].status = "overdue"
    BY <1>5, <1>6, <2>2
  <2>3. CASE j # i /\ ~ (s3[j].email = other /\ s3[j].status = "overdue")
    BY <1>5, <2>3, InvitationRow
  <2> QED BY <2>1, <2>2, <2>3
<1> QED BY <1>8, <1>9, <1>10 DEF InvitationsMove

\* So does one that is sent again.
LEMMA InvitationResent ==
  ASSUME Membership!SignInInv, NEW v, NEW p, NEW session, NEW i \in Invites, Membership!resendInvitation(v, p, session, i)
  PROVE  InvitationsMove
<1>1. PICK pending \in Membership!InvitationStatus : pending = "pending"
  BY DEF Membership!InvitationStatus
<1>2. PICK n \in 0..MaxToken : n = s3[i].token + 1
  BY InvitationRow, SignInAssumption DEF Membership!resendInvitation
<1>3. PICK b : b = [s3[i] EXCEPT !.status = pending, !.token = n]
  OBVIOUS
<1>4. b \in Membership!WorkspaceInvitation /\ b.email = s3[i].email
  BY <1>3, InvitationRow DEF Membership!WorkspaceInvitation
<1>5. s3' = [s3 EXCEPT ![i] = b]
  BY <1>1, <1>2, <1>3 DEF Membership!resendInvitation
<1>6. s3[i].status # "accepted" /\ s3[i].email \in People
  BY InvitationRow DEF Membership!resendInvitation
<1> QED BY <1>4, <1>5, <1>6, OneInvitation

\* A step that writes requests and invitations only, and accepts none, keeps the invariant.
LEMMA InvitationsMovedOnly ==
  ASSUME Membership!SignInInv, VisitsMove, InvitationsMove, UNCHANGED Membership!Invited PROVE Membership!SignInInv'
<1>1. /\ s1' \in [People -> Membership!AuthUser] /\ s2' \in [Subjects -> People \cup {Nobody}]
      /\ s4' \in [LoginStates -> Membership!OidcLoginState] /\ s6' \in Nat /\ s7' \in [People -> 0..MaxFailures]
      /\ s9' \subseteq Invites \X People \X (1..MaxToken) /\ SessionsMove
  BY SessionsStand DEF Membership!SignInInv, Membership!SignInTypeOK, Membership!Invited
<1>2. s4' = s4 /\ s9' = s9
  BY DEF Membership!Invited
<1> QED BY <1>1, <1>2, SignInKept DEF InvitationsMove

\* The transaction that admits a person keeps the invariant: the invitation it admits by was pending with this
\* token.
LEMMA Admitted == ASSUME Membership!SignInInv, NEW v \in Visits, Membership!admit(v) PROVE Membership!SignInInv'
<1>1. PICK i, p, token : i = s8[v].invite /\ p = s8[v].person /\ token = s8[v].token
  OBVIOUS
<1>2. s8[v] \in Membership!Visit /\ Whole(s8[v]) /\ s8[v].pc = "accepting"
  BY VisitTypes DEF Membership!admit
<1>3. i \in Invites /\ p \in People /\ token \in 1..MaxToken
  BY <1>1, <1>2 DEF Whole
<1>4. /\ s3[i].status = "pending" /\ s3[i].token = token /\ p = s3[i].email
      /\ s3' = [s3 EXCEPT ![i].status = "accepted"] /\ s9' = s9 \cup {<<i, p, token>>}
      /\ UNCHANGED <<s2, s4, s5, s6, s7>>
  BY <1>1 DEF Membership!admit, Membership!acceptWorkspaceInvitation
<1>5. PICK accepted \in Membership!InvitationStatus : accepted = "accepted"
  BY DEF Membership!InvitationStatus
<1>6. s3' = [s3 EXCEPT ![i].status = accepted]
  BY <1>4, <1>5
<1>7. InvitationsMove
  BY <1>3, <1>4, <1>6, StatusChanges
<1>8. s3'[i].status = "accepted" /\ s3'[i].email = p /\ s3'[i].token = token
  <2>1. PICK b : b = [s3[i] EXCEPT !.status = accepted]
    OBVIOUS
  <2>2. b.status = accepted /\ b.email = s3[i].email /\ b.token = s3[i].token
    BY <1>3, <2>1, InvitationRow DEF Membership!WorkspaceInvitation
  <2>3. s3' = [s3 EXCEPT ![i] = b] /\ s3 \in [Invites -> Membership!WorkspaceInvitation]
    BY <1>6, <2>1 DEF Membership!SignInInv, Membership!SignInTypeOK
  <2> QED BY <1>3, <1>4, <1>5, <2>2, <2>3
<1>9. s1' \in [People -> Membership!AuthUser]
  <2>1. PICK password \in 0..MaxPassword : password = IF s8[v].op = "register" THEN 1 ELSE s1[p].password
    BY <1>3, UserRow, SignInAssumption
  <2>2. Membership!createUserWithMembership(p, password, s3[i].role)
    BY <1>1, <2>1 DEF Membership!admit
  <2> QED BY <1>3, <2>2, InvitationRow, MembersAreUsers
<1>10. VisitsMove
  <2>1. PICK session \in Membership!VisitStep : session = "session"
    BY DEF Membership!VisitStep
  <2>2. Membership!To(v, [s8[v] EXCEPT !.pc = session]) \/ Membership!Ends(v)
    BY <2>1 DEF Membership!admit
  <2> QED BY <2>1, <2>2, RequestMoves, VisitEnds
<1>11. SessionsMove
  BY <1>4, SessionsStand
<1>12. /\ s2' \in [Subjects -> People \cup {Nobody}] /\ s4' \in [LoginStates -> Membership!OidcLoginState]
       /\ s6' \in Nat /\ s7' \in [People -> 0..MaxFailures]
       /\ s9 \subseteq Invites \X People \X (1..MaxToken)
  BY <1>4 DEF Membership!SignInInv, Membership!SignInTypeOK
<1>13. s9' \subseteq Invites \X People \X (1..MaxToken)
  BY <1>3, <1>4, <1>12
<1>14. \A a \in s9' \ s9 : LET k == s3'[a[1]] IN k.status = "accepted" /\ k.email = a[2] /\ k.token = a[3]
  BY <1>4, <1>8
<1> QED BY <1>4, <1>7, <1>9, <1>10, <1>11, <1>12, <1>13, <1>14, SignInKept DEF InvitationsMove

\* A callback keeps the invariant: the state it takes was open, so no request and no session has it.
LEMMA StateConsumed ==
  ASSUME Membership!SignInInv, NEW v \in Visits, NEW s \in LoginStates, Membership!callback(v, s)
  PROVE  Membership!SignInInv'
<1>1. PICK claims \in Membership!VisitStep, op \in Membership!VisitKind : claims = "claims" /\ op = "oidc"
  BY DEF Membership!VisitStep, Membership!VisitKind
<1>2. PICK b : b = [Membership!Idle EXCEPT !.pc = claims, !.op = op, !.state = s]
  OBVIOUS
<1>3. b \in Membership!Visit /\ b.state = s /\ b.pc = claims
  BY <1>2, IdleVisit DEF Membership!Visit
<1>4. s8 \in [Visits -> Membership!Visit] /\ s4 \in [LoginStates -> Membership!OidcLoginState]
  BY DEF Membership!SignInInv, Membership!SignInTypeOK
<1>5. s8' = [s8 EXCEPT ![v] = b]
  BY <1>1, <1>2 DEF Membership!callback, Membership!To
<1>6. /\ s4[s] = "open" /\ s4' = [s4 EXCEPT ![s] = "consumed"]
      /\ UNCHANGED <<s1, s2, s3, s5, s6, s7, s9>>
  BY DEF Membership!callback, Membership!consumeOidcLoginState
<1>7. s8' \in [Visits -> Membership!Visit] /\ s8'[v] = b /\ \A w \in Visits \ {v} : s8'[w] = s8[w]
  BY <1>3, <1>4, <1>5
<1>8. s4' \in [LoginStates -> Membership!OidcLoginState] /\ s4'[s] = "consumed" /\ \A t \in LoginStates \ {s} : s4'[t] = s4[t]
  BY <1>4, <1>6 DEF Membership!OidcLoginState
<1>9. \A w \in Visits : s8[w].state # Nobody => s8[w].state \in LoginStates /\ s8[w].state # s /\ s4[s8[w].state] = "consumed"
  BY <1>6, VisitState DEF Membership!SignInInv, Membership!StatesAreHeldOnce
<1>10. \A p \in People : \A n \in DOMAIN s5[p] : s5[p][n].via # Nobody =>
         /\ s5[p][n].via \in LoginStates /\ s5[p][n].via # s /\ s4[s5[p][n].via] = "consumed"
         /\ \A w \in Visits : s8[w].state # s5[p][n].via
  BY <1>6, SessionVia DEF Membership!SignInInv, Membership!StatesAreHeldOnce
<1>11. Membership!SignInTypeOK'
  <2>1. Membership!SignInTypeOK
    BY DEF Membership!SignInInv
  <2> QED BY <1>6, <1>7, <1>8, <2>1 DEF Membership!SignInTypeOK
<1>12. Membership!VisitsAreWhole'
  <2>1. \A w \in Visits : Whole(s8'[w])
    BY <1>1, <1>3, <1>7, VisitTypes DEF Whole
  <2> QED BY <2>1 DEF Membership!VisitsAreWhole, Whole
<1>13. Membership!StatesAreHeldOnce'
  <2>1. \A w \in Visits : s8'[w].state # Nobody => s4'[s8'[w].state] = "consumed"
    BY <1>3, <1>7, <1>8, <1>9
  <2>2. \A w, x \in Visits : s8'[w].state = s8'[x].state /\ s8'[w].state # Nobody => w = x
    <3>1. \A w, x \in Visits : s8[w].state = s8[x].state /\ s8[w].state # Nobody => w = x
      BY DEF Membership!SignInInv, Membership!StatesAreHeldOnce
    <3> QED BY <1>3, <1>7, <1>9, <3>1, SignInAssumption
  <2>3. \A p \in People : \A n \in DOMAIN s5'[p] : s5'[p][n].via # Nobody =>
          s4'[s5'[p][n].via] = "consumed" /\ \A w \in Visits : s8'[w].state # s5'[p][n].via
    BY <1>3, <1>6, <1>7, <1>8, <1>10
  <2> QED BY <2>1, <2>2, <2>3 DEF Membership!StatesAreHeldOnce
<1>14. Membership!LoginStateUsedOnce' /\ Membership!InvitationAdmitsItsPerson' /\ Membership!InvitationsAreAddressed'
  <2>1. Membership!LoginStateUsedOnce /\ Membership!InvitationAdmitsItsPerson /\ Membership!InvitationsAreAddressed /\ UNCHANGED <<s5, s9, s3>>
    BY <1>6 DEF Membership!SignInInv
  <2> QED BY <2>1 DEF Membership!LoginStateUsedOnce, Membership!InvitationAdmitsItsPerson,
     Membership!InvitationsAreAddressed
<1> QED BY <1>11, <1>12, <1>13, <1>14 DEF Membership!SignInInv

\* A new session is the last, and the ones that are kept move to the front together.
LEMMA SessionCreated ==
  ASSUME Membership!SignInInv, NEW p \in People, NEW state \in LoginStates \cup {Nobody}, s5' = Membership!createSession(p, state)
  PROVE  /\ s5' \in [People -> Seq(Membership!AuthSession)]
         /\ \A q \in People \ {p} : s5'[q] = s5[q]
         /\ \E shift \in Nat : \A n \in DOMAIN s5'[p] :
              \/ n + shift \in DOMAIN s5[p] /\ s5'[p][n].via = s5[p][n + shift].via
              \/ n + shift = Len(s5[p]) + 1 /\ s5'[p][n].via = state
<1>1. s5 \in [People -> Seq(Membership!AuthSession)] /\ s6 \in Nat
  BY DEF Membership!SignInInv, Membership!SignInTypeOK
<1>2. PICK s \in Seq(Membership!AuthSession) : s = s5[p]
  BY <1>1
<1>3. PICK id \in Nat : id = s6 + 1
  BY <1>1
<1>4. PICK new : new = [id |-> id, live |-> TRUE, via |-> state]
  OBVIOUS
<1>5. new \in Membership!AuthSession /\ new.via = state
  BY <1>4 DEF Membership!AuthSession
<1>6. PICK all : all = Append(s, new)
  OBVIOUS
<1>7. /\ all \in Seq(Membership!AuthSession) /\ Len(all) = Len(s) + 1 /\ Len(s) \in Nat /\ all[Len(s) + 1] = new
      /\ \A k \in 1..Len(s) : all[k] = s[k]
  BY <1>2, <1>5, <1>6
<1>8. PICK first \in 1..(Len(all) + 1) : first = IF Len(all) > MaxSessions THEN Len(all) - MaxSessions + 1 ELSE 1
  BY <1>7, SignInAssumption
<1>9. PICK kept : kept = SubSeq(all, first, Len(all))
  OBVIOUS
<1>10. /\ kept \in Seq(Membership!AuthSession) /\ Len(kept) = Len(all) - first + 1
       /\ \A k \in 1..Len(kept) : kept[k] = all[first + k - 1]
  <2>1. \A k \in first..Len(all) : all[k] \in Membership!AuthSession
    BY <1>7, <1>8
  <2>2. first \in Int /\ Len(all) \in Int /\ first <= Len(all) + 1
    BY <1>7, <1>8
  <2>3. /\ kept \in Seq(Membership!AuthSession)
        /\ Len(kept) = IF first <= Len(all) THEN Len(all) - first + 1 ELSE 0
        /\ \A k \in 1..(Len(all) - first + 1) : kept[k] = all[first + k - 1]
    BY <1>9, <2>1, <2>2, SubSeqProperties
  <2>4. Len(kept) = Len(all) - first + 1
    BY <2>2, <2>3
  <2> QED BY <2>3, <2>4
<1>11. s5' = [s5 EXCEPT ![p] = kept]
  BY <1>2, <1>3, <1>4, <1>6, <1>8, <1>9 DEF Membership!createSession
<1>12. s5' \in [People -> Seq(Membership!AuthSession)] /\ s5'[p] = kept /\ \A q \in People \ {p} : s5'[q] = s5[q]
  BY <1>1, <1>10, <1>11
<1>13. PICK shift \in Nat : shift = first - 1
  BY <1>7, <1>8
<1>14. ASSUME NEW n \in 1..Len(kept)
       PROVE  \/ n + shift \in 1..Len(s) /\ kept[n].via = s[n + shift].via
              \/ n + shift = Len(s) + 1 /\ kept[n].via = state
  <2>2. Len(all) \in Nat /\ first \in Nat /\ Len(kept) = Len(all) - first + 1 /\ shift = first - 1
    BY <1>7, <1>8, <1>10, <1>13
  <2>3. first + n - 1 = n + shift /\ n + shift \in 1..Len(all)
    BY <1>8, <2>2
  <2>1. kept[n] = all[n + shift] /\ n + shift \in 1..Len(all)
    BY <1>10, <2>3
  <2> QED BY <1>5, <1>7, <2>1
<1>15. DOMAIN kept = 1..Len(kept) /\ DOMAIN s = 1..Len(s)
  BY <1>2, <1>10
<1> QED BY <1>2, <1>12, <1>13, <1>14, <1>15

\* A count of failures up to the limit keeps the type of the counts.
LEMMA FailureCounts ==
  ASSUME Membership!SignInInv, NEW p, NEW n \in 0..MaxFailures, s7' = [s7 EXCEPT ![p] = n]
  PROVE  s7' \in [People -> 0..MaxFailures]
  BY DEF Membership!SignInInv, Membership!SignInTypeOK

\* So does a count that begins anew.
LEMMA FailuresCleared ==
  ASSUME Membership!SignInInv, NEW p, s7' = s7 \/ s7' = [s7 EXCEPT ![p] = 0]
  PROVE  s7' \in [People -> 0..MaxFailures]
<1>1. 0 \in 0..MaxFailures
  BY SignInAssumption
<1> QED BY <1>1, FailureCounts DEF Membership!SignInInv, Membership!SignInTypeOK

\* A new session keeps the invariant: its request gives up the sign-in state the session came by.
LEMMA SessionMade ==
  ASSUME Membership!SignInInv, NEW v \in Visits, Membership!createSessionForUser(v)
  PROVE  Membership!SignInInv'
<1>1. PICK p, state : p = s8[v].person /\ state = s8[v].state
  OBVIOUS
<1>2. /\ s5' = Membership!createSession(p, state) /\ s6' = s6 + 1 /\ Membership!Ends(v)
      /\ s7' = s7 \/ s7' = [s7 EXCEPT ![p] = 0]
      /\ UNCHANGED <<s1, s2, s3, s4, s9>>
  BY <1>1 DEF Membership!createSessionForUser
<1>3. state \in LoginStates \cup {Nobody}
  BY <1>1, VisitState
<1>4. s7' \in [People -> 0..MaxFailures]
  BY <1>2, FailuresCleared
<1>5. VisitsMove
  BY <1>2, VisitEnds
<1>6. s1 \in [People -> Membership!AuthUser] /\ s2 \in [Subjects -> People \cup {Nobody}]
      /\ s3 \in [Invites -> Membership!WorkspaceInvitation] /\ s4 \in [LoginStates -> Membership!OidcLoginState] /\ s6' \in Nat
      /\ s9 \subseteq Invites \X People \X (1..MaxToken) /\ s5 \in [People -> Seq(Membership!AuthSession)]
      /\ s8 \in [Visits -> Membership!Visit]
  BY <1>2 DEF Membership!SignInInv, Membership!SignInTypeOK
<1>9. \A i \in Invites : s3[i].status # "none" => s3[i].email \in People
  BY DEF Membership!SignInInv, Membership!InvitationsAreAddressed
<1>7. CASE p \notin People
  <2>1. s5' = s5
    BY <1>2, <1>6, <1>7 DEF Membership!createSession
  <2> QED BY <1>2, <1>4, <1>5, <1>6, <1>9, <2>1, SessionsStand, SignInKept
<1>8. CASE p \in People
  <2>1. /\ s5' \in [People -> Seq(Membership!AuthSession)]
        /\ \A q \in People \ {p} : s5'[q] = s5[q]
        /\ \E shift \in Nat : \A n \in DOMAIN s5'[p] :
              \/ n + shift \in DOMAIN s5[p] /\ s5'[p][n].via = s5[p][n + shift].via
              \/ n + shift = Len(s5[p]) + 1 /\ s5'[p][n].via = state
    BY <1>2, <1>3, <1>8, SessionCreated
  <2>2. PICK shift \in Nat : \A n \in DOMAIN s5'[p] :
              \/ n + shift \in DOMAIN s5[p] /\ s5'[p][n].via = s5[p][n + shift].via
              \/ n + shift = Len(s5[p]) + 1 /\ s5'[p][n].via = state
    BY <2>1
  <2>3. s8'[v].state = Nobody /\ \A w \in Visits \ {v} : s8'[w] = s8[w]
    BY <1>2, <1>6, IdleVisit DEF Membership!Ends
  <2>4. /\ \A w \in Visits : s8[w].state # Nobody => s4[s8[w].state] = "consumed"
        /\ \A w, x \in Visits : s8[w].state = s8[x].state /\ s8[w].state # Nobody => w = x
        /\ \A q \in People : \A n \in DOMAIN s5[q] : s5[q][n].via # Nobody =>
             s4[s5[q][n].via] = "consumed" /\ \A w \in Visits : s8[w].state # s5[q][n].via
        /\ \A q, r \in People : \A m \in DOMAIN s5[q], n \in DOMAIN s5[r] :
             s5[q][m].via # Nobody /\ s5[q][m].via = s5[r][n].via => q = r /\ m = n
    BY DEF Membership!SignInInv, Membership!StatesAreHeldOnce, Membership!LoginStateUsedOnce
  <2>5. Membership!SignInTypeOK'
    BY <1>2, <1>4, <1>5, <1>6, <2>1 DEF Membership!SignInTypeOK, VisitsMove
  <2>6. Membership!VisitsAreWhole'
    BY <1>5 DEF VisitsMove, Membership!VisitsAreWhole, Whole
  \* A session after the step is the new one, or one of before at another place.
  <2>7. ASSUME NEW q \in People, NEW n \in DOMAIN s5'[q]
        PROVE  \/ q = p /\ n + shift = Len(s5[p]) + 1 /\ s5'[q][n].via = state
               \/ q = p /\ n + shift \in DOMAIN s5[q] /\ s5'[q][n].via = s5[q][n + shift].via
               \/ q # p /\ n \in DOMAIN s5[q] /\ s5'[q][n].via = s5[q][n].via
    <3>1. CASE q = p
      <4>1. n \in DOMAIN s5'[p] /\ s5'[q][n] = s5'[p][n] /\ s5[q] = s5[p]
        BY <3>1
      <4>2. CASE n + shift \in DOMAIN s5[p] /\ s5'[p][n].via = s5[p][n + shift].via
        BY <3>1, <4>1, <4>2
      <4>3. CASE n + shift = Len(s5[p]) + 1 /\ s5'[p][n].via = state
        BY <3>1, <4>1, <4>3
      <4> QED BY <2>2, <4>1, <4>2, <4>3
    <3>2. CASE q # p
      <4>1. s5'[q] = s5[q]
        BY <2>1, <3>2
      <4> QED BY <3>2, <4>1
    <3> QED BY <3>1, <3>2
  <2>8. Membership!StatesAreHeldOnce'
    <3>1. \A w \in Visits : s8'[w].state # Nobody => s4'[s8'[w].state] = "consumed"
      BY <1>2, <2>3, <2>4
    <3>2. \A w, x \in Visits : s8'[w].state = s8'[x].state /\ s8'[w].state # Nobody => w = x
      BY <2>3, <2>4
    <3>3. ASSUME NEW q \in People, NEW n \in DOMAIN s5'[q], s5'[q][n].via # Nobody
          PROVE  s4'[s5'[q][n].via] = "consumed" /\ \A w \in Visits : s8'[w].state # s5'[q][n].via
      <4>1. CASE s5'[q][n].via = state
        BY <1>1, <1>2, <2>3, <2>4, <3>3, <4>1
      <4>2. CASE \E m \in DOMAIN s5[q] : s5'[q][n].via = s5[q][m].via
        <5>1. PICK m \in DOMAIN s5[q] : s5'[q][n].via = s5[q][m].via
          BY <4>2
        <5>2. /\ s4[s5[q][m].via] = "consumed" /\ \A w \in Visits : s8[w].state # s5[q][m].via
          BY <2>4, <3>3, <5>1
        <5> QED BY <1>2, <2>3, <3>3, <5>1, <5>2
      <4>3. CASE n + shift \in DOMAIN s5[q] /\ s5'[q][n].via = s5[q][n + shift].via
        BY <4>2, <4>3
      <4>4. CASE n \in DOMAIN s5[q] /\ s5'[q][n].via = s5[q][n].via
        BY <4>2, <4>4
      <4> QED BY <2>7, <4>1, <4>3, <4>4
    <3> QED BY <3>1, <3>2, <3>3 DEF Membership!StatesAreHeldOnce
  <2>9. Membership!LoginStateUsedOnce'
    <3> SUFFICES ASSUME NEW q \in People, NEW r \in People, NEW m \in DOMAIN s5'[q], NEW n \in DOMAIN s5'[r],
                        s5'[q][m].via # Nobody, s5'[q][m].via = s5'[r][n].via
                 PROVE  q = r /\ m = n
      BY DEF Membership!LoginStateUsedOnce
    <3>0. m \in Nat /\ n \in Nat
      <4>1. s5'[q] \in Seq(Membership!AuthSession) /\ s5'[r] \in Seq(Membership!AuthSession)
        BY <2>1
      <4> QED BY <4>1
    <3>1. \A s \in People : \A k \in DOMAIN s5[s] : state # Nobody => s5[s][k].via # state
      BY <1>1, <2>4
    <3>2. CASE s5'[q][m].via = state
      <4>0. state # Nobody /\ s5'[r][n].via = state
        BY <3>2
      <4>1. q = p /\ m + shift = Len(s5[p]) + 1
        <5>1. \A k \in DOMAIN s5[q] : s5'[q][m].via # s5[q][k].via
          BY <3>1, <3>2, <4>0
        <5> QED BY <2>7, <5>1
      <4>2. r = p /\ n + shift = Len(s5[p]) + 1
        <5>1. \A k \in DOMAIN s5[r] : s5'[r][n].via # s5[r][k].via
          BY <3>1, <4>0
        <5> QED BY <2>7, <5>1
      <4> QED BY <3>0, <4>1, <4>2
    <3>3. CASE s5'[q][m].via # state
      <4>1. PICK a \in DOMAIN s5[q] : ((q = p /\ a = m + shift) \/ (q # p /\ a = m)) /\ s5'[q][m].via = s5[q][a].via
        BY <2>7, <3>3
      <4>2. PICK b \in DOMAIN s5[r] : ((r = p /\ b = n + shift) \/ (r # p /\ b = n)) /\ s5'[r][n].via = s5[r][b].via
        BY <2>7, <3>3
      <4>3. s5[q][a].via # Nobody /\ s5[q][a].via = s5[r][b].via
        BY <4>1, <4>2
      <4>4. Membership!LoginStateUsedOnce
        BY DEF Membership!SignInInv
      <4>5. q = r /\ a = b
        BY <4>3, <4>4 DEF Membership!LoginStateUsedOnce
      <4> QED BY <3>0, <4>1, <4>2, <4>5
    <3> QED BY <3>2, <3>3
  <2>10. Membership!InvitationAdmitsItsPerson' /\ Membership!InvitationsAreAddressed'
    BY <1>2 DEF Membership!SignInInv, Membership!InvitationAdmitsItsPerson, Membership!InvitationsAreAddressed
  <2> QED BY <2>5, <2>6, <2>8, <2>9, <2>10 DEF Membership!SignInInv
<1> QED BY <1>7, <1>8

\* A failed sign-in is counted up to the limit: the request began below it.
LEMMA FailureCounted ==
  ASSUME Membership!SignInInv, NEW v \in Visits, Membership!loginFails(v)
  PROVE  s7' \in [People -> 0..MaxFailures]
<1>1. s8[v] \in Membership!Visit /\ s8[v].count < MaxFailures
  BY VisitTypes DEF Membership!loginFails, Whole
<1>2. s8[v].count \in Nat
  BY <1>1 DEF Membership!Visit
<1>3. PICK n \in 0..MaxFailures : n = s8[v].count + 1
  BY <1>1, <1>2, SignInAssumption
<1>4. s7' = [s7 EXCEPT ![s8[v].person] = n]
  BY <1>3 DEF Membership!loginFails
<1> QED BY <1>4, FailureCounts

\* A linked identity belongs to a person.
LEMMA Linked ==
  ASSUME Membership!SignInInv, NEW v \in Visits, Membership!link(v) \/ Membership!createOidcUserWithMembership(v)
  PROVE  s2' \in [Subjects -> People \cup {Nobody}]
<1>1. s8[v].subject \in Subjects /\ s8[v].person \in People
  BY VisitTypes DEF Whole, Membership!link, Membership!createOidcUserWithMembership
<1>2. s2' = [s2 EXCEPT ![s8[v].subject] = s8[v].person]
  BY DEF Membership!link, Membership!createOidcUserWithMembership
<1> QED BY <1>1, <1>2 DEF Membership!SignInInv, Membership!SignInTypeOK

\* A user made from claims is a user.
LEMMA OidcUserMade ==
  ASSUME Membership!SignInInv, NEW v \in Visits, Membership!createOidcUserWithMembership(v) PROVE s1' \in [People -> Membership!AuthUser]
<1>1. s8[v] \in Membership!Visit
  BY VisitTypes
<1>2. s8[v].role \in Membership!Role
  BY <1>1 DEF Membership!Visit
<1>3. PICK zero \in 0..MaxPassword : zero = 0
  BY SignInAssumption
<1>4. Membership!createUserWithMembership(s8[v].person, zero, s8[v].role)
  BY <1>3 DEF Membership!createOidcUserWithMembership
<1> QED BY <1>2, <1>4, MembersAreUsers

\* A step that writes no invitation, sign-in state or session keeps the invariant.
LEMMA IdentityMoves ==
  ASSUME Membership!SignInInv, VisitsMove, UNCHANGED <<s3, s4, s5, s6, s9>>,
         s1' \in [People -> Membership!AuthUser], s2' \in [Subjects -> People \cup {Nobody}], s7' \in [People -> 0..MaxFailures]
  PROVE  Membership!SignInInv'
<1>1. /\ s3' \in [Invites -> Membership!WorkspaceInvitation] /\ s4' \in [LoginStates -> Membership!OidcLoginState] /\ s6' \in Nat
      /\ s9' \subseteq Invites \X People \X (1..MaxToken)
  BY DEF Membership!SignInInv, Membership!SignInTypeOK
<1>2. \A i \in Invites : s3[i].status # "none" => s3[i].email \in People
  BY DEF Membership!SignInInv, Membership!InvitationsAreAddressed
<1> QED BY <1>1, <1>2, SessionsStand, SignInKept

\* Identities nobody writes keep their type.
LEMMA IdentitiesStand == ASSUME Membership!SignInInv, UNCHANGED s2 PROVE s2' \in [Subjects -> People \cup {Nobody}]
  BY DEF Membership!SignInInv, Membership!SignInTypeOK

\* Counts nobody writes keep their type.
LEMMA FailuresStand == ASSUME Membership!SignInInv, UNCHANGED s7 PROVE s7' \in [People -> 0..MaxFailures]
  BY DEF Membership!SignInInv, Membership!SignInTypeOK

\* What a signed-in person does keeps the invariant.
LEMMA Managed ==
  ASSUME Membership!SignInInv, NEW v \in Visits, NEW p \in People, NEW session \in 0..s6, Membership!Manage(v, p, session)
  PROVE  Membership!SignInInv'
<1>1. session \in Nat /\ s6 \in Nat
  BY DEF Membership!SignInInv, Membership!SignInTypeOK
<1>2. CASE Membership!logout(v, p, session)
  <2>1. SessionsMove
    BY <1>2, SessionsRevoked DEF Membership!logout
  <2>2. VisitsMove
    BY <1>2, VisitEnds DEF Membership!logout
  <2> QED BY <1>2, <2>1, <2>2, UserRows, OnlyVisitsMove DEF Membership!logout
<1>3. CASE Membership!changePassword(v, p, session)
  BY <1>1, <1>3, PasswordAsked, UserRows, SessionsStand, OnlyVisitsMove DEF Membership!changePassword
<1>4. ASSUME NEW other \in People, NEW role \in Membership!GivenRoles, Membership!updateRole(v, p, session, other, role) PROVE Membership!SignInInv'
  BY <1>1, <1>4, RoleAsked, UserRows, SessionsStand, OnlyVisitsMove DEF Membership!updateRole
<1>5. ASSUME NEW other \in People, NEW role \in Membership!GivenRoles, Membership!createMember(v, p, session, other, role) PROVE Membership!SignInInv'
  <2>1. PICK one \in 0..MaxPassword : one = 1
    BY SignInAssumption
  <2>2. Membership!createUserWithMembership(other, one, role) /\ role \in Membership!Role
    BY <1>5, <2>1 DEF Membership!createMember, Membership!GivenRoles, Membership!Role
  <2> QED BY <1>5, <2>2, MembersAreUsers, VisitEnds, SessionsStand, OnlyVisitsMove DEF Membership!createMember
<1>6. ASSUME NEW other \in People, NEW role \in Membership!GivenRoles, NEW i \in Invites, Membership!createInvitation(v, p, session, i, other, role) PROVE Membership!SignInInv'
  <2>1. Membership!Ends(v) /\ UNCHANGED Membership!Invited
    BY <1>6 DEF Membership!createInvitation
  <2> QED BY <1>6, <2>1, InvitationCreated, VisitEnds, InvitationsMovedOnly
<1>7. ASSUME NEW i \in Invites, Membership!revokeInvitation(v, p, session, i) PROVE Membership!SignInInv'
  <2>1. PICK revoked \in Membership!InvitationStatus : revoked = "revoked"
    BY DEF Membership!InvitationStatus
  <2>2. Membership!Ends(v) /\ UNCHANGED Membership!Invited /\ s3' = [s3 EXCEPT ![i].status = revoked] /\ s3[i].status \notin {"none", "accepted"}
    BY <1>7, <2>1 DEF Membership!revokeInvitation
  <2> QED BY <2>2, StatusChanges, VisitEnds, InvitationsMovedOnly
<1>8. ASSUME NEW i \in Invites, Membership!resendInvitation(v, p, session, i) PROVE Membership!SignInInv'
  <2>1. Membership!Ends(v) /\ UNCHANGED Membership!Invited
    BY <1>8 DEF Membership!resendInvitation
  <2> QED BY <1>8, <2>1, InvitationResent, VisitEnds, InvitationsMovedOnly
<1>9. ASSUME NEW i \in Invites, NEW token \in 1..MaxToken, Membership!acceptInvitation(v, p, session, i, token) PROVE Membership!SignInInv'
  <2>1. PICK pc \in Membership!VisitStep, op \in Membership!VisitKind : pc = "accepting" /\ op = "accept"
    BY DEF Membership!VisitStep, Membership!VisitKind
  <2>2. Membership!To(v, [Membership!Idle EXCEPT !.pc = pc, !.op = op, !.person = p, !.invite = i, !.token = token]) /\ UNCHANGED s3 /\ UNCHANGED Membership!Invited
    BY <1>9, <2>1 DEF Membership!acceptInvitation
  <2> QED BY <2>1, <2>2, AcceptanceAsked, InvitationsStand, InvitationsMovedOnly
<1> QED BY <1>2, <1>3, <1>4, <1>5, <1>6, <1>7, <1>8, <1>9 DEF Membership!Manage

\* Every later step of a request, and every step of a visitor, keeps the invariant.
LEMMA Served == ASSUME Membership!SignInInv, NEW v \in Visits, Membership!Serve(v) PROVE Membership!SignInInv'
<1>1. CASE Membership!updatePassword(v)
  <2>1. PICK pc \in Membership!VisitStep : pc = "changed"
    BY DEF Membership!VisitStep
  <2>2. Membership!To(v, [s8[v] EXCEPT !.pc = pc]) /\ UNCHANGED <<s2, s3, s4, s5, s6, s7, s9>>
    BY <1>1, <2>1 DEF Membership!updatePassword
  <2> QED BY <1>1, <2>1, <2>2, RequestMoves, PasswordUpdated, SessionsStand, OnlyVisitsMove
<1>2. CASE Membership!revokeOthers(v)
  <2>1. SessionsMove
    BY <1>2, SessionsRevoked DEF Membership!revokeOthers
  <2> QED BY <1>2, <2>1, VisitEnds, UserRows, OnlyVisitsMove DEF Membership!revokeOthers
<1>3. CASE Membership!lockMember(v)
  <2>1. PICK pc \in Membership!VisitStep : pc = "counted"
    BY DEF Membership!VisitStep
  <2>2. Membership!Ends(v) \/ Membership!To(v, [s8[v] EXCEPT !.pc = pc])
    BY <1>3, <2>1 DEF Membership!lockMember
  <2> QED BY <1>3, <2>1, <2>2, VisitEnds, RequestMoves, UserRows, SessionsStand, OnlyVisitsMove DEF Membership!lockMember
<1>4. CASE Membership!updateMembershipRole(v)
  BY <1>4, RoleUpdated, VisitEnds, SessionsStand, OnlyVisitsMove DEF Membership!updateMembershipRole
<1>5. CASE Membership!admit(v)
  BY <1>5, Admitted
<1>6. CASE Membership!loginFails(v)
  <2>1. Membership!Ends(v) /\ UNCHANGED <<s1, s2, s3, s4, s5, s6, s9>>
    BY <1>6 DEF Membership!loginFails
  <2> QED BY <1>6, <2>1, FailureCounted, VisitEnds, UserRows, IdentitiesStand, FailuresStand, IdentityMoves
<1>7. CASE Membership!createSessionForUser(v)
  BY <1>7, SessionMade
<1>8. CASE Membership!link(v)
  <2>1. PICK pc \in Membership!VisitStep : pc = "session"
    BY DEF Membership!VisitStep
  <2>2. Membership!To(v, [s8[v] EXCEPT !.pc = pc]) /\ UNCHANGED <<s1, s3, s4, s5, s6, s7, s9>>
    BY <1>8, <2>1 DEF Membership!link
  <2> QED BY <1>8, <2>1, <2>2, RequestMoves, Linked, UserRows, IdentitiesStand, FailuresStand, IdentityMoves
<1>9. CASE Membership!createOidcUserWithMembership(v)
  <2>1. PICK pc \in Membership!VisitStep : pc = "session"
    BY DEF Membership!VisitStep
  <2>2. Membership!To(v, [s8[v] EXCEPT !.pc = pc]) /\ UNCHANGED <<s3, s4, s5, s6, s7, s9>>
    BY <1>9, <2>1 DEF Membership!createOidcUserWithMembership
  <2> QED BY <1>9, <2>1, <2>2, RequestMoves, Linked, OidcUserMade, IdentitiesStand, FailuresStand, IdentityMoves
<1>10. CASE Membership!refuse(v)
  BY <1>10, VisitEnds, UserRows, SessionsStand, OnlyVisitsMove DEF Membership!refuse
<1>11. ASSUME NEW auto \in BOOLEAN, Membership!resolveUser(v, auto) PROVE Membership!SignInInv'
  <2>1. UNCHANGED <<s1, s2, s3, s4, s5, s6, s7, s9>>
    BY <1>11 DEF Membership!resolveUser
  <2> QED BY <1>11, <2>1, UserResolved, UserRows, SessionsStand, OnlyVisitsMove
<1>12. ASSUME NEW i \in Invites, NEW token \in 1..MaxToken, Membership!registerInvitation(v, i, token) PROVE Membership!SignInInv'
  <2>1. PICK pc \in Membership!VisitStep, op \in Membership!VisitKind : pc = "accepting" /\ op = "register"
    BY DEF Membership!VisitStep, Membership!VisitKind
  <2>2. /\ Membership!To(v, [Membership!Idle EXCEPT !.pc = pc, !.op = op, !.person = s3[i].email, !.invite = i, !.token = token])
        /\ UNCHANGED s3 /\ UNCHANGED Membership!Invited
    BY <1>12, <2>1 DEF Membership!registerInvitation
  <2>3. s3[i].email \in People
    BY <1>12, InvitationRow DEF Membership!registerInvitation, Membership!activeInvitation
  <2> QED BY <2>1, <2>2, <2>3, AcceptanceAsked, InvitationsStand, InvitationsMovedOnly
<1>13. ASSUME NEW p \in People, NEW typed \in 1..MaxPassword, Membership!login(v, p, typed) PROVE Membership!SignInInv'
  <2>1. UNCHANGED <<s1, s2, s3, s4, s5, s6, s7, s9>> /\ typed \in Nat
    BY <1>13, SignInAssumption DEF Membership!login
  <2> QED BY <1>13, <2>1, LoginAsked, UserRows, SessionsStand, OnlyVisitsMove
<1>14. ASSUME NEW s \in LoginStates, Membership!callback(v, s) PROVE Membership!SignInInv'
  BY <1>14, StateConsumed
<1>15. ASSUME NEW subject \in Subjects, NEW email \in People, NEW groups, NEW shown, NEW domainAllowed, NEW groupAllowed,
              Membership!verifyClaims(v, subject, email, groups, shown, domainAllowed, groupAllowed) PROVE Membership!SignInInv'
  <2>1. UNCHANGED <<s1, s2, s3, s4, s5, s6, s7, s9>>
    BY <1>15 DEF Membership!verifyClaims
  <2> QED BY <1>15, <2>1, ClaimsVerified, UserRows, SessionsStand, OnlyVisitsMove
<1> QED BY <1>1, <1>2, <1>3, <1>4, <1>5, <1>6, <1>7, <1>8, <1>9, <1>10, <1>11, <1>12, <1>13, <1>14,
   <1>15 DEF Membership!Serve

\* A sign-in state that opens, is cancelled or expires keeps the invariant: none is un-consumed.
LEMMA StatesOpen ==
  ASSUME Membership!SignInInv, NEW s \in LoginStates, Membership!start(s) \/ Membership!cancel(s) PROVE Membership!SignInInv'
<1>1. PICK state \in Membership!OidcLoginState : /\ s4' = [s4 EXCEPT ![s] = state]
                                                 /\ s4[s] = "consumed" => state = "consumed"
  BY DEF Membership!start, Membership!cancel, Membership!OidcLoginState
<1>2. UNCHANGED <<s1, s2, s3, s5, s6, s7, s8, s9>>
  BY DEF Membership!start, Membership!cancel
<1>3. /\ s4' \in [LoginStates -> Membership!OidcLoginState]
      /\ \A t \in LoginStates : s4[t] = "consumed" => s4'[t] = "consumed"
  <2>1. s4 \in [LoginStates -> Membership!OidcLoginState]
    BY DEF Membership!SignInInv, Membership!SignInTypeOK
  <2>2. s4' \in [LoginStates -> Membership!OidcLoginState]
    BY <1>1, <2>1
  <2>3. ASSUME NEW t \in LoginStates, s4[t] = "consumed" PROVE s4'[t] = "consumed"
    <3>1. CASE t = s
      BY <1>1, <2>1, <2>3, <3>1
    <3>2. CASE t # s
      BY <1>1, <2>1, <2>3, <3>2
    <3> QED BY <3>1, <3>2
  <2> QED BY <2>2, <2>3
<1>4. /\ s3 \in [Invites -> Membership!WorkspaceInvitation] /\ s6 \in Nat /\ s9 \subseteq Invites \X People \X (1..MaxToken)
      /\ \A i \in Invites : s3[i].status # "none" => s3[i].email \in People
  BY DEF Membership!SignInInv, Membership!SignInTypeOK, Membership!InvitationsAreAddressed
<1> QED BY <1>2, <1>3, <1>4, VisitsStand, SessionsStand, UserRows, IdentitiesStand, FailuresStand, SignInKept

\* Every step of sign-in keeps its invariant.
LEMMA SignInNextKeeps ==
  ASSUME Membership!SignInInv, [Membership!SignInNext]_Membership!signInVars
  PROVE  Membership!SignInInv'
<1>1. ASSUME NEW v \in Visits, Membership!Serve(v) PROVE Membership!SignInInv'
  BY <1>1, Served
<1>2. ASSUME NEW v \in Visits, NEW p \in People, NEW session \in 0..s6, Membership!Manage(v, p, session) PROVE Membership!SignInInv'
  BY <1>2, Managed
<1>3. ASSUME NEW i \in Invites, Membership!invitationExpires(i) PROVE Membership!SignInInv'
  <2>1. PICK overdue \in Membership!InvitationStatus : overdue = "overdue"
    BY DEF Membership!InvitationStatus
  <2>2. /\ s3' = [s3 EXCEPT ![i].status = overdue] /\ s3[i].status \notin {"none", "accepted"}
        /\ UNCHANGED s8 /\ UNCHANGED Membership!Invited
    BY <1>3, <2>1 DEF Membership!invitationExpires
  <2> QED BY <2>2, StatusChanges, VisitsStand, InvitationsMovedOnly
<1>4. ASSUME NEW s \in LoginStates, Membership!start(s) \/ Membership!cancel(s) PROVE Membership!SignInInv'
  BY <1>4, StatesOpen
<1>5. ASSUME NEW p \in People, Membership!blockEnds(p) PROVE Membership!SignInInv'
  <2>1. s7' \in [People -> 0..MaxFailures] /\ UNCHANGED <<s1, s2, s3, s4, s5, s6, s8, s9>>
    BY <1>5, FailuresCleared DEF Membership!blockEnds
  <2> QED BY <2>1, VisitsStand, UserRows, IdentitiesStand, IdentityMoves
<1>6. CASE UNCHANGED Membership!signInVars
  <2>1. UNCHANGED <<s1, s2, s3, s4, s5, s6, s7, s8, s9>>
    BY <1>6 DEF Membership!signInVars
  <2> QED BY <2>1, VisitsStand, UserRows, IdentitiesStand, FailuresStand, IdentityMoves
<1> QED BY <1>1, <1>2, <1>3, <1>4, <1>5, <1>6 DEF Membership!SignInNext

\* It holds when the module starts.
LEMMA SignInStarts == Membership!SignInInit => Membership!SignInInv
<1> SUFFICES ASSUME Membership!SignInInit PROVE Membership!SignInInv
  OBVIOUS
<1>1. s1 \in [People -> Membership!AuthUser]
  <2>1. PICK active \in Membership!UserStatus, disabled \in Membership!UserStatus, none \in Membership!UserStatus : active = "active" /\ disabled = "disabled" /\ none = "none"
    BY DEF Membership!UserStatus
  <2>2. PICK owner \in Membership!Role \cup {"none"}, member \in Membership!Role \cup {"none"} : owner = "owner" /\ member = "none"
    BY DEF Membership!Role
  <2>3. PICK one \in 0..MaxPassword, zero \in 0..MaxPassword : one = 1 /\ zero = 0
    BY SignInAssumption
  <2>4. s1 = [p \in People |->
         [status |-> IF p \in Founders THEN active ELSE IF p \in Legacy THEN disabled ELSE none,
          password |-> IF p \in Founders \cup Legacy THEN one ELSE zero, role |-> IF p \in Founders THEN owner ELSE member]]
    BY <2>1, <2>2, <2>3 DEF Membership!SignInInit, Membership!onModuleInit
  <2> QED BY <2>4 DEF Membership!AuthUser
<1>2. s5 \in [People -> Seq(Membership!AuthSession)] /\ \A p \in People : \A n \in DOMAIN s5[p] : n = 1 /\ s5[p][n].via = Nobody
  <2>1. PICK zero \in Nat : zero = 0
    OBVIOUS
  <2>2. PICK first : first = [id |-> zero, live |-> TRUE, via |-> Nobody]
    OBVIOUS
  <2>3. first \in Membership!AuthSession /\ first.via = Nobody
    BY <2>2 DEF Membership!AuthSession
  <2>4. s5 = [p \in People |-> IF p \in Founders THEN <<first>> ELSE <<>>]
    BY <2>1, <2>2 DEF Membership!SignInInit, Membership!onModuleInit
  <2>5. /\ <<first>> \in Seq(Membership!AuthSession) /\ <<>> \in Seq(Membership!AuthSession) /\ DOMAIN <<>> = {} /\ DOMAIN <<first>> = {1} /\ <<first>>[1] = first
    BY <2>3
  <2> QED BY <2>3, <2>4, <2>5
<1>3. s3 \in [Invites -> Membership!WorkspaceInvitation] /\ \A i \in Invites : s3[i].status = "none"
  <2>1. PICK none \in Membership!InvitationStatus, viewer \in Membership!Role, zero \in 0..MaxToken : none = "none" /\ viewer = "viewer" /\ zero = 0
    BY SignInAssumption DEF Membership!InvitationStatus, Membership!Role
  <2>2. PICK b : b = [email |-> Nobody, role |-> viewer, status |-> none, token |-> zero]
    OBVIOUS
  <2>3. b \in Membership!WorkspaceInvitation /\ b.status = none
    BY <2>2 DEF Membership!WorkspaceInvitation
  <2>4. s3 = [i \in Invites |-> b]
    BY <2>1, <2>2 DEF Membership!SignInInit
  <2> QED BY <2>1, <2>3, <2>4
<1>4. s8 \in [Visits -> Membership!Visit] /\ \A v \in Visits : s8[v] = Membership!Idle
  BY IdleVisit DEF Membership!SignInInit
<1>5. Membership!Idle.pc = "idle" /\ Membership!Idle.state = Nobody
  BY DEF Membership!Idle
<1>6. Membership!SignInTypeOK
  <2>1. /\ s2 \in [Subjects -> People \cup {Nobody}] /\ s4 \in [LoginStates -> Membership!OidcLoginState] /\ s6 \in Nat
        /\ s7 \in [People -> 0..MaxFailures] /\ s9 = {}
    BY SignInAssumption DEF Membership!SignInInit, Membership!OidcLoginState
  <2> QED BY <1>1, <1>2, <1>3, <1>4, <2>1 DEF Membership!SignInTypeOK
<1>7. Membership!VisitsAreWhole
  BY <1>4, <1>5 DEF Membership!VisitsAreWhole
<1>8. Membership!StatesAreHeldOnce /\ Membership!LoginStateUsedOnce
  BY <1>2, <1>4, <1>5 DEF Membership!StatesAreHeldOnce, Membership!LoginStateUsedOnce
<1>9. Membership!InvitationAdmitsItsPerson /\ Membership!InvitationsAreAddressed
  BY <1>3 DEF Membership!InvitationAdmitsItsPerson, Membership!InvitationsAreAddressed, Membership!SignInInit
<1> QED BY <1>6, <1>7, <1>8, <1>9 DEF Membership!SignInInv

\* The invariant of sign-in implies what it promises.
LEMMA SignInImplies == Membership!SignInInv => Membership!SignInTypeOK /\ Membership!LoginStateUsedOnce /\ Membership!InvitationAdmitsItsPerson
  BY DEF Membership!SignInInv

-----------------------------------------------------------------------------
(* Proofs.  The components together.                                       *)

\* The invariant of the component that Init chose.
ReachInv ==
  /\ component = "private replies" => PrivateReply!ReplyInv
  /\ component = "private inbox"   => PrivateMessage!InboxInv
  /\ component = "comment replies" => CommentReply!EngagementReplyInv
  /\ component = "access"          => Access!AccessInv
  /\ component = "sign-in"         => Membership!SignInInv

\* It holds initially.
LEMMA ReachInit == Init => ReachInv
<1>1. Access!AccessInit => Access!AccessInv
  BY AccessAssumption, Access!AccessInitInv
<1> QED BY <1>1, ReplyStarts, InboxInitial, EngagementInit, SignInStarts DEF Init, ReachInv

\* A step is a step of the component that Init chose, or of none.
LEMMA ReachSteps ==
  ASSUME [Next]_vars
  PROVE  /\ UNCHANGED component
         /\ component = "private replies" => [PrivateReply!ReplyNext]_PrivateReply!replyVars
         /\ component = "private inbox"   => [PrivateMessage!InboxNext]_PrivateMessage!inboxVars
         /\ component = "comment replies" => [CommentReply!EngagementReplyNext]_CommentReply!engagementReplyVars
         /\ component = "access"          => [Access!AccessNext]_Access!accessVars
         /\ component = "sign-in"         => [Membership!SignInNext]_Membership!signInVars
<1>1. CASE UNCHANGED vars
  BY <1>1 DEF vars, PrivateReply!replyVars, PrivateMessage!inboxVars, CommentReply!engagementReplyVars, Access!accessVars,
     Membership!signInVars
<1>2. CASE Next
  BY <1>2 DEF Next, PrivateReplySteps, PrivateInboxSteps, CommentReplySteps, AccessSteps, SignInSteps
<1> QED BY <1>1, <1>2

\* Every step keeps it.
LEMMA ReachNext == ASSUME ReachInv, [Next]_vars PROVE ReachInv'
<1>1. Access!AccessInv /\ [Access!AccessNext]_Access!accessVars => Access!AccessInv'
  BY AccessAssumption, Access!AccessNextInv
<1> QED BY <1>1, ReachSteps, PrivateReplyNext, InboxKept, EngagementNext, SignInNextKeeps DEF ReachInv

\* Every variable keeps its type, for any number of replies, executions, messages, accounts, people and requests.
THEOREM AccessTypes == Spec => []TypesOK
<1>1. ReachInv /\ [Next]_vars => ReachInv'
  BY ReachNext
<1>2. ReachInv => TypesOK
  BY ReplyImplies, EngagementImplies, SignInImplies DEF ReachInv, TypesOK, PrivateMessage!InboxInv, Access!AccessInv
<1> QED BY <1>1, <1>2, ReachInit, PTL DEF Spec

\* Replies are sent as they were approved, for any number of replies and executions.
THEOREM AccessReplies == Spec => []RepliesAreApproved
<1>1. ReachInv /\ [Next]_vars => ReachInv'
  BY ReachNext
<1>2. ReachInv => RepliesAreApproved
  BY ReplyImplies, EngagementImplies DEF ReachInv, RepliesAreApproved
<1> QED BY <1>1, <1>2, ReachInit, PTL DEF Spec

\* Grants, credentials, sign-in states and invitations are current, for any number of them.
THEOREM AccessCurrent == Spec => []AccessIsCurrent
<1>1. ReachInv /\ [Next]_vars => ReachInv'
  BY ReachNext
<1>2. ReachInv => AccessIsCurrent
  BY SignInImplies DEF ReachInv, AccessIsCurrent, Access!AccessInv
<1> QED BY <1>1, <1>2, ReachInit, PTL DEF Spec

\* Settled replies stay settled, for any number of replies and executions.
THEOREM AccessSettles == Spec => RepliesSettle
<1> DEFINE Settles == /\ component = "private replies" => PrivateReply!SettledReplyStays
                      /\ component = "comment replies" => CommentReply!PostedIsNotFailed
<1>1. ReachInv /\ [Next]_vars => ReachInv' /\ [Settles]_vars
  <2> SUFFICES ASSUME ReachInv, [Next]_vars PROVE [Settles]_vars
    BY ReachNext
  <2> SUFFICES ASSUME Next PROVE Settles
    OBVIOUS
  <2>1. /\ component = "private replies" => PrivateReply!ReplyNext
        /\ component = "comment replies" => CommentReply!EngagementReplyNext
    BY DEF Next, PrivateReplySteps, PrivateInboxSteps, CommentReplySteps, AccessSteps, SignInSteps
  <2> QED BY <2>1, RepliesStay, FailedWasNotPosted DEF ReachInv
<1> QED BY <1>1, ReachInit, PTL DEF Spec, RepliesSettle

\* What was withdrawn stays withdrawn, for any number of messages, accounts, grants and requests.
THEOREM AccessWithdrawn == Spec => WithdrawnStaysWithdrawn
<1> DEFINE Stays == /\ component = "private inbox" => PrivateMessage!RemovedContentStays
                    /\ component = "access"        => Access!StaysBlocked /\ Access!ConsentOutlivesValidation
<1>1. ReachInv /\ [Next]_vars => ReachInv' /\ [Stays]_vars
  <2> SUFFICES ASSUME ReachInv, [Next]_vars PROVE [Stays]_vars
    BY ReachNext
  <2> SUFFICES ASSUME Next PROVE Stays
    OBVIOUS
  <2>1. /\ component = "private inbox" => PrivateMessage!InboxNext
        /\ component = "access" => Access!AccessNext
    BY DEF Next, PrivateReplySteps, PrivateInboxSteps, CommentReplySteps, AccessSteps, SignInSteps
  <2>2. component = "access" => Access!StaysBlocked /\ Access!ConsentOutlivesValidation
    BY <2>1, AccessAssumption, Access!BlockedStays, Access!ConsentOutlives DEF ReachInv
  <2> QED BY <2>1, <2>2, RemovedStays DEF ReachInv
<1> QED BY <1>1, ReachInit, PTL DEF Spec, WithdrawnStaysWithdrawn
=============================================================================
