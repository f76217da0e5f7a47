--------------------------- MODULE ContentWorkflow ---------------------------
(***************************************************************************)
(* The editorial life of one content item: drafts, human decisions, the    *)
(* targets scheduled from them and the proofs that they were published.    *)
(*                                                                         *)
(* Every action is one read-modify-write of the item, atomic because a     *)
(* commit computed from an outdated copy is refused (module ContentStore). *)
(* The publish handler works longer than one commit: `held' has the        *)
(* targets whose running handler still has the stored version, so that any *)
(* other commit takes the right to record a result away from it.           *)
(*                                                                         *)
(* All targets address one platform account, so that two targets of the    *)
(* same draft agree on the (draft, platform, account) the handler compares.*)
(***************************************************************************)
EXTENDS Naturals, FiniteSets

CONSTANTS Drafts, Targets, NoDraft

VARIABLES status,      \* status of the item
          sourced,     \* a source is attached
          drafts,      \* saved draft revisions
          approved,    \* drafts with some recorded approval
          targets,     \* publish targets
          proofs,      \* recorded proofs: [draft, post]
          held         \* running handlers whose copy is the stored version

vars == <<status, sourced, drafts, approved, targets, proofs, held>>
review == <<drafts, approved>>

ContentStatus == {"inbox", "researching", "drafting", "review", "approved",
                  "scheduled", "action_required", "publishing", "published",
                  "failed", "archived"}
TargetStatus  == {"none", "queued", "publishing", "action_required",
                  "acknowledged", "failed", "published", "cancelled"}
Decisions     == {"approved", "rejected"}
Modes         == {"auto_publish", "manual_handoff"}

NoTarget == [status |-> "none", draft |-> NoDraft, mode |-> "auto_publish"]
Target   == [status : TargetStatus, draft : Drafts \cup {NoDraft}, mode : Modes]

\* A post is named by the target it was made for.
Proof == [draft : Drafts, post : Targets]

TypeOK ==
  /\ status \in ContentStatus
  /\ sourced \in BOOLEAN
  /\ drafts \subseteq Drafts
  /\ approved \subseteq Drafts
  /\ targets \in [Targets -> Target]
  /\ proofs \subseteq Proof
  /\ held \subseteq Targets

Init ==
  /\ status = "inbox"
  /\ sourced \in BOOLEAN
  /\ drafts = {}
  /\ approved = {}
  /\ targets = [t \in Targets |-> NoTarget]
  /\ proofs = {}
  /\ held = {}

-----------------------------------------------------------------------------
transitions ==
  [inbox           |-> {"researching", "drafting", "archived"},
   researching     |-> {"drafting", "inbox", "archived"},
   drafting        |-> {"review", "researching", "archived"},
   review          |-> {"drafting", "approved", "archived"},
   approved        |-> {"scheduled", "publishing", "drafting", "archived"},
   scheduled       |-> {"publishing", "approved", "archived"},
   action_required |-> {"published", "failed", "scheduled", "archived"},
   publishing      |-> {"published", "failed"},
   published       |-> {"archived"},
   failed          |-> {"approved", "scheduled", "publishing", "archived"},
   archived        |-> {"inbox"}]

SetTarget(t, value) == targets' = [targets EXCEPT ![t].status = value]

\* A commit by anyone but a running handler outdates the handlers' copies.
Outdate == held' = {}

-----------------------------------------------------------------------------
(* Editing and review.                                                     *)

AddSource ==
  /\ sourced' = TRUE
  /\ Outdate
  /\ UNCHANGED <<status, review, targets, proofs>>

\* Any commit of a research run (module ResearchRuns).
ResearchCommit ==
  /\ status' \in {"researching", "inbox"}
  /\ sourced' \in {sourced, TRUE}
  /\ Outdate
  /\ UNCHANGED <<review, targets, proofs>>

\* Mutant: a status the item does not have.
AddDraftStatus(d) ==
  /\ d \notin drafts
  /\ drafts' = drafts \cup {d}
  /\ status' = "draft"
  /\ Outdate
  /\ UNCHANGED <<sourced, approved, targets, proofs>>

AddDraft(d) ==
  /\ d \notin drafts
  /\ drafts' = drafts \cup {d}
  /\ status' = "drafting"
  /\ Outdate
  /\ UNCHANGED <<sourced, approved, targets, proofs>>

Transition(to) ==
  /\ to \in transitions[status]
  /\ to = "approved" => sourced
  /\ status' = to
  /\ Outdate
  /\ UNCHANGED <<sourced, review, targets, proofs>>

RecordApproval(d, decision) ==
  /\ d \in drafts
  /\ decision = "approved" => sourced
  /\ status' = IF decision = "approved" THEN "approved" ELSE "drafting"
  /\ approved' = IF decision = "approved" THEN approved \cup {d} ELSE approved
  /\ Outdate
  /\ UNCHANGED <<sourced, drafts, targets, proofs>>

\* Approving the Instagram settings of an approved draft is one more approval.
RecordInstagramCollaboratorApproval(d) ==
  /\ d \in approved
  /\ Outdate
  /\ UNCHANGED <<status, sourced, drafts, approved, targets, proofs>>

-----------------------------------------------------------------------------
(* Scheduling.                                                             *)

\* Mutant: the status of the item stands for the approval of the draft.
ScheduleAnyDraft(t, d, mode) ==
  /\ targets[t] = NoTarget
  /\ d \in drafts
  /\ status \in {"approved", "scheduled"}
  /\ targets' = [targets EXCEPT ![t] = [status |-> "queued", draft |-> d, mode |-> mode]]
  /\ status' = "scheduled"
  /\ Outdate
  /\ UNCHANGED <<sourced, review, proofs>>

ScheduleTarget(t, d, mode) ==
  /\ targets[t] = NoTarget
  /\ d \in approved
  /\ status \in {"approved", "scheduled"}
  /\ targets' = [targets EXCEPT ![t] = [status |-> "queued", draft |-> d, mode |-> mode]]
  /\ status' = "scheduled"
  /\ Outdate
  /\ UNCHANGED <<sourced, review, proofs>>

RescheduleTarget(t, replacement) ==
  /\ targets[t].status = "queued"
  /\ targets[replacement] = NoTarget
  /\ targets' = [targets EXCEPT ![t].status = "cancelled", ![replacement] = targets[t]]
  /\ status' = "scheduled"
  /\ Outdate
  /\ UNCHANGED <<sourced, review, proofs>>

Active(t) == targets[t].status \notin {"none", "cancelled", "failed", "published"}

\* Cancelling twice only raises the version.
CancelTarget(t) ==
  /\ targets[t].status \in {"queued", "cancelled"}
  /\ SetTarget(t, "cancelled")
  /\ status' = IF /\ targets[t].status = "queued"
                  /\ status = "scheduled"
                  /\ \A u \in Targets \ {t} : ~Active(u)
                 THEN "approved" ELSE status
  /\ Outdate
  /\ UNCHANGED <<sourced, review, proofs>>

-----------------------------------------------------------------------------
(* The publish handler.                                                    *)

\* markTargetStatus
MarkTargetStatus(t, value) ==
  /\ SetTarget(t, value)
  /\ status' = CASE value = "publishing" -> "publishing"
                 [] value \in {"action_required", "acknowledged"} -> "action_required"
                 [] value = "failed" -> "failed"
  /\ UNCHANGED <<sourced, review, proofs>>

Settled(t) == targets[t].status \in {"none", "cancelled", "published"}

DeliverHandoff(t) ==
  /\ targets[t].mode = "manual_handoff"
  /\ ~Settled(t)
  /\ targets[t].status \notin {"action_required", "acknowledged"}
  /\ MarkTargetStatus(t, "action_required")
  /\ Outdate

hasCompletePublishProof(t) == \E p \in proofs : p.draft = targets[t].draft

\* First delivery, or another one after a failure, a crash or a review.
BeginPublishing(t) ==
  /\ targets[t].mode = "auto_publish"
  /\ ~Settled(t)
  /\ ~hasCompletePublishProof(t)
  /\ MarkTargetStatus(t, "publishing")
  /\ held' = {t}

\* Mutant: the completion is saved whatever happened to the item meanwhile.
CompleteFromStaleCopy(t) ==
  /\ targets[t].mode = "auto_publish"
  /\ targets[t].status = "publishing"
  /\ [draft |-> targets[t].draft, post |-> t] \notin proofs
  /\ SetTarget(t, "published")
  /\ status' = "published"
  /\ proofs' = proofs \cup {[draft |-> targets[t].draft, post |-> t]}
  /\ Outdate
  /\ UNCHANGED <<sourced, review>>

CompleteAutomaticPublication(t) ==
  /\ t \in held
  /\ [draft |-> targets[t].draft, post |-> t] \notin proofs
  /\ SetTarget(t, "published")
  /\ status' = "published"
  /\ proofs' = proofs \cup {[draft |-> targets[t].draft, post |-> t]}
  /\ Outdate
  /\ UNCHANGED <<sourced, review>>

\* A result nobody can be sure of, from the handler's copy.
NeedsReview(t) ==
  /\ t \in held
  /\ MarkTargetStatus(t, "action_required")
  /\ Outdate

\* A run that lost its provider claim marks the item it reads afresh.
ClaimLost(t) ==
  /\ targets[t].mode = "auto_publish"
  /\ targets[t].status \in {"publishing", "failed"}
  /\ MarkTargetStatus(t, "action_required")
  /\ Outdate

\* Mutant: the failure is recorded on a fresh copy.
MarkFailedAfresh(t) ==
  /\ targets[t].mode = "auto_publish"
  /\ targets[t].status # "none"
  /\ MarkTargetStatus(t, "failed")
  /\ Outdate

MarkFailed(t) ==
  /\ t \in held
  /\ MarkTargetStatus(t, "failed")
  /\ Outdate

-----------------------------------------------------------------------------
(* Operators.                                                              *)

\* Acknowledging twice only raises the version.
AcknowledgeManualHandoff(t) ==
  /\ targets[t].mode = "manual_handoff"
  /\ \/ targets[t].status = "action_required" /\ MarkTargetStatus(t, "acknowledged")
     \/ /\ targets[t].status = "acknowledged"
        /\ UNCHANGED <<status, sourced, review, targets, proofs>>
  /\ Outdate

\* Mutant: nobody asks whether the post is recorded already.
RecordProofAgain(t, p) ==
  /\ targets[t].draft \in approved
  /\ SetTarget(t, "published")
  /\ status' = "published"
  /\ proofs' = proofs \cup {[draft |-> targets[t].draft, post |-> p]}
  /\ Outdate
  /\ UNCHANGED <<sourced, review>>

RecordProof(t, p) ==
  /\ targets[t].draft \in approved
  /\ \A proof \in proofs : proof.post # p
  /\ SetTarget(t, "published")
  /\ status' = "published"
  /\ proofs' = proofs \cup {[draft |-> targets[t].draft, post |-> p]}
  /\ Outdate
  /\ UNCHANGED <<sourced, review>>

\* The operator names some post made by hand.
ConfirmManualPublication(t, p) ==
  /\ targets[t].mode = "manual_handoff"
  /\ targets[t].status \in {"action_required", "acknowledged"}
  /\ targets[p].mode = "manual_handoff"
  /\ RecordProof(t, p)

ConfirmProviderPublication(t) ==
  /\ targets[t].mode = "auto_publish"
  /\ targets[t].status = "action_required"
  /\ RecordProof(t, t)

-----------------------------------------------------------------------------
Deliver(t) ==
  \/ DeliverHandoff(t)
  \/ BeginPublishing(t)

TargetStep(t) ==
  \/ \E d \in Drafts, mode \in Modes : ScheduleTarget(t, d, mode)
  \/ \E u \in Targets : RescheduleTarget(t, u)
  \/ CancelTarget(t)
  \/ Deliver(t)
  \/ CompleteAutomaticPublication(t)
  \/ NeedsReview(t)
  \/ ClaimLost(t)
  \/ MarkFailed(t)
  \/ AcknowledgeManualHandoff(t)
  \/ \E p \in Targets : ConfirmManualPublication(t, p)
  \/ ConfirmProviderPublication(t)

Next ==
  \/ AddSource
  \/ ResearchCommit
  \/ \E to \in ContentStatus : Transition(to)
  \/ \E d \in Drafts : \/ AddDraft(d)
                       \/ RecordInstagramCollaboratorApproval(d)
                       \/ \E decision \in Decisions : RecordApproval(d, decision)
  \/ \E t \in Targets : TargetStep(t)

Spec == Init /\ [][Next]_vars

-----------------------------------------------------------------------------
(* Properties.                                                             *)

Published == {t \in Targets : targets[t].status = "published"}

\* Whatever the order of rejections, transitions, reschedules and retries, a
\* target is in the queue or beyond it only for a draft somebody approved
\* with a source attached.
OnlyApprovedIsQueued ==
  \A t \in Targets : targets[t] # NoTarget => targets[t].draft \in approved /\ sourced

\* Published targets and proofs correspond one to one: no target is published
\* without a proof of its own draft and no post proves two targets, across
\* automatic completion, manual handoff and provider reconciliation.
OneProofPerTarget ==
  /\ Cardinality(proofs) = Cardinality(Published)
  /\ Cardinality({p.post : p \in proofs}) = Cardinality(proofs)
  /\ \A t \in Published : \E p \in proofs : p.draft = targets[t].draft

\* A target that was cancelled or published never moves again: not by a
\* handler that read it earlier, not by a repeated cancellation, not by a
\* reschedule, not by an operator.
SettledIsFinal ==
  \A t \in Targets : targets[t].status \in {"cancelled", "published"}
                       => targets'[t] = targets[t]

\* The handler asks once, before it calls the provider, whether the draft has
\* a proof.  A completion is never saved over a proof that another target of
\* the draft received after that question, from another handler or from an
\* operator: at most one proof of a draft comes from a handler's completion.
NoCompletionOverProof ==
  \A t \in Targets :
    /\ targets[t].status = "publishing" /\ targets'[t].status = "published"
    => ~hasCompletePublishProof(t)

-----------------------------------------------------------------------------
(* The inductive invariant.                                                *)

ApprovedIsSourced == approved # {} => sourced

\* A handler that may still record a result is publishing, and nobody has
\* recorded a proof of its draft since it asked.
HeldIsUnproven ==
  \A t \in held : /\ targets[t].status = "publishing"
                  /\ targets[t].mode = "auto_publish"
                  /\ ~hasCompletePublishProof(t)

\* A proof names a post made by hand, or the published target it was made for.
PostsAreMadeFor ==
  \A p \in proofs : \/ targets[p.post].mode = "manual_handoff"
                    \/ targets[p.post].status = "published"

WorkflowInv ==
  /\ TypeOK
  /\ IsFiniteSet(proofs)
  /\ OnlyApprovedIsQueued
  /\ OneProofPerTarget
  /\ ApprovedIsSourced
  /\ HeldIsUnproven
  /\ PostsAreMadeFor
=============================================================================
