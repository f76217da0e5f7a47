--------------------------- MODULE InstagramPublish ---------------------------
(***************************************************************************)
(* Publishing one target through the official Instagram connector.  A run  *)
(* claims the target's provider operation under a lease, creates the media *)
(* container once, waits for it, persists "finalizing" and only then sends *)
(* the call that makes the post live.  Every later save is fenced by the   *)
(* claim; a run that lost it hands the target to a human.                  *)
(***************************************************************************)
EXTENDS PublishTarget

VARIABLE claim     \* [owner, live]: claim_owner and claim_expires_at > now

instagramVars == <<vars, claim>>

NoClaim == [owner |-> None, live |-> FALSE]

TryBlock == {"prepare", "provider", "create", "recover", "adopt", "step",
             "wait", "finalize", "send", "sent", "settle",
             "complete", "review", "after"}

RunPc == TryBlock \cup {"idle", "start", "mark", "fail", "markFailed",
                        "lost", "lostMark", "done"}

TypeOK ==
  /\ TargetTypeOK
  /\ pc \in [Actors -> RunPc \cup OperatorPc]
  /\ \A r \in Runs : pc[r] \in RunPc
  /\ \A o \in Operators : pc[o] \in OperatorPc
  /\ claim \in [owner : Runs \cup {None}, live : BOOLEAN]

Init == TargetInit /\ claim = NoClaim

-----------------------------------------------------------------------------
(* The claim.                                                              *)

Holds(r) == claim.owner = r /\ claim.live

\* The first run inserts the operation and owns its claim.
ClaimNew(r) ==
  /\ pc[r] = "provider"
  /\ op = NoOp
  /\ op' = [status |-> "creating", container |-> None, post |-> None, attempt |-> att[r]]
  /\ claim' = [owner |-> r, live |-> TRUE]
  /\ loc' = [loc EXCEPT ![r] = op']
  /\ Goto(r, "create")
  /\ UNCHANGED <<itemVars, providerVars, att>>

\* A later run takes over an operation whose claim expired.
ClaimExisting(r) ==
  /\ pc[r] = "provider"
  /\ op # NoOp
  /\ ~claim.live
  /\ claim' = [owner |-> r, live |-> TRUE]
  /\ loc' = [loc EXCEPT ![r] = op]
  /\ Goto(r, IF op.status = "creating" THEN "recover" ELSE "adopt")
  /\ UNCHANGED <<itemVars, op, providerVars, att>>

\* Another run holds the claim: queue a later delivery and return.
ClaimBusy(r) ==
  /\ pc[r] = "provider"
  /\ op # NoOp
  /\ claim.live
  /\ Goto(r, "done")
  /\ UNCHANGED <<itemVars, op, providerVars, att, loc, claim>>

LeaseExpires ==
  /\ claim.live
  /\ claim' = [claim EXCEPT !.live = FALSE]
  /\ UNCHANGED vars

\* A fenced save writes the run's whole copy and renews the lease.
SaveClaimed(r, value, label) ==
  /\ Holds(r)
  /\ op' = value
  /\ loc' = [loc EXCEPT ![r] = value]
  /\ Goto(r, label)
  /\ UNCHANGED <<itemVars, providerVars, att, claim>>

SavePcs == {"create", "recover", "adopt", "wait", "finalize", "sent",
            "settle"}

\* A fenced save that finds the claim gone.  The adoption step saves only
\* when the attempt changed.
LoseClaim(r) ==
  /\ pc[r] \in SavePcs
  /\ ~Holds(r)
  /\ pc[r] = "adopt" => loc[r].attempt # att[r]
  /\ Goto(r, "lost")
  /\ UNCHANGED <<itemVars, op, providerVars, att, loc, claim>>

-----------------------------------------------------------------------------
(* The provider protocol.                                                  *)

CreateContainer(r) ==
  /\ pc[r] = "create"
  /\ SaveClaimed(r, [loc[r] EXCEPT !.status = "processing", !.container = r], "step")

\* The create call failed, or a previous run stopped around it: nobody knows
\* whether a container exists.
CreateUncertain(r) ==
  /\ pc[r] \in {"create", "recover"}
  /\ SaveClaimed(r, WithStatus(r, "uncertain"), "review")

AdoptAttempt(r) ==
  /\ pc[r] = "adopt"
  /\ IF loc[r].attempt = att[r]
       THEN Goto(r, "step") /\ UNCHANGED <<itemVars, op, providerVars, att, loc, claim>>
       ELSE SaveClaimed(r, [loc[r] EXCEPT !.attempt = att[r]], "step")

\* Mutant: an interrupted finalization is sent again.
NextStepResends(status) ==
  CASE status = "processing" -> "wait"
    [] status \in {"ready", "finalizing"} -> "finalize"
    [] status = "published"  -> "complete"
    [] status = "failed"     -> "fail"
    [] OTHER                 -> "review"

\* Mutant: the stored status is taken for the step.
NextStepIsStatus(status) == status

\* officialPublishNextStep: what the saved status allows.
NextStep(status) ==
  CASE status = "processing" -> "wait"
    [] status = "ready"      -> "finalize"
    [] status = "published"  -> "complete"
    [] status = "finalizing" -> "settle"
    [] status = "failed"     -> "fail"
    [] OTHER                 -> "review"

Route(r) ==
  /\ pc[r] = "step"
  /\ Goto(r, NextStep(loc[r].status))
  /\ UNCHANGED <<itemVars, op, providerVars, att, loc, claim>>

WaitReady(r) ==
  /\ pc[r] = "wait"
  /\ SaveClaimed(r, WithStatus(r, "ready"), "finalize")

\* Processing ended in an error, the wait was given up, or saving "ready" failed
\* once and the save of the error then stores it.
WaitFailed(r) ==
  /\ pc[r] = "wait"
  /\ \E status \in {"failed", "processing", "ready"} :
       SaveClaimed(r, WithStatus(r, status), "fail")

SaveFinalizing(r) ==
  /\ pc[r] = "finalize"
  /\ SaveClaimed(r, WithStatus(r, "finalizing"), "send")

\* finalizeOperation: the request that cannot be taken back.
Send(r) ==
  /\ pc[r] = "send"
  /\ inflight' = inflight \cup {r}
  /\ Goto(r, "sent")
  /\ UNCHANGED <<itemVars, op, posts, att, loc, claim>>

\* Mutant: an answer that never came counts as success.
FinalizeAssumed(r) ==
  /\ pc[r] = "sent"
  /\ SaveClaimed(r, [loc[r] EXCEPT !.status = "published", !.post = r], "complete")

FinalizeOk(r) ==
  /\ pc[r] = "sent"
  /\ r \in posts
  /\ SaveClaimed(r, [loc[r] EXCEPT !.status = "published", !.post = r], "complete")

\* Mutant: a failed finalization is saved as if nothing had been sent.
FinalizeRetryable(r) ==
  /\ pc[r] \in {"sent", "settle"}
  /\ SaveClaimed(r, WithStatus(r, "ready"), "review")

\* A refusal, a timeout or a lost answer after the request was sent, or a
\* previous run that stopped somewhere after saving "finalizing".
FinalizeUncertain(r) ==
  /\ pc[r] \in {"sent", "settle"}
  /\ SaveClaimed(r, WithStatus(r, "uncertain"), "review")

-----------------------------------------------------------------------------
(* A run that lost its claim reads the item again and asks for a human.    *)

ClaimLostFetch(r) ==
  /\ pc[r] = "lost"
  /\ IF target \in {"published", "action_required"}
       THEN Goto(r, "done") /\ UNCHANGED current
       ELSE Goto(r, "lostMark") /\ Fetch(r)
  /\ UNCHANGED <<target, attempts, proofs, op, providerVars, att, loc, claim>>

ClaimLostMark(r) ==
  /\ pc[r] = "lostMark"
  /\ CommitLast(r)
  /\ target' = "action_required"
  /\ Goto(r, "done")
  /\ UNCHANGED <<attempts, proofs, op, providerVars, att, loc, claim>>

-----------------------------------------------------------------------------
InstagramStep(r) ==
  \/ ClaimNew(r)
  \/ ClaimExisting(r)
  \/ ClaimBusy(r)
  \/ LoseClaim(r)
  \/ CreateContainer(r)
  \/ CreateUncertain(r)
  \/ AdoptAttempt(r)
  \/ Route(r)
  \/ WaitReady(r)
  \/ WaitFailed(r)
  \/ SaveFinalizing(r)
  \/ Send(r)
  \/ FinalizeOk(r)
  \/ FinalizeUncertain(r)
  \/ ClaimLostFetch(r)
  \/ ClaimLostMark(r)

SharedStep ==
  /\ \/ \E r \in Runs : HandlerStep(r, TryBlock) \/ ProviderPublish(r)
     \/ ApiStep
  /\ UNCHANGED claim

Next ==
  \/ \E r \in Runs : InstagramStep(r)
  \/ SharedStep
  \/ LeaseExpires

Spec == Init /\ [][Next]_instagramVars

-----------------------------------------------------------------------------
(* Properties.                                                             *)

\* The stored item never shows a published target without its proof, nor a
\* proof under a target in another state (hasCompletePublishProof relies on
\* it to skip redelivered jobs).
PublishedIffProved == (target = "published") <=> (proofs # {})

\* A live post never looks unsent: the saved operation is at or past
\* "finalizing", so that a later run cannot decide to send again.
LivePostIsRecorded ==
  posts # {} => op.status \in {"finalizing", "published", "uncertain"}

\* A published target stays published and keeps its proofs, also against
\* runs that started earlier and fail later (the catch block's markTargetStatus
\* "failed" after an error in the analytics queue).
PublishedIsFinal ==
  [][target = "published" => target' = "published" /\ proofs \subseteq proofs']_instagramVars

\* Cancelling a waiting target wins over a run that already read it: the run
\* cannot commit "publishing" from its old copy, so nothing is ever sent.
CancelledIsNeverSent ==
  target = "cancelled" => posts = {} /\ inflight = {} /\ op = NoOp

\* A live post can always be recorded: when every run has ended and the target
\* waits for a human, the confirmation endpoint has to accept the operation,
\* which it does only in status "uncertain".  ProviderExecutionClaimLostError
\* tells the operator to "reconcile the provider result before retrying".
LivePostIsReconcilable ==
  (\A r \in Runs : pc[r] = "done") /\ posts # {} /\ target = "action_required"
    => op.status = "uncertain"
=============================================================================
