---------------------------- MODULE FacebookPublish ----------------------------
(***************************************************************************)
(* Publishing one target through the official Facebook Page connector.     *)
(* There is no claim: a run reads the operation, saves its intent, saves   *)
(* "finalizing", posts, saves the returned identifier, reads the post back *)
(* and saves "published".  Every save replaces the stored operation.       *)
(***************************************************************************)
EXTENDS PublishTarget

FacebookTryBlock == {"prepare", "provider", "intent", "adopt", "step", "finalize",
                     "send", "sent", "verify", "settle", "complete", "review", "after"}

FacebookRunPc == FacebookTryBlock \cup {"idle", "start", "mark", "fail", "markFailed", "done"}

FacebookTypeOK ==
  /\ TargetTypeOK
  /\ \A r \in Runs : pc[r] \in FacebookRunPc
  /\ \A o \in Operators : pc[o] \in OperatorPc

FacebookInit == TargetInit

-----------------------------------------------------------------------------
FacebookReadOperation(r) ==
  /\ pc[r] = "provider"
  /\ loc' = [loc EXCEPT ![r] = op]
  /\ Goto(r, IF op = NoOp THEN "intent"
             ELSE IF op.attempt # att[r] THEN "adopt" ELSE "step")
  /\ UNCHANGED <<itemVars, op, providerVars, att>>

SaveIntent(r) ==
  /\ pc[r] = "intent"
  /\ Save(r, [status |-> "ready", container |-> None, post |-> None, attempt |-> att[r]],
          "finalize")

FacebookAdoptAttempt(r) ==
  /\ pc[r] = "adopt"
  /\ Save(r, [loc[r] EXCEPT !.attempt = att[r]], "step")

\* Mutant: an interrupted POST is sent again.
FacebookNextStepResends(o) ==
  CASE o.status = "uncertain" -> "review"
    [] o.status = "published" -> "complete"
    [] o.post # None          -> "verify"
    [] OTHER                  -> "finalize"

\* Mutant: an interrupted POST counts as published.
NextStepTrusts(o) ==
  CASE o.status = "uncertain" -> "review"
    [] o.status \in {"finalizing", "published"} -> "complete"
    [] OTHER                  -> "finalize"

\* Mutant: the stored status is taken for the step.
FacebookNextStepIsStatus(o) == o.status

\* facebookPublishNextStep on a saved operation.  A published one carries a
\* verified permalink, because both writers check it first.
FacebookNextStep(o) ==
  CASE o.status = "uncertain"  -> "review"
    [] o.status = "published"  -> "complete"
    [] o.status = "finalizing" -> IF o.post = None THEN "settle" ELSE "verify"
    [] OTHER                   -> "finalize"

FacebookRoute(r) ==
  /\ pc[r] = "step"
  /\ Goto(r, FacebookNextStep(loc[r]))
  /\ UNCHANGED <<itemVars, op, providerVars, att, loc>>

FacebookSaveFinalizing(r) ==
  /\ pc[r] = "finalize"
  /\ Save(r, [loc[r] EXCEPT !.status = "finalizing"], "send")

\* createPost: the request that cannot be taken back.
FacebookSend(r) ==
  /\ pc[r] = "send"
  /\ inflight' = inflight \cup {r}
  /\ Goto(r, "sent")
  /\ UNCHANGED <<itemVars, op, posts, att, loc>>

CreatePostOk(r) ==
  /\ pc[r] = "sent"
  /\ r \in posts
  /\ Save(r, [loc[r] EXCEPT !.post = r], "verify")

\* The answer was an error or never came; or it came and saving the returned
\* identifier failed, in which case the identifier is still in the copy.
CreatePostUncertain(r) ==
  /\ pc[r] = "sent"
  /\ \E p \in {None} \cup (posts \cap {r}) :
       Save(r, [loc[r] EXCEPT !.status = "uncertain", !.post = p], "review")

\* readPublishedPost confirms the post and its permalink.
VerifyOk(r) ==
  /\ pc[r] = "verify"
  /\ loc[r].post \in posts
  /\ Save(r, [loc[r] EXCEPT !.status = "published"], "complete")

\* Mutant: the operation is left as it is.
SaveStillFinalizing(r) ==
  /\ pc[r] \in {"verify", "settle"}
  /\ Save(r, loc[r], "review")

\* The read-back failed, or an earlier run stopped with "finalizing" saved and
\* no identifier.
SaveUncertain(r) ==
  /\ pc[r] \in {"verify", "settle"}
  /\ Save(r, [loc[r] EXCEPT !.status = "uncertain"], "review")

FacebookStep(r) ==
  \/ FacebookReadOperation(r)
  \/ SaveIntent(r)
  \/ FacebookAdoptAttempt(r)
  \/ FacebookRoute(r)
  \/ FacebookSaveFinalizing(r)
  \/ FacebookSend(r)
  \/ CreatePostOk(r)
  \/ CreatePostUncertain(r)
  \/ VerifyOk(r)
  \/ SaveUncertain(r)

FacebookNext ==
  \/ \E r \in Runs : MayRun(r) /\ (HandlerStep(r, FacebookTryBlock) \/ FacebookStep(r))
  \/ \E r \in Runs : ProviderPublish(r)
  \/ ApiStep

FacebookSpec == FacebookInit /\ [][FacebookNext]_vars

-----------------------------------------------------------------------------
(* Properties.                                                             *)

\* A published target and its operation agree and stay so: neither a run that
\* began earlier nor the catch block can reopen them.
FacebookPublishedIsFinal ==
  target = "published" => target' = "published" /\ op' = op
=============================================================================
