---------------------------- MODULE YouTubePublish ----------------------------
(***************************************************************************)
(* Publishing one target through the official YouTube connector: a         *)
(* resumable upload session is opened and saved, the video is uploaded into*)
(* it, and the processing of the video is polled.  An interrupted upload is*)
(* answered by querying the same session, so a post is named by its        *)
(* session: finishing one session twice gives one video.                   *)
(***************************************************************************)
EXTENDS PublishTarget

YouTubeTryBlock == {"prepare", "provider", "session", "adopt", "step", "query",
                    "finalize", "send", "sent", "requery", "uploaded", "check",
                    "poll", "complete", "review", "after"}

YouTubeRunPc == YouTubeTryBlock \cup {"idle", "start", "mark", "fail", "markFailed", "done"}

YouTubeTypeOK ==
  /\ TargetTypeOK
  /\ \A r \in Runs : pc[r] \in YouTubeRunPc
  /\ \A o \in Operators : pc[o] \in OperatorPc

YouTubeInit == TargetInit

-----------------------------------------------------------------------------
YouTubeReadOperation(r) ==
  /\ pc[r] = "provider"
  /\ loc' = [loc EXCEPT ![r] = op]
  /\ Goto(r, IF op = NoOp THEN "session"
             ELSE IF op.status = "uncertain" THEN "review"
             ELSE IF op.status = "failed" THEN "fail"
             ELSE IF op.attempt # att[r] THEN "adopt" ELSE "step")
  /\ UNCHANGED <<itemVars, op, providerVars, att>>

\* createUploadSession and the save of its sealed address.  A session that is
\* opened and not saved is never used.
OpenSession(r) ==
  /\ pc[r] = "session"
  /\ Save(r, [status |-> "ready", container |-> r, post |-> None, attempt |-> att[r]],
          "step")

YouTubeAdoptAttempt(r) ==
  /\ pc[r] = "adopt"
  /\ Save(r, [loc[r] EXCEPT !.attempt = att[r]], "step")

YouTubeRoute(r) ==
  /\ pc[r] = "step"
  /\ Goto(r, IF loc[r].status = "published" THEN "complete"
             ELSE IF loc[r].post # None THEN "check"
             ELSE IF loc[r].status = "finalizing" THEN "query" ELSE "finalize")
  /\ UNCHANGED <<itemVars, op, providerVars, att, loc>>

\* queryUploadSession, before an upload is resumed and after one failed.
SessionIsFinished(r) ==
  /\ pc[r] \in {"query", "requery"}
  /\ loc[r].container \in posts
  /\ loc' = [loc EXCEPT ![r].post = loc[r].container]
  /\ Goto(r, "uploaded")
  /\ UNCHANGED <<itemVars, op, providerVars, att>>

\* Mutant: an incomplete session is replaced by a new one.
SessionIsReplaced(r) ==
  /\ pc[r] \in {"query", "requery"}
  /\ loc[r].container \notin posts
  /\ Save(r, [WithStatus(r, "ready") EXCEPT !.container = r],
          IF pc[r] = "query" THEN "finalize" ELSE "fail")

SessionIsIncomplete(r) ==
  /\ pc[r] \in {"query", "requery"}
  /\ loc[r].container \notin posts
  /\ Save(r, WithStatus(r, "ready"), IF pc[r] = "query" THEN "finalize" ELSE "fail")

SessionIsUncertain(r) ==
  /\ pc[r] \in {"query", "requery"}
  /\ Save(r, WithStatus(r, "uncertain"), "review")

YouTubeSaveFinalizing(r) ==
  /\ pc[r] = "finalize"
  /\ Save(r, WithStatus(r, "finalizing"), "send")

\* uploadFromSession: bytes are on their way; the session may finish later.
YouTubeSend(r) ==
  /\ pc[r] = "send"
  /\ inflight' = inflight \cup ({loc[r].container} \ posts)
  /\ Goto(r, "sent")
  /\ UNCHANGED <<itemVars, op, posts, att, loc>>

\* Mutant: the session address is taken for a finished video.
UploadAssumed(r) ==
  /\ pc[r] = "sent"
  /\ loc' = [loc EXCEPT ![r].post = loc[r].container]
  /\ Goto(r, "uploaded")
  /\ UNCHANGED <<itemVars, op, providerVars, att>>

UploadOk(r) ==
  /\ pc[r] = "sent"
  /\ loc[r].container \in posts
  /\ loc' = [loc EXCEPT ![r].post = loc[r].container]
  /\ Goto(r, "uploaded")
  /\ UNCHANGED <<itemVars, op, providerVars, att>>

UploadIncomplete(r) ==
  /\ pc[r] = "sent"
  /\ loc[r].container \notin posts
  /\ Save(r, WithStatus(r, "ready"), "fail")

UploadError(r) ==
  /\ pc[r] = "sent"
  /\ Goto(r, "requery")
  /\ UNCHANGED <<itemVars, op, providerVars, att, loc>>

SaveProcessing(r) ==
  /\ pc[r] = "uploaded"
  /\ Save(r, WithStatus(r, "processing"), "check")

\* Mutant: a rejected video is dropped so that a retry uploads it again.
CheckFailedRestarts(r) ==
  /\ pc[r] = "check"
  /\ Save(r, [WithStatus(r, "ready") EXCEPT !.post = None], "fail")

CheckFailed(r) ==
  /\ pc[r] = "check"
  /\ Save(r, WithStatus(r, "failed"), "fail")

\* Mutant: a status of its own for the time between two polls.
CheckLaterPolling(r) ==
  /\ pc[r] = "check"
  /\ Save(r, WithStatus(r, "polling"), "poll")

\* Still processing within the check limit and the deadline: poll again later.
CheckLater(r) ==
  /\ pc[r] = "check"
  /\ Save(r, WithStatus(r, "processing"), "poll")

EnqueuePoll(r) ==
  /\ pc[r] = "poll"
  /\ Goto(r, "done")
  /\ UNCHANGED <<itemVars, op, providerVars, att, loc>>

\* Mutant: the deadline hands over without saving the doubt.
CheckGivenUp(r) ==
  /\ pc[r] = "check"
  /\ Save(r, WithStatus(r, "processing"), "review")

\* The deadline or the check limit passed, or the privacy is not the approved.
CheckUncertain(r) ==
  /\ pc[r] = "check"
  /\ Save(r, WithStatus(r, "uncertain"), "review")

CheckOk(r) ==
  /\ pc[r] = "check"
  /\ Save(r, WithStatus(r, "published"), "complete")

YouTubeStep(r) ==
  \/ YouTubeReadOperation(r)
  \/ OpenSession(r)
  \/ YouTubeAdoptAttempt(r)
  \/ YouTubeRoute(r)
  \/ SessionIsFinished(r)
  \/ SessionIsIncomplete(r)
  \/ SessionIsUncertain(r)
  \/ YouTubeSaveFinalizing(r)
  \/ YouTubeSend(r)
  \/ UploadOk(r)
  \/ UploadIncomplete(r)
  \/ UploadError(r)
  \/ SaveProcessing(r)
  \/ CheckFailed(r)
  \/ CheckLater(r)
  \/ EnqueuePoll(r)
  \/ CheckUncertain(r)
  \/ CheckOk(r)

YouTubeNext ==
  \/ \E r \in Runs : MayRun(r) /\ (HandlerStep(r, YouTubeTryBlock) \/ YouTubeStep(r))
  \/ \E r \in Runs : ProviderPublish(r)
  \/ ApiStep

YouTubeSpec == YouTubeInit /\ [][YouTubeNext]_vars

-----------------------------------------------------------------------------
(* Properties.                                                             *)

\* Interrupted, resumed and re-queried uploads all finish the one session that
\* was saved before the first byte, so at most one video appears.
AtMostOneVideo == \A p, q \in posts : p = q

\* A video identifier is saved, and a proof recorded, only for a video that
\* exists.
SavedVideoIsLive == /\ op.post # None => op.post \in posts
                    /\ proofs \subseteq posts

\* A video that was found is never uploaded again: once an identifier is saved
\* no run goes back to the upload.
SavedVideoStays ==
  op.post # None => op'.post = op.post /\ op'.container = op.container
=============================================================================
