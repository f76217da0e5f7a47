---------------------------- MODULE PublishProofs ----------------------------
(***************************************************************************)
(* The safety of publishing for any number of handler runs and operators:  *)
(* first what the steps shared by all platforms do to the stored item,     *)
(* then the provider protocol of Instagram, Facebook and YouTube.          *)
(***************************************************************************)
EXTENDS InstagramPublish, FacebookPublish, YouTubePublish, SequenceTheorems, TLAPS

\* Runs and operators are different actors.
LEMMA ActorFacts ==
  /\ \A r \in Runs : r \in Actors /\ r # None
  /\ \A o \in Operators : o \in Actors /\ o \notin Runs
  BY ActorsAssumption DEF Actors

\* Where a run is before it has committed "publishing", or after it stopped.
Early == {"idle", "start", "mark", "done"}

ItemTypeOK ==
  /\ target \in TargetStatus
  /\ attempts \in Seq(AttemptStatus)
  /\ current \subseteq Actors
  /\ att \in [Runs -> Nat]

\* A settled target has outdated every copy, and no copy of it is handed out
\* to somebody who would change it.
SettledIsStale == target \in {"published", "cancelled"} => current = {}

\* A target that waits, or was cancelled while it waited, has no operation
\* and no run beyond the commit of "publishing".
WaitingIsUnsent ==
  target \in {"queued", "cancelled"}
    => op = NoOp /\ \A r \in Runs : pc[r] \in Early

ProvedIsPublished == (target = "published") <=> (proofs # {})

\* The part of the inductive invariant that concerns the item.
ItemInv ==
  /\ ItemTypeOK
  /\ SettledIsStale
  /\ WaitingIsUnsent
  /\ ProvedIsPublished
  /\ proofs \subseteq posts

-----------------------------------------------------------------------------
(* Steps that leave the item alone.                                        *)

\* A step of a run beyond "publishing" that does not touch the item.
LEMMA ProviderStepKeepsItem ==
  ASSUME ItemInv, NEW r \in Runs, pc[r] \notin Early,
         UNCHANGED <<itemVars, att>>, posts \subseteq posts'
  PROVE  ItemInv'
<1>1. target \notin {"queued", "cancelled"}
  BY DEF ItemInv, WaitingIsUnsent
<1> QED
  BY <1>1 DEF ItemInv, ItemTypeOK, SettledIsStale, WaitingIsUnsent, ProvedIsPublished,
              itemVars

\* A step that changes neither the item, nor the operation, nor where runs are.
LEMMA OutsideStepKeepsItem ==
  ASSUME ItemInv, UNCHANGED <<itemVars, att, op>>, posts \subseteq posts',
         \A r \in Runs : pc'[r] = pc[r]
  PROVE  ItemInv'
  BY DEF ItemInv, ItemTypeOK, SettledIsStale, WaitingIsUnsent, ProvedIsPublished, itemVars

-----------------------------------------------------------------------------
(* The handler.                                                            *)

\* Changing one attempt's status keeps the attempts a sequence of statuses.
LEMMA AttemptsType ==
  ASSUME NEW s \in Seq(AttemptStatus), NEW i, NEW v \in AttemptStatus
  PROVE  /\ [s EXCEPT ![i] = v] \in Seq(AttemptStatus)
         /\ Append(s, v) \in Seq(AttemptStatus)
<1>1. Append(s, v) \in Seq(AttemptStatus)
  OBVIOUS
<1>2. Len(s) \in Nat /\ s \in [1 .. Len(s) -> AttemptStatus]
  OBVIOUS
<1>3. [s EXCEPT ![i] = v] \in [1 .. Len(s) -> AttemptStatus]
  BY <1>2
<1> QED BY <1>1, <1>2, <1>3, SeqDef

\* Every step of the publish handler outside the provider protocol keeps the
\* item invariant, if a run completes only with the identifier of a live post.
LEMMA HandlerStepKeepsItem ==
  ASSUME ItemInv, posts \subseteq Runs,
         NEW Labels, pc \in [Actors -> Labels],
         NEW tryBlock, tryBlock \cap Early = {},
         NEW r \in Runs, HandlerStep(r, tryBlock),
         pc[r] = "complete" => loc[r].post \in posts
  PROVE  ItemInv'
<1> r \in Actors
  BY DEF Actors
<1>a. /\ {"started", "failed", "published"} \subseteq AttemptStatus
      /\ attempts \in Seq(AttemptStatus) /\ Len(attempts) \in Nat
  BY DEF AttemptStatus, ItemInv, ItemTypeOK
<1>b. DOMAIN attempts \subseteq Nat
  BY <1>a
<1>1. CASE Skip(r)
  BY <1>1 DEF Skip, Goto, itemVars, providerVars, ItemInv, ItemTypeOK, SettledIsStale,
              WaitingIsUnsent, ProvedIsPublished, Early
<1>2. CASE Begin(r)
  <2>1. ItemTypeOK'
    <3>1. att' \in [Runs -> Nat]
      BY <1>2, <1>b DEF Begin, Resumable, ItemInv, ItemTypeOK
    <3> QED BY <1>2, <3>1 DEF Begin, Fetch, ItemInv, ItemTypeOK
  <2>2. SettledIsStale' /\ ProvedIsPublished' /\ (proofs \subseteq posts)'
    BY <1>2 DEF Begin, providerVars, ItemInv, SettledIsStale, ProvedIsPublished
  <2>3. WaitingIsUnsent'
    <3>1. \E label \in {"start", "mark"} : pc' = [pc EXCEPT ![r] = label]
      BY <1>2 DEF Begin, Goto
    <3>2. op' = op /\ target' = target
      BY <1>2 DEF Begin
    <3> QED BY <3>1, <3>2 DEF ItemInv, WaitingIsUnsent, Early
  <2> QED BY <2>1, <2>2, <2>3 DEF ItemInv
<1>3. CASE StartPublishAttempt(r)
  <2>1. ItemTypeOK'
    <3>1. attempts' \in Seq(AttemptStatus)
      BY <1>3, <1>a, AttemptsType DEF StartPublishAttempt
    <3>2. att' \in [Runs -> Nat]
      BY <1>3, <1>a DEF StartPublishAttempt, ItemInv, ItemTypeOK
    <3> QED BY <1>3, <3>1, <3>2 DEF StartPublishAttempt, Commit, ItemInv, ItemTypeOK
  <2>2. SettledIsStale' /\ ProvedIsPublished' /\ (proofs \subseteq posts)'
    BY <1>3 DEF StartPublishAttempt, Commit, providerVars, ItemInv, SettledIsStale,
                ProvedIsPublished
  <2>3. WaitingIsUnsent'
    BY <1>3 DEF StartPublishAttempt, Goto, ItemInv, WaitingIsUnsent, Early
  <2> QED BY <2>1, <2>2, <2>3 DEF ItemInv
<1>4. CASE MarkPublishing(r)
  BY <1>4 DEF MarkPublishing, Commit, providerVars, ItemInv, ItemTypeOK, SettledIsStale,
              WaitingIsUnsent, ProvedIsPublished, TargetStatus
<1>5. CASE Prepare(r)
  BY <1>5, ProviderStepKeepsItem DEF Prepare, Early, providerVars
<1>6. CASE CompleteAutomaticPublication(r)
  <2>1. attempts' \in Seq(AttemptStatus)
    BY <1>6, <1>a, AttemptsType DEF CompleteAutomaticPublication
  <2> QED
    BY <1>6, <2>1 DEF CompleteAutomaticPublication, CommitLast, providerVars, ItemInv,
                ItemTypeOK, SettledIsStale, WaitingIsUnsent, ProvedIsPublished, TargetStatus
<1>7. CASE Finish(r)
  BY <1>7, ProviderStepKeepsItem DEF Finish, Early, providerVars
<1>8. CASE NeedsReview(r)
  BY <1>8 DEF NeedsReview, CommitLast, providerVars, ItemInv, ItemTypeOK, SettledIsStale,
              WaitingIsUnsent, ProvedIsPublished, TargetStatus
<1>9. CASE Trouble(r, tryBlock)
  BY <1>9, ProviderStepKeepsItem DEF Trouble, providerVars
<1>10. CASE FinishAttemptFailed(r)
  <2>1. attempts' \in Seq(AttemptStatus)
    BY <1>10, <1>a, AttemptsType DEF FinishAttemptFailed
  <2>2. pc[r] \notin Early
    BY <1>10 DEF FinishAttemptFailed, Early
  <2> QED
    BY <1>10, <2>1, <2>2 DEF FinishAttemptFailed, Commit, providerVars, ItemInv, ItemTypeOK,
                SettledIsStale, WaitingIsUnsent, ProvedIsPublished
<1>11. CASE MarkFailed(r)
  BY <1>11 DEF MarkFailed, CommitLast, providerVars, ItemInv, ItemTypeOK, SettledIsStale,
               WaitingIsUnsent, ProvedIsPublished, TargetStatus
<1>12. CASE Conflict(r)
  <2>1. pc[r] \in {"complete", "review"} \/ pc' = [pc EXCEPT ![r] = "done"]
    BY <1>12 DEF Conflict, Goto
  <2>2. WaitingIsUnsent'
    <3>1. op' = op /\ target' = target
      BY <1>12 DEF Conflict, itemVars
    <3>2. CASE pc[r] \in {"complete", "review"}
      BY <3>1, <3>2 DEF ItemInv, WaitingIsUnsent, Early
    <3>3. CASE pc' = [pc EXCEPT ![r] = "done"]
      BY <3>1, <3>3 DEF ItemInv, WaitingIsUnsent, Early
    <3> QED BY <2>1, <3>2, <3>3
  <2> QED
    BY <1>12, <2>2 DEF Conflict, itemVars, providerVars, ItemInv, ItemTypeOK, SettledIsStale,
                       ProvedIsPublished
<1>13. CASE Crash(r)
  <2>1. WaitingIsUnsent'
    BY <1>13 DEF Crash, Goto, itemVars, ItemInv, WaitingIsUnsent, Early
  <2> QED
    BY <1>13, <2>1 DEF Crash, itemVars, providerVars, ItemInv, ItemTypeOK, SettledIsStale,
                       ProvedIsPublished
<1> QED
  BY <1>1, <1>2, <1>3, <1>4, <1>5, <1>6, <1>7, <1>8, <1>9, <1>10, <1>11, <1>12, <1>13
  DEF HandlerStep

-----------------------------------------------------------------------------
(* The API.                                                                *)

\* Cancelling, editing and confirming keep the item invariant.
LEMMA ApiStepKeepsItem ==
  ASSUME ItemInv, NEW Labels, pc \in [Actors -> Labels], ApiStep
  PROVE  ItemInv'
<1>1. CASE CancelTarget
  BY <1>1 DEF CancelTarget, providerVars, ItemInv, ItemTypeOK, SettledIsStale,
              WaitingIsUnsent, ProvedIsPublished, TargetStatus
<1>2. CASE EditItem
  BY <1>2 DEF EditItem, providerVars, ItemInv, ItemTypeOK, SettledIsStale,
              WaitingIsUnsent, ProvedIsPublished
<1>3. ASSUME NEW o \in Operators, ConfirmGetItem(o) PROVE ItemInv'
  BY <1>3 DEF ConfirmGetItem, Fetch, Actors, providerVars, ItemInv, ItemTypeOK,
              SettledIsStale, WaitingIsUnsent, ProvedIsPublished
<1>4. ASSUME NEW o \in Operators, ConfirmGetOperation(o) PROVE ItemInv'
  <2>1. \A r \in Runs : pc'[r] = pc[r]
    BY <1>4, ActorsAssumption DEF ConfirmGetOperation, Goto, Actors
  <2> QED
    BY <1>4, <2>1, OutsideStepKeepsItem DEF ConfirmGetOperation, providerVars
<1>5. ASSUME NEW o \in Operators, ConfirmProviderPublication(o) PROVE ItemInv'
  <2>1. attempts' \in Seq(AttemptStatus)
    BY <1>5, AttemptsType DEF ConfirmProviderPublication, AttemptStatus, ItemInv, ItemTypeOK
  <2>2. proofs' # {} /\ proofs' \subseteq posts
    BY <1>5 DEF ConfirmProviderPublication, ItemInv
  <2> QED
    BY <1>5, <2>1, <2>2 DEF ConfirmProviderPublication, CommitLast, providerVars, ItemInv,
                ItemTypeOK, SettledIsStale, WaitingIsUnsent, ProvedIsPublished, TargetStatus
<1> QED BY <1>1, <1>2, <1>3, <1>4, <1>5 DEF ApiStep

-----------------------------------------------------------------------------
(* A published target.                                                     *)

\* Where the item invariant holds, no handler or API step moves a published
\* target or drops a proof: nobody has a copy that a commit would accept.
LEMMA PublishedStays ==
  ASSUME ItemInv, target = "published", NEW tryBlock,
         \/ \E r \in Runs : HandlerStep(r, tryBlock) \/ ProviderPublish(r)
         \/ ApiStep
  PROVE  target' = "published" /\ proofs \subseteq proofs'
<1>1. current = {}
  BY DEF ItemInv, SettledIsStale
<1>2. ASSUME NEW r \in Runs, HandlerStep(r, tryBlock)
      PROVE  target' = "published" /\ proofs \subseteq proofs'
  BY <1>1, <1>2 DEF HandlerStep, Skip, Begin, StartPublishAttempt, MarkPublishing, Prepare,
       CompleteAutomaticPublication, Finish, NeedsReview, Trouble, FinishAttemptFailed,
       MarkFailed, Conflict, Crash, Commit, CommitLast, itemVars
<1>3. ASSUME NEW r \in Runs, ProviderPublish(r)
      PROVE  target' = "published" /\ proofs \subseteq proofs'
  BY <1>3 DEF ProviderPublish, itemVars
<1>4. CASE ApiStep
  BY <1>1, <1>4 DEF ApiStep, CancelTarget, EditItem, ConfirmGetItem, ConfirmGetOperation,
       ConfirmProviderPublication, CommitLast, itemVars
<1> QED BY <1>2, <1>3, <1>4

-----------------------------------------------------------------------------
(* One run at a time.  Facebook and YouTube have no claim; what keeps their*)
(* operation consistent is that the queue gives the job to one run at a    *)
(* time.  The lemmas below are about any platform run that way.            *)

Stopped == {"idle", "done"}

OneAtATime ==
  \A q, r \in Runs : pc[q] \notin Stopped /\ pc[r] \notin Stopped => q = r

\* A run between the commit of "publishing" and its last commit finds the
\* target where it left it.
BusyIsPublishing ==
  \A r \in Runs :
    /\ pc[r] \notin Early \cup {"after", "fail"} => target = "publishing"
    /\ pc[r] = "after" => target = "published"
    /\ pc[r] = "fail" => target \in {"publishing", "published"}

\* An operator whose copy of the item would be accepted has read the stored
\* operation.
ConfirmIsFresh ==
  \A o \in Operators \cap current :
    /\ target = "action_required"
    /\ pc[o] = "confirm" => loc[o] = op

SequentialInv == OneAtATime /\ BusyIsPublishing /\ ConfirmIsFresh

\* The handler's steps keep it.
LEMMA HandlerStepKeepsSequential ==
  ASSUME ItemInv, SequentialInv, NEW Labels, pc \in [Actors -> Labels],
         NEW tryBlock, tryBlock \cap Early = {},
         NEW r \in Runs, \A q \in Runs \ {r} : pc[q] \in Stopped,
         HandlerStep(r, tryBlock)
  PROVE  SequentialInv'
<1>a. /\ r \in Actors /\ r \notin Operators
      /\ \A o \in Operators : o \in Actors
      /\ \A q \in Runs : q \in Actors
  BY ActorsAssumption DEF Actors
<1>b. /\ target = "published" => current = {}
      /\ \A q \in Runs \ {r} : pc[q] \in Early
  BY DEF ItemInv, SettledIsStale, Stopped, Early
<1>c. \A a \in Actors : a # r => pc'[a] = pc[a]
  BY DEF HandlerStep, Skip, Begin, StartPublishAttempt, MarkPublishing, Prepare,
       CompleteAutomaticPublication, Finish, NeedsReview, Trouble, FinishAttemptFailed,
       MarkFailed, Conflict, Crash, Goto
<1>1. OneAtATime'
  BY <1>a, <1>c DEF OneAtATime
<1>2. BusyIsPublishing'
  <2>1. ASSUME NEW q \in Runs \ {r}
        PROVE  pc'[q] \in Early
    BY <2>1, <1>a, <1>b, <1>c
  <2>2. /\ pc'[r] \notin Early \cup {"after", "fail"} => target' = "publishing"
        /\ pc'[r] = "after" => target' = "published"
        /\ pc'[r] = "fail" => target' \in {"publishing", "published"}
    <3>1. CASE Skip(r) \/ Begin(r) \/ StartPublishAttempt(r) \/ Finish(r) \/ NeedsReview(r)
                 \/ MarkFailed(r) \/ Crash(r)
      <4>1. pc'[r] \in Early
        BY <1>a, <3>1 DEF Skip, Begin, StartPublishAttempt, Finish, NeedsReview, MarkFailed, Crash,
             Goto, Early
      <4> QED BY <4>1 DEF Early
    <3>2. CASE MarkPublishing(r)
      BY <1>a, <3>2 DEF MarkPublishing, Goto
    <3>3. CASE Prepare(r)
      BY <1>a, <3>3 DEF Prepare, Goto, itemVars, SequentialInv, BusyIsPublishing, Early
    <3>4. CASE CompleteAutomaticPublication(r)
      BY <1>a, <3>4 DEF CompleteAutomaticPublication, Goto
    <3>5. CASE Trouble(r, tryBlock)
      BY <1>a, <3>5 DEF Trouble, Goto, itemVars, SequentialInv, BusyIsPublishing, Early
    <3>6. CASE FinishAttemptFailed(r)
      BY <1>a, <1>b, <3>6 DEF FinishAttemptFailed, Commit, Goto, itemVars, SequentialInv,
           BusyIsPublishing
    <3>7. CASE Conflict(r)
      BY <1>a, <3>7 DEF Conflict, Goto, itemVars, SequentialInv, BusyIsPublishing, Early
    <3> QED BY <3>1, <3>2, <3>3, <3>4, <3>5, <3>6, <3>7 DEF HandlerStep
  <2> QED BY <2>1, <2>2 DEF BusyIsPublishing, Early
<1>3. ConfirmIsFresh'
  <2>1. op' = op /\ loc' = loc
    BY DEF HandlerStep, Skip, Begin, StartPublishAttempt, MarkPublishing, Prepare,
         CompleteAutomaticPublication, Finish, NeedsReview, Trouble, FinishAttemptFailed,
         MarkFailed, Conflict, Crash
  <2>2. \/ target' = target /\ current' \subseteq current \cup {r}
        \/ current' \subseteq {r}
    BY DEF HandlerStep, Skip, Begin, StartPublishAttempt, MarkPublishing, Prepare,
         CompleteAutomaticPublication, Finish, NeedsReview, Trouble, FinishAttemptFailed,
         MarkFailed, Conflict, Crash, Commit, CommitLast, Fetch, itemVars
  <2> QED BY <1>a, <1>c, <2>1, <2>2 DEF SequentialInv, ConfirmIsFresh
<1> QED BY <1>1, <1>2, <1>3 DEF SequentialInv

\* A step of the provider protocol may do anything to the operation: the target
\* is publishing, so no operator's copy of the item is current.
LEMMA ProtocolStepKeepsSequential ==
  ASSUME SequentialInv, NEW Labels, pc \in [Actors -> Labels],
         NEW r \in Runs, \A q \in Runs \ {r} : pc[q] \in Stopped,
         pc[r] \notin Early \cup {"after", "fail"},
         NEW label, label # "after", Goto(r, label), UNCHANGED itemVars
  PROVE  SequentialInv'
<1>a. /\ r \in Actors /\ \A q \in Runs : q \in Actors
      /\ target = "publishing"
  BY DEF Actors, SequentialInv, BusyIsPublishing
<1>b. /\ pc'[r] = label
      /\ \A q \in Runs \ {r} : pc'[q] = pc[q] /\ pc[q] \in Early
  BY <1>a DEF Goto, Stopped, Early
<1>1. OneAtATime'
  BY <1>b DEF OneAtATime
<1>2. BusyIsPublishing'
  BY <1>a, <1>b DEF BusyIsPublishing, Early, itemVars
<1>3. ConfirmIsFresh'
  BY <1>a DEF SequentialInv, ConfirmIsFresh, itemVars
<1> QED BY <1>1, <1>2, <1>3 DEF SequentialInv

\* A confirmation that is accepted finds no run at work and changes exactly the
\* operation it was computed from.
LEMMA ConfirmIsAlone ==
  ASSUME SequentialInv, NEW o \in Operators, ConfirmProviderPublication(o)
  PROVE  loc[o] = op /\ target = "action_required" /\ \A r \in Runs : pc[r] \in Early
<1>1. o \in Operators \cap current /\ pc[o] = "confirm"
  BY DEF ConfirmProviderPublication, CommitLast
<1> QED BY <1>1 DEF SequentialInv, ConfirmIsFresh, BusyIsPublishing, Early

\* The API keeps it.
LEMMA ApiStepKeepsSequential ==
  ASSUME ItemInv, SequentialInv, NEW Labels, pc \in [Actors -> Labels],
         DOMAIN loc = Actors, ApiStep
  PROVE  SequentialInv'
<1>a. \A r \in Runs : r \in Actors /\ r \notin Operators
  BY ActorsAssumption DEF Actors
<1>b. \A r \in Runs : pc'[r] = pc[r]
  BY <1>a DEF ApiStep, CancelTarget, EditItem, ConfirmGetItem, ConfirmGetOperation,
       ConfirmProviderPublication, Goto
<1>1. OneAtATime'
  BY <1>b DEF SequentialInv, OneAtATime
<1>2. CASE CancelTarget
  <2>1. \A r \in Runs : pc[r] \in Early
    BY <1>2 DEF CancelTarget, ItemInv, WaitingIsUnsent
  <2> QED BY <1>1, <1>2, <1>b, <2>1 DEF CancelTarget, SequentialInv, BusyIsPublishing,
                ConfirmIsFresh, Early
<1>3. CASE EditItem
  BY <1>1, <1>3, <1>b DEF EditItem, SequentialInv, BusyIsPublishing, ConfirmIsFresh
<1>4. ASSUME NEW o \in Operators, ConfirmGetItem(o) PROVE SequentialInv'
  <2>1. BusyIsPublishing'
    BY <1>4, <1>b DEF ConfirmGetItem, SequentialInv, BusyIsPublishing
  <2>2. ConfirmIsFresh'
    BY <1>4 DEF ConfirmGetItem, Fetch, Goto, Actors, SequentialInv, ConfirmIsFresh
  <2> QED BY <1>1, <2>1, <2>2 DEF SequentialInv
<1>5. ASSUME NEW o \in Operators, ConfirmGetOperation(o) PROVE SequentialInv'
  <2>1. BusyIsPublishing'
    BY <1>5, <1>b DEF ConfirmGetOperation, itemVars, SequentialInv, BusyIsPublishing
  <2>2. ConfirmIsFresh'
    <3>1. ASSUME NEW b \in Operators \cap current, pc'[b] = "confirm" PROVE loc'[b] = op
      <4>1. CASE b = o
        BY <1>5, <4>1 DEF ConfirmGetOperation, Actors
      <4>2. CASE b # o
        BY <1>5, <3>1, <4>2 DEF ConfirmGetOperation, Goto, SequentialInv, ConfirmIsFresh
      <4> QED BY <4>1, <4>2
    <3> QED BY <1>5, <3>1 DEF ConfirmGetOperation, itemVars, SequentialInv, ConfirmIsFresh
  <2> QED BY <1>1, <2>1, <2>2 DEF SequentialInv
<1>6. ASSUME NEW o \in Operators, ConfirmProviderPublication(o) PROVE SequentialInv'
  <2>1. \A r \in Runs : pc[r] \in Early
    BY <1>6, ConfirmIsAlone
  <2> QED BY <1>1, <1>6, <1>b, <2>1 DEF ConfirmProviderPublication, CommitLast, SequentialInv,
                BusyIsPublishing, ConfirmIsFresh, Early
<1> QED BY <1>2, <1>3, <1>4, <1>5, <1>6 DEF ApiStep

-----------------------------------------------------------------------------
(***************************************************************************)
(* The safety of Instagram publishing for any number of handler runs and   *)
(* operators.                                                              *)
(*                                                                         *)
(* AtMostOnePost is about live posts only and is far from inductive.  The  *)
(* invariant below follows the request back to the moment the run may      *)
(* still send it (InstagramSent), ties its existence to the status of the  *)
(* stored operation (InstagramSentIsLate), and ties the claim holder's     *)
(* copy, from which every fenced save is computed, to that operation       *)
(* (HolderAgrees).  A run can then reach "send" only from a stored         *)
(* "ready", when nothing has been sent.                                    *)
(***************************************************************************)

InstagramLate == {"finalizing", "published", "uncertain"}

\* Posts, requests under way, and the run that is about to send one.
InstagramSent == inflight \cup posts \cup {r \in Runs : pc[r] = "send"}

InstagramSentIsLate == InstagramSent # {} => op.status \in InstagramLate

InstagramSentOnce == \A p, q \in InstagramSent : p = q

ClaimPcs == SavePcs \cup {"step", "send"}

\* The claim holder's copy has the stored status, except that an operator may
\* have confirmed the post in the meantime.
HolderAgrees ==
  \A r \in Runs : Holds(r) /\ pc[r] \in ClaimPcs
    => \/ loc[r].status = op.status
       \/ loc[r].status = "uncertain" /\ op.status = "published"

\* The status of the copy a run works on at each step.
InstagramLabelAgrees(status, label) ==
  /\ label \in {"create", "recover"} => status = "creating"
  /\ label = "wait" => status = "processing"
  /\ label = "finalize" => status = "ready"
  /\ label \in {"send", "sent", "settle"} => status = "finalizing"
  /\ label = "complete" => status = "published"
  /\ label = "adopt" => status # "none"

InstagramPcAgrees == \A r \in Runs : InstagramLabelAgrees(loc[r].status, pc[r])

Doubtful == {"uncertain", "published"}

\* An operator confirms an operation that was uncertain and cannot have become
\* anything else than published since.
ConfirmAgrees ==
  \A o \in Operators :
    pc[o] = "confirm" => loc[o].status = "uncertain" /\ op.status \in Doubtful

\* An identifier saved as published names a live post.
InstagramSavedIsLive ==
  /\ op.status = "published" => op.post \in posts
  /\ \A a \in Actors : loc[a].status = "published" => loc[a].post \in posts

InstagramProtocolTypeOK ==
  /\ op \in Operation \cup {NoOp}
  /\ posts \subseteq Runs
  /\ inflight \subseteq Runs
  /\ loc \in [Actors -> Operation \cup {NoOp}]
  /\ pc \in [Actors -> RunPc \cup OperatorPc]
  /\ \A r \in Runs : pc[r] \in RunPc
  /\ \A o \in Operators : pc[o] \in OperatorPc
  /\ claim \in [owner : Runs \cup {None}, live : BOOLEAN]

\* The part of the inductive invariant that concerns the provider operation.
InstagramProtocolInv ==
  /\ InstagramProtocolTypeOK
  /\ InstagramSentIsLate
  /\ InstagramSentOnce
  /\ HolderAgrees
  /\ InstagramPcAgrees
  /\ ConfirmAgrees
  /\ InstagramSavedIsLive

InstagramIInv == ItemInv /\ InstagramProtocolInv

-----------------------------------------------------------------------------
(* Facts about operations and actors.                                      *)

\* NoOp is no operation, and the fields of an operation have their types.
LEMMA InstagramOperationFacts ==
  /\ NoOp.status = "none" /\ NoOp \notin Operation
  /\ \A o \in Operation \cup {NoOp} : o.status # "none" => o \in Operation
  /\ \A o \in Operation, s \in OpStatus :
       [o EXCEPT !.status = s] \in Operation /\ [o EXCEPT !.status = s].status = s
  BY DEF NoOp, Operation, OpStatus

\* A step of a run that leaves the operation, the claim and the provider alone
\* keeps the protocol invariant if its copy fits where it goes.
LEMMA InstagramLocalStep ==
  ASSUME InstagramProtocolInv, NEW r \in Runs, NEW label \in RunPc \ {"send"}, Goto(r, label),
         InstagramLabelAgrees(loc[r].status, label),
         label \in ClaimPcs => pc[r] \in ClaimPcs,
         UNCHANGED <<op, loc, claim, posts, inflight>>
  PROVE  InstagramProtocolInv'
<1>1. r \in Actors /\ \A o \in Operators : o \in Actors /\ o # r
  BY ActorFacts
<1>2. /\ pc' \in [Actors -> RunPc \cup OperatorPc]
      /\ pc'[r] = label
      /\ \A a \in Actors : a # r => pc'[a] = pc[a]
  BY <1>1 DEF Goto, InstagramProtocolInv, InstagramProtocolTypeOK
<1>3. InstagramProtocolTypeOK'
  BY <1>1, <1>2, ActorFacts DEF InstagramProtocolInv, InstagramProtocolTypeOK
<1>4. InstagramSent' \subseteq InstagramSent
  BY <1>2, ActorFacts DEF InstagramSent
<1>5. InstagramSentIsLate' /\ InstagramSentOnce'
  BY <1>4 DEF InstagramProtocolInv, InstagramSentIsLate, InstagramSentOnce
<1>6. HolderAgrees'
  BY <1>2, ActorFacts DEF InstagramProtocolInv, HolderAgrees, Holds
<1>7. InstagramPcAgrees'
  BY <1>2, ActorFacts DEF InstagramProtocolInv, InstagramPcAgrees
<1>8. ConfirmAgrees' /\ InstagramSavedIsLive'
  BY <1>1, <1>2 DEF InstagramProtocolInv, ConfirmAgrees, InstagramSavedIsLive
<1> QED BY <1>3, <1>5, <1>6, <1>7, <1>8 DEF InstagramProtocolInv

\* Places where a run claims nothing about the operation.
InstagramQuietPc == {"idle", "start", "mark", "prepare", "provider", "review", "after",
            "fail", "markFailed", "lost", "lostMark", "done"}

\* Going to such a place keeps the protocol invariant.
LEMMA InstagramQuietStep ==
  ASSUME InstagramProtocolInv, NEW r \in Runs, NEW label \in InstagramQuietPc, Goto(r, label),
         UNCHANGED <<op, loc, claim, posts, inflight>>
  PROVE  InstagramProtocolInv'
<1>1. label \in RunPc \ {"send"} /\ label \notin ClaimPcs
  BY DEF InstagramQuietPc, RunPc, TryBlock, ClaimPcs, SavePcs
<1>2. InstagramLabelAgrees(loc[r].status, label)
  BY DEF InstagramQuietPc, InstagramLabelAgrees
<1> QED BY <1>1, <1>2, InstagramLocalStep

\* A fenced save keeps the protocol invariant if the saved status fits the
\* next step and does not take a request that was sent out of sight.
LEMMA FencedSave ==
  ASSUME InstagramProtocolInv, NEW r \in Runs,
         NEW value \in Operation, NEW label \in RunPc,
         SaveClaimed(r, value, label),
         InstagramLabelAgrees(value.status, label),
         op.status \in InstagramLate => value.status \in InstagramLate,
         label = "send" => op.status \notin InstagramLate /\ value.status \in InstagramLate,
         op.status \in Doubtful => value.status \in Doubtful,
         value.status = "published" => value.post \in posts
  PROVE  InstagramProtocolInv'
<1>1. r \in Actors /\ \A o \in Operators : o \in Actors /\ o # r
  BY ActorFacts
<1>2. /\ claim.owner = r
      /\ op' = value /\ claim' = claim /\ posts' = posts /\ inflight' = inflight
      /\ loc' = [loc EXCEPT ![r] = value]
      /\ pc' = [pc EXCEPT ![r] = label]
  BY DEF SaveClaimed, Holds, Goto, providerVars
<1>3. /\ pc' \in [Actors -> RunPc \cup OperatorPc]
      /\ pc'[r] = label
      /\ \A a \in Actors : a # r => pc'[a] = pc[a]
  BY <1>1, <1>2 DEF InstagramProtocolInv, InstagramProtocolTypeOK
<1>4. /\ loc' \in [Actors -> Operation \cup {NoOp}]
      /\ loc'[r] = value
      /\ \A a \in Actors : a # r => loc'[a] = loc[a]
  BY <1>1, <1>2 DEF InstagramProtocolInv, InstagramProtocolTypeOK
<1>5. InstagramProtocolTypeOK'
  BY <1>1, <1>2, <1>3, <1>4, ActorFacts DEF InstagramProtocolInv, InstagramProtocolTypeOK
<1>6. InstagramSentIsLate' /\ InstagramSentOnce'
  <2>1. CASE label # "send"
    <3>1. InstagramSent' \subseteq InstagramSent
      BY <1>2, <1>3, <2>1, ActorFacts DEF InstagramSent
    <3> QED BY <1>2, <3>1 DEF InstagramProtocolInv, InstagramSentIsLate, InstagramSentOnce
  <2>2. CASE label = "send"
    <3>1. InstagramSent = {}
      BY <2>2 DEF InstagramProtocolInv, InstagramSentIsLate
    <3>2. InstagramSent' \subseteq {r}
      BY <1>2, <1>3, <3>1, ActorFacts DEF InstagramSent
    <3> QED BY <1>2, <2>2, <3>2 DEF InstagramSentIsLate, InstagramSentOnce
  <2> QED BY <2>1, <2>2
<1>7. HolderAgrees'
  BY <1>2, <1>4, ActorFacts DEF HolderAgrees, Holds
<1>8. InstagramPcAgrees'
  BY <1>3, <1>4, ActorFacts DEF InstagramProtocolInv, InstagramPcAgrees
<1>9. ConfirmAgrees'
  BY <1>1, <1>2, <1>3, <1>4 DEF InstagramProtocolInv, ConfirmAgrees
<1>10. InstagramSavedIsLive'
  BY <1>2, <1>4 DEF InstagramProtocolInv, InstagramSavedIsLive
<1> QED BY <1>5, <1>6, <1>7, <1>8, <1>9, <1>10 DEF InstagramProtocolInv

\* What the invariant says of the holder of the claim at a save: its copy is
\* an operation in the status of the step it is at, and so is the stored one
\* unless an operator confirmed it.
LEMMA HolderFacts ==
  ASSUME InstagramProtocolInv, NEW r \in Runs, Holds(r), pc[r] \in SavePcs
  PROVE  /\ loc[r] \in Operation
         /\ InstagramLabelAgrees(loc[r].status, pc[r])
         /\ \/ loc[r].status = op.status
            \/ loc[r].status = "uncertain" /\ op.status = "published"
<1>1. InstagramLabelAgrees(loc[r].status, pc[r])
  BY DEF InstagramProtocolInv, InstagramPcAgrees
<1>2. loc[r].status # "none"
  BY <1>1 DEF InstagramLabelAgrees, SavePcs
<1>3. loc[r] \in Operation
  BY <1>2, InstagramOperationFacts, ActorFacts DEF InstagramProtocolInv, InstagramProtocolTypeOK
<1> QED
  BY <1>1, <1>3 DEF InstagramProtocolInv, HolderAgrees, ClaimPcs

-----------------------------------------------------------------------------
(* The protocol invariant, action by action.                               *)

\* claimExecution, for a new operation or one whose lease expired.
LEMMA ClaimStepKeepsProtocol ==
  ASSUME InstagramProtocolInv, att \in [Runs -> Nat], NEW r \in Runs,
         ClaimNew(r) \/ ClaimExisting(r)
  PROVE  InstagramProtocolInv'
<1>1. r \in Actors /\ \A o \in Operators : o \in Actors /\ o # r
  BY ActorFacts
<1>2. /\ UNCHANGED <<posts, inflight>>
      /\ claim' = [owner |-> r, live |-> TRUE]
      /\ loc' = [loc EXCEPT ![r] = op']
  BY DEF ClaimNew, ClaimExisting, providerVars
<1>3. /\ op' \in Operation
      /\ op' = op \/ (op = NoOp /\ op'.status = "creating")
      /\ \E label \in {"create", "recover", "adopt"} :
           pc' = [pc EXCEPT ![r] = label] /\ InstagramLabelAgrees(op'.status, label)
  <2>1. CASE ClaimNew(r)
    <3>1. op' = [status |-> "creating", container |-> None, post |-> None, attempt |-> att[r]]
      BY <2>1 DEF ClaimNew
    <3>2. op' \in Operation /\ op'.status = "creating" /\ op = NoOp
      BY <2>1, <3>1 DEF ClaimNew, Operation, OpStatus
    <3> QED BY <2>1, <3>2 DEF ClaimNew, Goto, InstagramLabelAgrees
  <2>2. CASE ClaimExisting(r)
    <3>1. op' = op /\ op \in Operation /\ op.status # "none"
      BY <2>2 DEF ClaimExisting, InstagramProtocolInv, InstagramProtocolTypeOK, Operation, OpStatus
    <3>2. CASE op.status = "creating"
      BY <2>2, <3>1, <3>2 DEF ClaimExisting, Goto, InstagramLabelAgrees
    <3>3. CASE op.status # "creating"
      BY <2>2, <3>1, <3>3 DEF ClaimExisting, Goto, InstagramLabelAgrees
    <3> QED BY <3>2, <3>3
  <2> QED BY <2>1, <2>2
<1>l. PICK label \in {"create", "recover", "adopt"} :
        pc' = [pc EXCEPT ![r] = label] /\ InstagramLabelAgrees(op'.status, label)
  BY <1>3
<1>4. /\ pc' \in [Actors -> RunPc \cup OperatorPc]
      /\ pc'[r] = label /\ label \in RunPc
      /\ \A a \in Actors : a # r => pc'[a] = pc[a]
  BY <1>1, <1>l DEF InstagramProtocolInv, InstagramProtocolTypeOK, RunPc, TryBlock
<1>5. /\ loc' \in [Actors -> Operation \cup {NoOp}]
      /\ loc'[r] = op'
      /\ \A a \in Actors : a # r => loc'[a] = loc[a]
  BY <1>1, <1>2, <1>3 DEF InstagramProtocolInv, InstagramProtocolTypeOK
<1>6. InstagramProtocolTypeOK'
  BY <1>1, <1>2, <1>3, <1>4, <1>5, ActorFacts DEF InstagramProtocolInv, InstagramProtocolTypeOK
<1>7. InstagramSentIsLate' /\ InstagramSentOnce'
  <2>1. InstagramSent' \subseteq InstagramSent
    BY <1>2, <1>4, ActorFacts DEF InstagramSent
  <2>2. op = NoOp => InstagramSent = {}
    BY InstagramOperationFacts DEF InstagramProtocolInv, InstagramSentIsLate, InstagramLate
  <2> QED BY <1>3, <2>1, <2>2 DEF InstagramProtocolInv, InstagramSentIsLate, InstagramSentOnce
<1>8. HolderAgrees'
  BY <1>2, <1>5, ActorFacts DEF HolderAgrees, Holds
<1>9. InstagramPcAgrees'
  BY <1>l, <1>4, <1>5, ActorFacts DEF InstagramProtocolInv, InstagramPcAgrees
<1>10. ConfirmAgrees'
  BY <1>1, <1>3, <1>4, <1>5, InstagramOperationFacts DEF InstagramProtocolInv, ConfirmAgrees, Doubtful
<1>11. InstagramSavedIsLive'
  BY <1>2, <1>3, <1>5, InstagramOperationFacts DEF InstagramProtocolInv, InstagramSavedIsLive
<1> QED BY <1>6, <1>7, <1>8, <1>9, <1>10, <1>11 DEF InstagramProtocolInv

\* Every save under the claim: container, readiness, intent to send and result.
LEMMA SaveStepKeepsProtocol ==
  ASSUME InstagramProtocolInv, att \in [Runs -> Nat], NEW r \in Runs,
         \/ CreateContainer(r) \/ CreateUncertain(r) \/ WaitReady(r) \/ WaitFailed(r)
         \/ SaveFinalizing(r) \/ FinalizeOk(r) \/ FinalizeUncertain(r)
  PROVE  InstagramProtocolInv'
<1> USE DEF InstagramLate, Doubtful, InstagramLabelAgrees, WithStatus
<1>a. pc[r] \in SavePcs /\ Holds(r)
  BY DEF CreateContainer, CreateUncertain, WaitReady, WaitFailed, SaveFinalizing,
         FinalizeOk, FinalizeUncertain, SaveClaimed, SavePcs
<1>b. /\ loc[r] \in Operation
      /\ InstagramLabelAgrees(loc[r].status, pc[r])
      /\ \/ loc[r].status = op.status
         \/ loc[r].status = "uncertain" /\ op.status = "published"
  BY <1>a, HolderFacts
<1>c. \A s \in OpStatus : WithStatus(r, s) \in Operation /\ WithStatus(r, s).status = s
  BY <1>b, InstagramOperationFacts
<1>d. /\ {"uncertain", "ready", "failed", "processing", "finalizing"} \subseteq OpStatus
      /\ {"step", "review", "finalize", "fail", "send", "complete"} \subseteq RunPc
  BY DEF OpStatus, RunPc, TryBlock
<1>1. CASE CreateContainer(r)
  <2> DEFINE value == [loc[r] EXCEPT !.status = "processing", !.container = r]
  <2>1. value \in Operation /\ value.status = "processing"
    BY <1>b DEF Operation, OpStatus
  <2>2. op.status = "creating"
    BY <1>1, <1>b DEF CreateContainer
  <2>3. SaveClaimed(r, value, "step")
    BY <1>1 DEF CreateContainer
  <2> HIDE DEF value
  <2> QED BY <1>d, <2>1, <2>2, <2>3, FencedSave
<1>2. CASE CreateUncertain(r)
  <2>1. SaveClaimed(r, WithStatus(r, "uncertain"), "review")
    BY <1>2 DEF CreateUncertain
  <2> HIDE DEF WithStatus
  <2> QED BY <1>c, <1>d, <2>1, FencedSave
<1>3. CASE WaitReady(r)
  <2>1. SaveClaimed(r, WithStatus(r, "ready"), "finalize") /\ op.status = "processing"
    BY <1>3, <1>b DEF WaitReady
  <2> HIDE DEF WithStatus
  <2> QED BY <1>c, <1>d, <2>1, FencedSave
<1>4. CASE WaitFailed(r)
  <2>1. PICK status \in {"failed", "processing", "ready"} :
          SaveClaimed(r, WithStatus(r, status), "fail")
    BY <1>4 DEF WaitFailed
  <2>2. op.status = "processing"
    BY <1>4, <1>b DEF WaitFailed
  <2> HIDE DEF WithStatus
  <2> QED BY <1>c, <1>d, <2>1, <2>2, FencedSave
<1>5. CASE SaveFinalizing(r)
  <2>1. SaveClaimed(r, WithStatus(r, "finalizing"), "send") /\ op.status = "ready"
    BY <1>5, <1>b DEF SaveFinalizing
  <2> HIDE DEF WithStatus
  <2> QED BY <1>c, <1>d, <2>1, FencedSave
<1>6. CASE FinalizeOk(r)
  <2> DEFINE value == [loc[r] EXCEPT !.status = "published", !.post = r]
  <2>1. value \in Operation /\ value.status = "published" /\ value.post = r
    BY <1>b DEF Operation, OpStatus
  <2>2. SaveClaimed(r, value, "complete") /\ r \in posts
    BY <1>6 DEF FinalizeOk
  <2> HIDE DEF value
  <2> QED BY <1>d, <2>1, <2>2, FencedSave
<1>7. CASE FinalizeUncertain(r)
  <2>1. SaveClaimed(r, WithStatus(r, "uncertain"), "review")
    BY <1>7 DEF FinalizeUncertain
  <2> HIDE DEF WithStatus
  <2> QED BY <1>c, <1>d, <2>1, FencedSave
<1> QED BY <1>1, <1>2, <1>3, <1>4, <1>5, <1>6, <1>7

\* A run that takes over writes its own attempt number into the operation.
LEMMA AdoptKeepsProtocol ==
  ASSUME InstagramProtocolInv, att \in [Runs -> Nat], NEW r \in Runs, AdoptAttempt(r)
  PROVE  InstagramProtocolInv'
<1>a. pc[r] = "adopt" /\ pc[r] \in SavePcs /\ pc[r] \in ClaimPcs
  BY DEF AdoptAttempt, SavePcs, ClaimPcs
<1>b. "step" \in RunPc \ {"send"} /\ \A s : InstagramLabelAgrees(s, "step")
  BY DEF RunPc, TryBlock, InstagramLabelAgrees
<1>1. CASE loc[r].attempt = att[r]
  BY <1>1, <1>a, <1>b, InstagramLocalStep DEF AdoptAttempt, providerVars
<1>2. CASE loc[r].attempt # att[r]
  <2> DEFINE value == [loc[r] EXCEPT !.attempt = att[r]]
  <2>1. SaveClaimed(r, value, "step")
    BY <1>2 DEF AdoptAttempt
  <2>2. /\ loc[r] \in Operation
        /\ \/ loc[r].status = op.status
           \/ loc[r].status = "uncertain" /\ op.status = "published"
    BY <1>a, <2>1, HolderFacts DEF SaveClaimed
  <2>3. value \in Operation /\ value.status = loc[r].status /\ value.post = loc[r].post
    BY <2>2 DEF Operation
  <2>4. value.status = "published" => value.post \in posts
    BY <2>3, ActorFacts DEF InstagramProtocolInv, InstagramSavedIsLive
  <2> HIDE DEF value
  <2> QED BY <1>b, <2>1, <2>2, <2>3, <2>4, FencedSave DEF InstagramLate, Doubtful
<1> QED BY <1>1, <1>2

\* officialPublishNextStep sends a run only where its copy allows.
LEMMA RouteKeepsProtocol ==
  ASSUME InstagramProtocolInv, NEW r \in Runs, Route(r)
  PROVE  InstagramProtocolInv'
<1> DEFINE label == NextStep(loc[r].status)
<1>1. /\ label \in RunPc \ {"send"}
      /\ InstagramLabelAgrees(loc[r].status, label)
  BY DEF NextStep, InstagramLabelAgrees, RunPc, TryBlock
<1>2. Goto(r, label) /\ pc[r] \in ClaimPcs /\ UNCHANGED <<op, loc, claim, posts, inflight>>
  BY DEF Route, ClaimPcs, providerVars
<1> HIDE DEF label
<1> QED BY <1>1, <1>2, InstagramLocalStep

\* Sending turns "about to send" into a request under way.
LEMMA SendKeepsProtocol ==
  ASSUME InstagramProtocolInv, NEW r \in Runs, Send(r)
  PROVE  InstagramProtocolInv'
<1>1. r \in Actors /\ \A o \in Operators : o \in Actors /\ o # r
  BY ActorFacts
<1>2. /\ pc[r] = "send"
      /\ inflight' = inflight \cup {r}
      /\ UNCHANGED <<op, loc, claim, posts>>
      /\ pc' \in [Actors -> RunPc \cup OperatorPc]
      /\ pc'[r] = "sent"
      /\ \A a \in Actors : a # r => pc'[a] = pc[a]
  BY <1>1 DEF Send, Goto, InstagramProtocolInv, InstagramProtocolTypeOK, RunPc, TryBlock
<1>3. InstagramProtocolTypeOK'
  BY <1>1, <1>2, ActorFacts DEF InstagramProtocolInv, InstagramProtocolTypeOK, RunPc, TryBlock
<1>4. InstagramSent' \subseteq InstagramSent
  BY <1>2, ActorFacts DEF InstagramSent
<1>5. InstagramSentIsLate' /\ InstagramSentOnce'
  BY <1>2, <1>4 DEF InstagramProtocolInv, InstagramSentIsLate, InstagramSentOnce
<1>6. HolderAgrees'
  BY <1>2, ActorFacts DEF InstagramProtocolInv, HolderAgrees, Holds, ClaimPcs
<1>7. InstagramPcAgrees'
  BY <1>2, ActorFacts DEF InstagramProtocolInv, InstagramPcAgrees, InstagramLabelAgrees
<1>8. ConfirmAgrees' /\ InstagramSavedIsLive'
  BY <1>1, <1>2 DEF InstagramProtocolInv, ConfirmAgrees, InstagramSavedIsLive
<1> QED BY <1>3, <1>5, <1>6, <1>7, <1>8 DEF InstagramProtocolInv

\* Every other step of a run, on any platform path, is quiet.
LEMMA InstagramHandlerKeepsProtocol ==
  ASSUME InstagramProtocolInv, NEW r \in Runs,
         \/ HandlerStep(r, TryBlock) /\ UNCHANGED claim
         \/ ClaimBusy(r) \/ LoseClaim(r) \/ ClaimLostFetch(r) \/ ClaimLostMark(r)
  PROVE  InstagramProtocolInv'
<1>1. /\ \E label \in InstagramQuietPc : Goto(r, label)
      /\ UNCHANGED <<op, loc, claim, posts, inflight>>
  BY DEF HandlerStep, Skip, Begin, StartPublishAttempt, MarkPublishing, Prepare,
         CompleteAutomaticPublication, Finish, NeedsReview, Trouble, FinishAttemptFailed,
         MarkFailed, Conflict, Crash, ClaimBusy, LoseClaim, ClaimLostFetch, ClaimLostMark,
         providerVars, InstagramQuietPc
<1> QED BY <1>1, InstagramQuietStep

\* The provider carries out a request.
LEMMA InstagramProviderPublishKeepsProtocol ==
  ASSUME InstagramProtocolInv, NEW r \in Runs, ProviderPublish(r), UNCHANGED claim
  PROVE  InstagramProtocolInv'
<1>1. InstagramSent' = InstagramSent /\ UNCHANGED <<op, loc, pc>> /\ posts \subseteq posts'
  BY DEF ProviderPublish, InstagramSent
<1>2. InstagramProtocolTypeOK'
  BY <1>1 DEF ProviderPublish, InstagramProtocolInv, InstagramProtocolTypeOK
<1>3. InstagramSentIsLate' /\ InstagramSentOnce'
  BY <1>1 DEF InstagramProtocolInv, InstagramSentIsLate, InstagramSentOnce
<1>4. HolderAgrees' /\ InstagramPcAgrees' /\ ConfirmAgrees' /\ InstagramSavedIsLive'
  BY <1>1 DEF InstagramProtocolInv, HolderAgrees, Holds, InstagramPcAgrees, ConfirmAgrees, InstagramSavedIsLive
<1> QED BY <1>2, <1>3, <1>4 DEF InstagramProtocolInv

\* An expiring lease takes the claim from its holder.
LEMMA LeaseExpiresKeepsProtocol ==
  ASSUME InstagramProtocolInv, LeaseExpires
  PROVE  InstagramProtocolInv'
<1>1. UNCHANGED <<op, posts, inflight, pc, loc>>
  BY DEF LeaseExpires, vars
<1>2. claim' \in [owner : Runs \cup {None}, live : BOOLEAN] /\ claim'.live = FALSE
  BY DEF LeaseExpires, InstagramProtocolInv, InstagramProtocolTypeOK
<1>3. InstagramProtocolTypeOK'
  BY <1>1, <1>2 DEF InstagramProtocolInv, InstagramProtocolTypeOK
<1>4. InstagramSentIsLate' /\ InstagramSentOnce' /\ InstagramPcAgrees' /\ ConfirmAgrees' /\ InstagramSavedIsLive'
  BY <1>1 DEF InstagramProtocolInv, InstagramSentIsLate, InstagramSentOnce, InstagramSent, InstagramPcAgrees,
       ConfirmAgrees, InstagramSavedIsLive
<1>5. HolderAgrees'
  BY <1>2 DEF HolderAgrees, Holds
<1> QED BY <1>3, <1>4, <1>5 DEF InstagramProtocolInv

\* The operator's confirmation stores what it read, as published: by then the
\* holder's copy says uncertain or published.
LEMMA InstagramApiStepKeepsProtocol ==
  ASSUME InstagramProtocolInv, ApiStep, UNCHANGED claim
  PROVE  InstagramProtocolInv'
<1>1. CASE CancelTarget \/ EditItem
  <2>1. UNCHANGED <<op, posts, inflight, pc, loc, claim>>
    BY <1>1 DEF CancelTarget, EditItem, providerVars
  <2> QED
    BY <2>1 DEF InstagramProtocolInv, InstagramProtocolTypeOK, InstagramSentIsLate, InstagramSentOnce,
         InstagramSent, HolderAgrees, Holds,
                InstagramPcAgrees, ConfirmAgrees, InstagramSavedIsLive
<1>2. ASSUME NEW o \in Operators,
             ConfirmGetItem(o) \/ ConfirmGetOperation(o) \/ ConfirmProviderPublication(o)
      PROVE  InstagramProtocolInv'
  <2>1. o \in Actors /\ o \notin Runs /\ \A r \in Runs : r \in Actors /\ r # o
    BY ActorFacts
  <2>2. PICK label \in {"read", "confirm", "done"} : pc' = [pc EXCEPT ![o] = label]
    BY <1>2 DEF ConfirmGetItem, ConfirmGetOperation, ConfirmProviderPublication, Goto
  <2>3. /\ pc' \in [Actors -> RunPc \cup OperatorPc]
        /\ pc'[o] = label /\ label \in OperatorPc
        /\ \A a \in Actors : a # o => pc'[a] = pc[a]
    BY <2>1, <2>2 DEF InstagramProtocolInv, InstagramProtocolTypeOK, OperatorPc
  <2>4. UNCHANGED <<posts, inflight, claim>> /\ InstagramSent' = InstagramSent
    <3>1. UNCHANGED <<posts, inflight, claim>>
      BY <1>2 DEF ConfirmGetItem, ConfirmGetOperation, ConfirmProviderPublication, providerVars
    <3> QED BY <2>1, <2>3, <3>1 DEF InstagramSent
  <2>5. /\ loc' \in [Actors -> Operation \cup {NoOp}]
        /\ \A a \in Actors : a # o => loc'[a] = loc[a]
        /\ loc'[o] = loc[o] \/ (loc'[o] = op /\ op.status = "uncertain")
    BY <1>2, <2>1 DEF ConfirmGetItem, ConfirmGetOperation, ConfirmProviderPublication,
                      InstagramProtocolInv, InstagramProtocolTypeOK
  <2>6. \/ op' = op
        \/ /\ op.status \in Doubtful
           /\ op' \in Operation /\ op'.status = "published" /\ op'.post \in posts
    <3>1. CASE ConfirmGetItem(o) \/ ConfirmGetOperation(o)
      BY <3>1 DEF ConfirmGetItem, ConfirmGetOperation
    <3>2. CASE ConfirmProviderPublication(o)
      <4>1. PICK p \in posts : op' = [loc[o] EXCEPT !.status = "published", !.post = p]
        BY <3>2 DEF ConfirmProviderPublication
      <4>2. loc[o].status = "uncertain" /\ op.status \in Doubtful
        BY <3>2 DEF ConfirmProviderPublication, InstagramProtocolInv, ConfirmAgrees
      <4>3. loc[o] \in Operation /\ p \in Runs
        BY <2>1, <4>2, InstagramOperationFacts DEF InstagramProtocolInv, InstagramProtocolTypeOK
      <4> QED BY <4>1, <4>2, <4>3 DEF Operation, OpStatus
    <3> QED BY <1>2, <3>1, <3>2
  <2>7. InstagramProtocolTypeOK'
    BY <2>1, <2>3, <2>4, <2>5, <2>6, ActorFacts DEF InstagramProtocolInv, InstagramProtocolTypeOK
  <2>8. InstagramSentIsLate' /\ InstagramSentOnce'
    BY <2>4, <2>6 DEF InstagramProtocolInv, InstagramSentIsLate, InstagramSentOnce, InstagramLate
  <2>9. HolderAgrees'
    BY <2>1, <2>3, <2>4, <2>5, <2>6 DEF InstagramProtocolInv, HolderAgrees, Holds, Doubtful
  <2>10. InstagramPcAgrees'
    BY <2>1, <2>3, <2>5 DEF InstagramProtocolInv, InstagramPcAgrees
  <2>11. ConfirmAgrees'
    <3> SUFFICES ASSUME NEW q \in Operators, pc'[q] = "confirm"
                 PROVE  loc'[q].status = "uncertain" /\ op'.status \in Doubtful
      BY DEF ConfirmAgrees
    <3>1. CASE q # o
      BY <2>3, <2>5, <2>6, <3>1, ActorFacts DEF InstagramProtocolInv, ConfirmAgrees, Doubtful
    <3>2. CASE q = o
      <4>1. ConfirmGetOperation(o)
        BY <1>2, <2>1, <3>2 DEF ConfirmGetItem, ConfirmProviderPublication, Goto,
                                InstagramProtocolInv, InstagramProtocolTypeOK
      <4> QED
        BY <2>1, <3>2, <4>1 DEF ConfirmGetOperation, InstagramProtocolInv, InstagramProtocolTypeOK, Doubtful
    <3> QED BY <3>1, <3>2
  <2>12. InstagramSavedIsLive'
    BY <2>4, <2>5, <2>6 DEF InstagramProtocolInv, InstagramSavedIsLive
  <2> QED BY <2>7, <2>8, <2>9, <2>10, <2>11, <2>12 DEF InstagramProtocolInv
<1> QED BY <1>1, <1>2 DEF ApiStep

-----------------------------------------------------------------------------
(* The inductive invariant.                                                *)

\* A target just scheduled satisfies the invariant.
LEMMA InstagramInitIInv == Init => InstagramIInv
<1> SUFFICES ASSUME Init PROVE InstagramIInv
  OBVIOUS
<1> USE DEF Init, TargetInit
<1>1. ItemInv
  BY DEF ItemInv, ItemTypeOK, SettledIsStale, WaitingIsUnsent, ProvedIsPublished, Early,
         TargetStatus, Actors
<1>2. InstagramProtocolTypeOK
  BY ActorFacts DEF InstagramProtocolTypeOK, RunPc, OperatorPc, NoClaim, Actors
<1>3. InstagramSent = {}
  BY ActorFacts DEF InstagramSent
<1>4. InstagramSentIsLate /\ InstagramSentOnce
  BY <1>3 DEF InstagramSentIsLate, InstagramSentOnce
<1>5. HolderAgrees
  BY DEF HolderAgrees, Holds, NoClaim
<1>6. InstagramPcAgrees /\ ConfirmAgrees
  BY ActorFacts DEF InstagramPcAgrees, InstagramLabelAgrees, ConfirmAgrees
<1>7. InstagramSavedIsLive
  BY InstagramOperationFacts DEF InstagramSavedIsLive
<1> QED BY <1>1, <1>2, <1>4, <1>5, <1>6, <1>7 DEF InstagramIInv, InstagramProtocolInv

\* The provider protocol leaves the item to the handler.
LEMMA InstagramStepKeepsItem ==
  ASSUME InstagramIInv, NEW r \in Runs, InstagramStep(r)
  PROVE  ItemInv'
<1>1. CASE ClaimLostFetch(r)
  BY <1>1, ActorFacts DEF ClaimLostFetch, Fetch, providerVars, InstagramIInv, ItemInv, ItemTypeOK,
       SettledIsStale, WaitingIsUnsent, ProvedIsPublished, Early
<1>2. CASE ClaimLostMark(r)
  BY <1>2 DEF ClaimLostMark, CommitLast, providerVars, InstagramIInv, ItemInv, ItemTypeOK,
       SettledIsStale, WaitingIsUnsent, ProvedIsPublished, TargetStatus
<1>3. CASE ~ClaimLostFetch(r) /\ ~ClaimLostMark(r)
  <2>1. pc[r] \notin Early /\ UNCHANGED <<itemVars, att>> /\ posts \subseteq posts'
    BY <1>3 DEF InstagramStep, ClaimNew, ClaimExisting, ClaimBusy, LoseClaim, CreateContainer,
         CreateUncertain, AdoptAttempt, Route, WaitReady, WaitFailed, SaveFinalizing, Send,
         FinalizeOk, FinalizeUncertain, SaveClaimed, SavePcs, providerVars, Early
  <2> QED BY <2>1, ProviderStepKeepsItem DEF InstagramIInv
<1> QED BY <1>1, <1>2, <1>3

\* Every step of the system keeps the invariant.
LEMMA InstagramNextKeepsIInv == InstagramIInv /\ [Next]_instagramVars => InstagramIInv'
<1> SUFFICES ASSUME InstagramIInv, [Next]_instagramVars PROVE InstagramIInv'
  OBVIOUS
<1>a. att \in [Runs -> Nat] /\ posts \subseteq Runs /\ pc \in [Actors -> RunPc \cup OperatorPc]
  BY DEF InstagramIInv, ItemInv, ItemTypeOK, InstagramProtocolInv, InstagramProtocolTypeOK
<1>1. ASSUME NEW r \in Runs, InstagramStep(r) PROVE InstagramIInv'
  <2>1. ItemInv'
    BY <1>1, InstagramStepKeepsItem
  <2>2. InstagramProtocolInv'
    BY <1>1, <1>a, ClaimStepKeepsProtocol, SaveStepKeepsProtocol, AdoptKeepsProtocol,
       RouteKeepsProtocol, SendKeepsProtocol, InstagramHandlerKeepsProtocol DEF InstagramStep, InstagramIInv
  <2> QED BY <2>1, <2>2 DEF InstagramIInv
<1>2. ASSUME NEW r \in Runs, HandlerStep(r, TryBlock), UNCHANGED claim PROVE InstagramIInv'
  <2>1. pc[r] = "complete" => loc[r].post \in posts
    BY ActorFacts DEF InstagramIInv, InstagramProtocolInv, InstagramPcAgrees, InstagramLabelAgrees,
         InstagramSavedIsLive
  <2>2. TryBlock \cap Early = {}
    BY DEF TryBlock, Early
  <2>3. ItemInv'
    BY <1>2, <1>a, <2>1, <2>2, HandlerStepKeepsItem DEF InstagramIInv
  <2> QED BY <1>2, <2>3, InstagramHandlerKeepsProtocol DEF InstagramIInv
<1>3. ASSUME NEW r \in Runs, ProviderPublish(r), UNCHANGED claim PROVE InstagramIInv'
  <2>1. ItemInv'
    BY <1>3, OutsideStepKeepsItem DEF ProviderPublish, InstagramIInv
  <2> QED BY <1>3, <2>1, InstagramProviderPublishKeepsProtocol DEF InstagramIInv
<1>4. ASSUME ApiStep, UNCHANGED claim PROVE InstagramIInv'
  BY <1>4, <1>a, ApiStepKeepsItem, InstagramApiStepKeepsProtocol DEF InstagramIInv
<1>5. CASE LeaseExpires
  <2>1. ItemInv'
    BY <1>5, OutsideStepKeepsItem DEF LeaseExpires, vars, itemVars, InstagramIInv
  <2> QED BY <1>5, <2>1, LeaseExpiresKeepsProtocol DEF InstagramIInv
<1>6. CASE UNCHANGED instagramVars
  BY <1>6 DEF instagramVars, vars, InstagramIInv, ItemInv, ItemTypeOK, SettledIsStale,
       WaitingIsUnsent, ProvedIsPublished, InstagramProtocolInv, InstagramProtocolTypeOK,
       InstagramSentIsLate, InstagramSentOnce,
       InstagramSent, HolderAgrees, Holds, InstagramPcAgrees, ConfirmAgrees, InstagramSavedIsLive
<1> QED BY <1>1, <1>2, <1>3, <1>4, <1>5, <1>6 DEF Next, SharedStep

\* The inductive invariant holds in every reachable state, whatever the number
\* of runs and operators.
THEOREM InstagramInvariant == Spec => []InstagramIInv
  BY InstagramInitIInv, InstagramNextKeepsIInv, PTL DEF Spec

-----------------------------------------------------------------------------
(* The properties.                                                         *)

\* Every variable has its type.
THEOREM TypeCorrect == Spec => []TypeOK
<1>1. InstagramIInv => TypeOK
  BY DEF InstagramIInv, ItemInv, ItemTypeOK, InstagramProtocolInv, InstagramProtocolTypeOK, TypeOK, TargetTypeOK
<1> QED BY <1>1, InstagramInvariant, PTL

\* However many executions of the publish handler overlap, expire or stop, the
\* Instagram protocol makes at most one live post for the target.
THEOREM PostsOnce == Spec => []AtMostOnePost
<1>1. InstagramIInv => AtMostOnePost
  BY DEF InstagramIInv, InstagramProtocolInv, InstagramSentOnce, InstagramSent, AtMostOnePost
<1> QED BY <1>1, InstagramInvariant, PTL

\* A live post is always visible in the stored operation.
THEOREM PostIsRecorded == Spec => []LivePostIsRecorded
<1>1. InstagramIInv => LivePostIsRecorded
  BY DEF InstagramIInv, InstagramProtocolInv, InstagramSentIsLate, InstagramSent, InstagramLate,
       LivePostIsRecorded
<1> QED BY <1>1, InstagramInvariant, PTL

\* A proof the item keeps always names a live post.
THEOREM ProofsAreSound == Spec => []ProofIsLive
<1>1. InstagramIInv => ProofIsLive
  BY DEF InstagramIInv, ItemInv, ProvedIsPublished, ProofIsLive
<1> QED BY <1>1, InstagramInvariant, PTL

\* Exactly the published target has a proof: the completion and the operator's
\* confirmation are the only commits that add one, and both publish the target.
THEOREM ProvedIffPublished == Spec => []PublishedIffProved
<1>1. InstagramIInv => PublishedIffProved
  BY DEF InstagramIInv, ItemInv, ProvedIsPublished, PublishedIffProved
<1> QED BY <1>1, InstagramInvariant, PTL

\* Nothing is sent for a target that was cancelled while it waited.
THEOREM CancelWins == Spec => []CancelledIsNeverSent
<1>1. InstagramIInv => CancelledIsNeverSent
  <2> SUFFICES ASSUME InstagramIInv, target = "cancelled"
               PROVE  posts = {} /\ inflight = {} /\ op = NoOp
    BY DEF CancelledIsNeverSent
  <2>1. op = NoOp
    BY DEF InstagramIInv, ItemInv, WaitingIsUnsent
  <2>2. InstagramSent = {}
    BY <2>1, InstagramOperationFacts DEF InstagramIInv, InstagramProtocolInv, InstagramSentIsLate, InstagramLate
  <2> QED BY <2>1, <2>2 DEF InstagramSent
<1> QED BY <1>1, InstagramInvariant, PTL

\* A published target stays published and keeps its proofs.
THEOREM PublishedForGood == Spec => PublishedIsFinal
<1>1. InstagramIInv /\ [Next]_instagramVars
        => [target = "published" => target' = "published" /\ proofs \subseteq proofs']_instagramVars
  <2> SUFFICES ASSUME InstagramIInv, Next, target = "published"
               PROVE  target' = "published" /\ proofs \subseteq proofs'
    OBVIOUS
  <2>1. current = {}
    BY DEF InstagramIInv, ItemInv, SettledIsStale
  <2>2. ASSUME NEW r \in Runs, InstagramStep(r)
        PROVE  target' = "published" /\ proofs \subseteq proofs'
    BY <2>1, <2>2 DEF InstagramStep, ClaimNew, ClaimExisting, ClaimBusy, LoseClaim,
         CreateContainer, CreateUncertain, AdoptAttempt, Route, WaitReady, WaitFailed,
         SaveFinalizing, Send, FinalizeOk, FinalizeUncertain, ClaimLostFetch, ClaimLostMark,
         SaveClaimed, CommitLast, itemVars
  <2>3. CASE SharedStep
    BY <2>3, PublishedStays DEF SharedStep, InstagramIInv
  <2>4. CASE LeaseExpires
    BY <2>4 DEF LeaseExpires, vars
  <2> QED BY <2>2, <2>3, <2>4 DEF Next
<1> QED BY <1>1, InstagramInvariant, PTL DEF Spec, PublishedIsFinal

-----------------------------------------------------------------------------
(***************************************************************************)
(* The safety of Facebook publishing for any number of handler runs and    *)
(* operators, when the queue gives the job to one run at a time.           *)
(*                                                                         *)
(* There is no claim to reason from.  The invariant says instead that the  *)
(* copy a run works on is the stored operation (CopyIsOperation): nobody   *)
(* else saves it while the run is under way, and an operator's             *)
(* confirmation is accepted only when no run is (ConfirmIsAlone).  A       *)
(* request exists only once "finalizing" is stored (FacebookSentIsLate),   *)
(* also one whose sender stopped, so that no later run finds its way to    *)
(* "send".                                                                 *)
(***************************************************************************)

FacebookLate == {"finalizing", "uncertain", "published"}

\* Live posts and requests that may still become one.
FacebookSent == posts \cup inflight

FacebookSentIsLate == FacebookSent # {} => op.status \in FacebookLate

FacebookSentOnce == \A p, q \in FacebookSent : p = q

\* A saved identifier names a live post, and a published operation has one.
FacebookSavedIsLive ==
  /\ op.post # None => op.post \in posts
  /\ op.status = "published" => op.post # None

\* Steps at which a run works on the operation it read or saved.
ProtocolPc == {"intent", "adopt", "step", "finalize", "send", "sent", "verify",
               "settle", "complete", "review"}

CopyIsOperation == \A r \in Runs : pc[r] \in ProtocolPc => loc[r] = op

\* The operation a run finds at each step.
FacebookLabelAgrees(o, label) ==
  /\ label = "intent" => o = NoOp
  /\ label \in {"adopt", "step"} => o # NoOp
  /\ label = "finalize" => o.status = "ready"
  /\ label \in {"send", "sent", "verify", "settle"} => o.status = "finalizing"
  /\ label = "complete" => o.status = "published"
  /\ label = "review" => o.status = "uncertain"

FacebookPcAgrees == \A r \in Runs : FacebookLabelAgrees(op, pc[r])

\* Nothing has been sent when a run is about to send.
SendIsFirst == (\E r \in Runs : pc[r] = "send") => FacebookSent = {}

\* What the target's status says of the operation.
FacebookTargetAgrees ==
  /\ target = "action_required" => op.status = "uncertain"
  /\ target = "published" => op.status = "published"

FacebookProtocolTypeOK ==
  /\ op \in Operation \cup {NoOp}
  /\ op.status \in {"none", "ready"} \cup FacebookLate
  /\ posts \subseteq Runs
  /\ inflight \subseteq Runs
  /\ loc \in [Actors -> Operation \cup {NoOp}]
  /\ pc \in [Actors -> FacebookRunPc \cup OperatorPc]
  /\ \A r \in Runs : pc[r] \in FacebookRunPc
  /\ \A o \in Operators : pc[o] \in OperatorPc

FacebookProtocolInv ==
  /\ FacebookProtocolTypeOK
  /\ FacebookSentIsLate
  /\ FacebookSentOnce
  /\ FacebookSavedIsLive
  /\ CopyIsOperation
  /\ FacebookPcAgrees
  /\ SendIsFirst
  /\ FacebookTargetAgrees

FacebookIInv == ItemInv /\ SequentialInv /\ FacebookProtocolInv

-----------------------------------------------------------------------------
(* Facts about operations and actors.                                      *)

\* NoOp is no operation, and the fields of an operation have their types.
LEMMA FacebookOperationFacts ==
  /\ NoOp.status = "none" /\ NoOp.post = None /\ NoOp \notin Operation
  /\ \A o \in Operation \cup {NoOp} : o # NoOp => o \in Operation
  /\ \A o \in Operation : o.status # "none"
  /\ \A o \in Operation, s \in OpStatus :
       /\ [o EXCEPT !.status = s] \in Operation
       /\ [o EXCEPT !.status = s].status = s
       /\ [o EXCEPT !.status = s].post = o.post
  BY DEF NoOp, Operation, OpStatus

\* A step of a run that leaves the operation and the provider alone.
LEMMA FacebookLocalStep ==
  ASSUME FacebookProtocolInv, NEW r \in Runs, NEW label \in FacebookRunPc \ {"send"}, Goto(r, label),
         FacebookLabelAgrees(op, label), label \in ProtocolPc => loc'[r] = op,
         UNCHANGED <<op, posts, inflight>>,
         loc' \in [Actors -> Operation \cup {NoOp}],
         \A q \in Runs \ {r} : loc'[q] = loc[q],
         FacebookTargetAgrees'
  PROVE  FacebookProtocolInv'
<1>1. /\ pc' \in [Actors -> FacebookRunPc \cup OperatorPc]
      /\ pc'[r] = label
      /\ \A a \in Actors : a # r => pc'[a] = pc[a]
  BY ActorFacts DEF Goto, FacebookProtocolInv, FacebookProtocolTypeOK
<1>2. FacebookProtocolTypeOK'
  BY <1>1, ActorFacts DEF FacebookProtocolInv, FacebookProtocolTypeOK
<1>3. FacebookSentIsLate' /\ FacebookSentOnce' /\ FacebookSavedIsLive'
  BY DEF FacebookProtocolInv, FacebookSentIsLate, FacebookSentOnce, FacebookSavedIsLive, FacebookSent
<1>4. SendIsFirst'
  BY <1>1, ActorFacts DEF FacebookProtocolInv, SendIsFirst, FacebookSent
<1>5. CopyIsOperation'
  BY <1>1, ActorFacts DEF FacebookProtocolInv, CopyIsOperation
<1>6. FacebookPcAgrees'
  BY <1>1, ActorFacts DEF FacebookProtocolInv, FacebookPcAgrees, FacebookLabelAgrees
<1> QED BY <1>2, <1>3, <1>4, <1>5, <1>6 DEF FacebookProtocolInv

\* Places where a run claims nothing about the operation.
FacebookQuietPc == {"idle", "start", "mark", "prepare", "provider", "after", "fail",
            "markFailed", "done"}

\* Going to such a place keeps the protocol invariant.
LEMMA FacebookQuietStep ==
  ASSUME FacebookProtocolInv, NEW r \in Runs, NEW label \in FacebookQuietPc, Goto(r, label),
         UNCHANGED <<op, loc, posts, inflight>>, FacebookTargetAgrees'
  PROVE  FacebookProtocolInv'
<1>1. label \in FacebookRunPc \ {"send"} /\ label \notin ProtocolPc /\ FacebookLabelAgrees(op, label)
  BY DEF FacebookQuietPc, FacebookRunPc, FacebookTryBlock, ProtocolPc, FacebookLabelAgrees
<1>2. loc' \in [Actors -> Operation \cup {NoOp}]
  BY DEF FacebookProtocolInv, FacebookProtocolTypeOK
<1> QED BY <1>1, <1>2, FacebookLocalStep

\* A save keeps the protocol invariant if the saved operation fits the next
\* step and does not take a request that was sent out of sight.
LEMMA FacebookSaveStep ==
  ASSUME FacebookProtocolInv, NEW r \in Runs, \A q \in Runs \ {r} : pc[q] \in Stopped,
         target = "publishing",
         NEW value \in Operation, NEW label \in FacebookRunPc, Save(r, value, label),
         value.status \in {"ready"} \cup FacebookLate,
         FacebookLabelAgrees(value, label),
         FacebookSent # {} => value.status \in FacebookLate,
         label = "send" => FacebookSent = {},
         value.post # None => value.post \in posts,
         value.status = "published" => value.post # None
  PROVE  FacebookProtocolInv'
<1>1. /\ op' = value /\ posts' = posts /\ inflight' = inflight /\ target' = target
      /\ loc' = [loc EXCEPT ![r] = value]
      /\ pc' = [pc EXCEPT ![r] = label]
  BY DEF Save, Goto, providerVars, itemVars
<1>2. /\ pc' \in [Actors -> FacebookRunPc \cup OperatorPc]
      /\ pc'[r] = label
      /\ \A a \in Actors : a # r => pc'[a] = pc[a]
  BY <1>1, ActorFacts DEF FacebookProtocolInv, FacebookProtocolTypeOK
<1>3. /\ loc' \in [Actors -> Operation \cup {NoOp}]
      /\ loc'[r] = value
  BY <1>1, ActorFacts DEF FacebookProtocolInv, FacebookProtocolTypeOK
<1>4. \A q \in Runs \ {r} : pc'[q] \in {"idle", "done"}
  BY <1>2, ActorFacts DEF Stopped
<1>5. FacebookProtocolTypeOK'
  BY <1>1, <1>2, <1>3, ActorFacts DEF FacebookProtocolInv, FacebookProtocolTypeOK
<1>6. FacebookSentIsLate' /\ FacebookSentOnce' /\ FacebookSavedIsLive'
  BY <1>1 DEF FacebookProtocolInv, FacebookSentIsLate, FacebookSentOnce, FacebookSavedIsLive, FacebookSent
<1>7. SendIsFirst'
  BY <1>1, <1>2, <1>4 DEF SendIsFirst, FacebookSent
<1>8. CopyIsOperation'
  BY <1>1, <1>3, <1>4 DEF CopyIsOperation, ProtocolPc
<1>9. FacebookPcAgrees'
  BY <1>1, <1>2, <1>4 DEF FacebookPcAgrees, FacebookLabelAgrees
<1>10. FacebookTargetAgrees'
  BY <1>1 DEF FacebookTargetAgrees
<1> QED BY <1>5, <1>6, <1>7, <1>8, <1>9, <1>10 DEF FacebookProtocolInv

-----------------------------------------------------------------------------
(* The steps of the Facebook protocol.                                     *)

\* Every step of the connector keeps the protocol invariant.
LEMMA FacebookStepKeepsProtocol ==
  ASSUME FacebookProtocolInv, att \in [Runs -> Nat],
         NEW r \in Runs, \A q \in Runs \ {r} : pc[q] \in Stopped,
         target = "publishing", FacebookStep(r)
  PROVE  FacebookProtocolInv'
<1>a. /\ r \in Actors /\ r # None /\ att[r] \in Nat
      /\ op \in Operation \cup {NoOp} /\ loc \in [Actors -> Operation \cup {NoOp}]
      /\ op.status \in {"none", "ready"} \cup FacebookLate
  BY ActorFacts DEF FacebookProtocolInv, FacebookProtocolTypeOK
<1>b. pc[r] \in ProtocolPc => loc[r] = op
  BY DEF FacebookProtocolInv, CopyIsOperation
<1>c. FacebookLabelAgrees(op, pc[r])
  BY DEF FacebookProtocolInv, FacebookPcAgrees
<1>d. {"ready", "finalizing", "uncertain", "published"} \subseteq OpStatus
  BY DEF OpStatus
<1>e. ASSUME pc[r] \in {"finalize", "send", "sent", "verify", "settle"}
      PROVE  loc[r] = op /\ op \in Operation
  BY <1>a, <1>b, <1>c, <1>e, FacebookOperationFacts DEF FacebookLabelAgrees, ProtocolPc
<1>1. CASE FacebookReadOperation(r)
  <2>1. /\ op' = op /\ posts' = posts /\ inflight' = inflight /\ target' = target
        /\ loc' = [loc EXCEPT ![r] = op]
    BY <1>1 DEF FacebookReadOperation, providerVars, itemVars
  <2>2. /\ loc' \in [Actors -> Operation \cup {NoOp}] /\ loc'[r] = op
        /\ \A q \in Runs \ {r} : loc'[q] = loc[q]
    BY <1>a, <2>1, ActorFacts
  <2>3. PICK label \in {"intent", "adopt", "step"} :
          Goto(r, label) /\ (label = "intent" <=> op = NoOp)
    BY <1>1 DEF FacebookReadOperation
  <2>4. label \in FacebookRunPc \ {"send"} /\ FacebookLabelAgrees(op, label)
    BY <2>3 DEF FacebookRunPc, FacebookTryBlock, FacebookLabelAgrees
  <2>5. FacebookTargetAgrees'
    BY <2>1 DEF FacebookProtocolInv, FacebookTargetAgrees
  <2> QED BY <2>1, <2>2, <2>3, <2>4, <2>5, FacebookLocalStep
<1>2. CASE SaveIntent(r)
  <2> DEFINE value == [status |-> "ready", container |-> None, post |-> None,
                       attempt |-> att[r]]
  <2>1. value \in Operation /\ value.status = "ready" /\ value.post = None
    BY <1>a, <1>d DEF Operation
  <2>2. op = NoOp /\ Save(r, value, "finalize")
    BY <1>2, <1>c DEF SaveIntent, FacebookLabelAgrees
  <2>3. FacebookSent = {}
    BY <2>2, FacebookOperationFacts DEF FacebookProtocolInv, FacebookSentIsLate, FacebookLate
  <2>4. "finalize" \in FacebookRunPc /\ FacebookLabelAgrees(value, "finalize")
    BY <2>1 DEF FacebookRunPc, FacebookTryBlock, FacebookLabelAgrees
  <2> HIDE DEF value
  <2> QED BY <2>1, <2>2, <2>3, <2>4, FacebookSaveStep
<1>3. CASE FacebookAdoptAttempt(r)
  <2> DEFINE value == [op EXCEPT !.attempt = att[r]]
  <2>1. op \in Operation /\ loc[r] = op
    BY <1>3, <1>a, <1>b, <1>c, FacebookOperationFacts DEF FacebookAdoptAttempt, FacebookLabelAgrees, ProtocolPc
  <2>2. value \in Operation /\ value.status = op.status /\ value.post = op.post
    BY <1>a, <2>1 DEF Operation
  <2>3. Save(r, value, "step")
    BY <1>3, <2>1 DEF FacebookAdoptAttempt
  <2>4. "step" \in FacebookRunPc /\ FacebookLabelAgrees(value, "step")
    BY <2>2, FacebookOperationFacts DEF FacebookRunPc, FacebookTryBlock, FacebookLabelAgrees
  <2>5. op.status \in {"ready"} \cup FacebookLate
    BY <1>a, <2>1, FacebookOperationFacts
  <2> HIDE DEF value
  <2> QED BY <2>2, <2>3, <2>4, <2>5, FacebookSaveStep DEF FacebookProtocolInv, FacebookSentIsLate,
       FacebookSavedIsLive
<1>4. CASE FacebookRoute(r)
  <2>1. /\ loc[r] = op /\ op # NoOp /\ Goto(r, FacebookNextStep(op))
        /\ UNCHANGED <<op, loc, posts, inflight>> /\ target' = target
    BY <1>4, <1>b, <1>c DEF FacebookRoute, FacebookLabelAgrees, ProtocolPc, itemVars, providerVars
  <2>2. op.status \in {"ready"} \cup FacebookLate
    BY <1>a, <2>1, FacebookOperationFacts
  <2>3. /\ FacebookNextStep(op) \in FacebookRunPc \ {"send"}
        /\ FacebookLabelAgrees(op, FacebookNextStep(op))
    BY <2>2 DEF FacebookNextStep, FacebookLabelAgrees, FacebookRunPc, FacebookTryBlock, FacebookLate
  <2>4. FacebookTargetAgrees'
    BY <2>1 DEF FacebookProtocolInv, FacebookTargetAgrees
  <2> HIDE DEF FacebookNextStep
  <2> QED BY <1>a, <2>1, <2>3, <2>4, FacebookLocalStep
<1>5. CASE FacebookSaveFinalizing(r)
  <2> DEFINE value == [op EXCEPT !.status = "finalizing"]
  <2>1. loc[r] = op /\ op \in Operation /\ op.status = "ready"
    BY <1>5, <1>c, <1>e DEF FacebookSaveFinalizing, FacebookLabelAgrees
  <2>2. value \in Operation /\ value.status = "finalizing" /\ value.post = op.post
    BY <1>d, <2>1, FacebookOperationFacts
  <2>3. Save(r, value, "send")
    BY <1>5, <2>1 DEF FacebookSaveFinalizing
  <2>4. "send" \in FacebookRunPc /\ FacebookLabelAgrees(value, "send") /\ "finalizing" \in FacebookLate
    BY <2>2 DEF FacebookRunPc, FacebookTryBlock, FacebookLabelAgrees, FacebookLate
  <2>5. FacebookSent = {}
    BY <2>1 DEF FacebookProtocolInv, FacebookSentIsLate, FacebookLate
  <2> HIDE DEF value
  <2> QED BY <2>2, <2>3, <2>4, <2>5, FacebookSaveStep DEF FacebookProtocolInv, FacebookSavedIsLive
<1>6. CASE FacebookSend(r)
  <2>1. /\ pc[r] = "send" /\ loc[r] = op /\ op.status = "finalizing"
        /\ inflight' = inflight \cup {r} /\ posts' = posts /\ op' = op /\ loc' = loc
        /\ target' = target /\ Goto(r, "sent")
    BY <1>6, <1>c, <1>e DEF FacebookSend, FacebookLabelAgrees, itemVars
  <2>2. FacebookSent = {}
    BY <2>1 DEF FacebookProtocolInv, SendIsFirst
  <2>3. FacebookSent' = {r}
    BY <2>1, <2>2 DEF FacebookSent
  <2>4. /\ pc' \in [Actors -> FacebookRunPc \cup OperatorPc]
        /\ pc'[r] = "sent"
        /\ \A a \in Actors : a # r => pc'[a] = pc[a]
    <3>1. "sent" \in FacebookRunPc
      BY DEF FacebookRunPc, FacebookTryBlock
    <3> QED BY <1>a, <2>1, <3>1 DEF Goto, FacebookProtocolInv, FacebookProtocolTypeOK
  <2>5. \A q \in Runs \ {r} : pc'[q] \in {"idle", "done"}
    BY <2>4, ActorFacts DEF Stopped
  <2>6. FacebookProtocolTypeOK'
    <3>1. "sent" \in FacebookRunPc
      BY DEF FacebookRunPc, FacebookTryBlock
    <3> QED BY <2>1, <2>4, <3>1, ActorFacts DEF FacebookProtocolInv, FacebookProtocolTypeOK
  <2>7. FacebookSentIsLate' /\ FacebookSentOnce' /\ FacebookSavedIsLive'
    BY <2>1, <2>3 DEF FacebookSentIsLate, FacebookSentOnce, FacebookLate, FacebookProtocolInv,
         FacebookSavedIsLive
  <2>8. CopyIsOperation' /\ SendIsFirst'
    BY <2>1, <2>4, <2>5 DEF CopyIsOperation, SendIsFirst, ProtocolPc
  <2>9. FacebookPcAgrees'
    BY <2>1, <2>4, <2>5 DEF FacebookPcAgrees, FacebookLabelAgrees
  <2>10. FacebookTargetAgrees'
    BY <2>1 DEF FacebookProtocolInv, FacebookTargetAgrees
  <2> QED BY <2>6, <2>7, <2>8, <2>9, <2>10 DEF FacebookProtocolInv
<1>7. CASE CreatePostOk(r)
  <2> DEFINE value == [op EXCEPT !.post = r]
  <2>1. loc[r] = op /\ op \in Operation /\ op.status = "finalizing" /\ r \in posts
    BY <1>7, <1>c, <1>e DEF CreatePostOk, FacebookLabelAgrees
  <2>2. value \in Operation /\ value.status = "finalizing" /\ value.post = r
    BY <2>1 DEF Operation
  <2>3. Save(r, value, "verify")
    BY <1>7, <2>1 DEF CreatePostOk
  <2>4. "verify" \in FacebookRunPc /\ FacebookLabelAgrees(value, "verify") /\ "finalizing" \in FacebookLate
    BY <2>2 DEF FacebookRunPc, FacebookTryBlock, FacebookLabelAgrees, FacebookLate
  <2> HIDE DEF value
  <2> QED BY <2>1, <2>2, <2>3, <2>4, FacebookSaveStep
<1>8. CASE CreatePostUncertain(r)
  <2>1. loc[r] = op /\ op \in Operation
    BY <1>8, <1>e DEF CreatePostUncertain
  <2>2. PICK p \in {None} \cup (posts \cap {r}) :
          Save(r, [[op EXCEPT !.status = "uncertain"] EXCEPT !.post = p], "review")
    BY <1>8, <2>1 DEF CreatePostUncertain
  <2> DEFINE doubt == [op EXCEPT !.status = "uncertain"]
             value == [doubt EXCEPT !.post = p]
  <2>3. doubt \in Operation /\ doubt.status = "uncertain"
    BY <1>d, <2>1, FacebookOperationFacts
  <2> HIDE DEF doubt
  <2>4. value \in Operation /\ value.status = "uncertain" /\ value.post = p
    BY <2>3 DEF Operation
  <2>5. "review" \in FacebookRunPc /\ FacebookLabelAgrees(value, "review") /\ "uncertain" \in FacebookLate
    BY <2>4 DEF FacebookRunPc, FacebookTryBlock, FacebookLabelAgrees, FacebookLate
  <2>6. Save(r, value, "review")
    BY <2>2 DEF doubt
  <2> HIDE DEF value
  <2> QED BY <2>4, <2>5, <2>6, FacebookSaveStep
<1>9. CASE VerifyOk(r)
  <2> DEFINE value == [op EXCEPT !.status = "published"]
  <2>1. loc[r] = op /\ op \in Operation /\ op.post \in posts
    BY <1>9, <1>e DEF VerifyOk
  <2>2. value \in Operation /\ value.status = "published" /\ value.post = op.post
    BY <1>d, <2>1, FacebookOperationFacts
  <2>3. Save(r, value, "complete")
    BY <1>9, <2>1 DEF VerifyOk
  <2>4. "complete" \in FacebookRunPc /\ FacebookLabelAgrees(value, "complete") /\ "published" \in FacebookLate
    BY <2>2 DEF FacebookRunPc, FacebookTryBlock, FacebookLabelAgrees, FacebookLate
  <2>5. op.post # None
    BY <2>1, ActorFacts DEF FacebookProtocolInv, FacebookProtocolTypeOK
  <2> HIDE DEF value
  <2> QED BY <2>1, <2>2, <2>3, <2>4, <2>5, FacebookSaveStep
<1>10. CASE SaveUncertain(r)
  <2> DEFINE value == [op EXCEPT !.status = "uncertain"]
  <2>1. loc[r] = op /\ op \in Operation
    BY <1>10, <1>e DEF SaveUncertain
  <2>2. value \in Operation /\ value.status = "uncertain" /\ value.post = op.post
    BY <1>d, <2>1, FacebookOperationFacts
  <2>3. Save(r, value, "review")
    BY <1>10, <2>1 DEF SaveUncertain
  <2>4. "review" \in FacebookRunPc /\ FacebookLabelAgrees(value, "review") /\ "uncertain" \in FacebookLate
    BY <2>2 DEF FacebookRunPc, FacebookTryBlock, FacebookLabelAgrees, FacebookLate
  <2> HIDE DEF value
  <2> QED BY <2>2, <2>3, <2>4, FacebookSaveStep DEF FacebookProtocolInv, FacebookSavedIsLive
<1> QED BY <1>1, <1>2, <1>3, <1>4, <1>5, <1>6, <1>7, <1>8, <1>9, <1>10 DEF FacebookStep

-----------------------------------------------------------------------------
(* The steps every platform shares.                                        *)

\* The handler's steps keep the protocol invariant.
LEMMA FacebookHandlerKeepsProtocol ==
  ASSUME FacebookProtocolInv, BusyIsPublishing, NEW r \in Runs, HandlerStep(r, FacebookTryBlock)
  PROVE  FacebookProtocolInv'
<1>a. FacebookLabelAgrees(op, pc[r]) /\ FacebookTargetAgrees
  BY DEF FacebookProtocolInv, FacebookPcAgrees
<1>1. UNCHANGED <<op, loc, posts, inflight>>
  BY DEF HandlerStep, Skip, Begin, StartPublishAttempt, MarkPublishing, Prepare,
       CompleteAutomaticPublication, Finish, NeedsReview, Trouble, FinishAttemptFailed,
       MarkFailed, Conflict, Crash, providerVars
<1>2. \E label \in FacebookQuietPc : Goto(r, label)
  BY DEF HandlerStep, Skip, Begin, StartPublishAttempt, MarkPublishing, Prepare,
       CompleteAutomaticPublication, Finish, NeedsReview, Trouble, FinishAttemptFailed,
       MarkFailed, Conflict, Crash, FacebookQuietPc
<1>3. \/ target' \in {target, "publishing", "failed"}
      \/ target' = "published" /\ pc[r] = "complete"
      \/ target' = "action_required" /\ pc[r] = "review"
  BY DEF HandlerStep, Skip, Begin, StartPublishAttempt, MarkPublishing, Prepare,
       CompleteAutomaticPublication, Finish, NeedsReview, Trouble, FinishAttemptFailed,
       MarkFailed, Conflict, Crash, itemVars
<1>4. FacebookTargetAgrees'
  BY <1>a, <1>1, <1>3 DEF FacebookTargetAgrees, FacebookLabelAgrees
<1> QED BY <1>1, <1>2, <1>4, FacebookQuietStep

\* A request that takes effect is one of those that were sent.
LEMMA FacebookProviderPublishKeepsProtocol ==
  ASSUME FacebookProtocolInv, NEW r \in Runs, ProviderPublish(r)
  PROVE  FacebookProtocolInv'
<1>1. FacebookSent' = FacebookSent /\ posts \subseteq posts' /\ posts' \subseteq Runs /\ inflight' \subseteq Runs
  BY DEF ProviderPublish, FacebookSent, FacebookProtocolInv, FacebookProtocolTypeOK
<1>2. UNCHANGED <<target, op, pc, loc>>
  BY DEF ProviderPublish, itemVars
<1> QED
  BY <1>1, <1>2 DEF FacebookProtocolInv, FacebookProtocolTypeOK, FacebookSentIsLate, FacebookSentOnce,
       FacebookSavedIsLive,
       CopyIsOperation, FacebookPcAgrees, SendIsFirst, FacebookTargetAgrees

\* Cancelling, editing and confirming keep the protocol invariant.
LEMMA FacebookApiStepKeepsProtocol ==
  ASSUME FacebookProtocolInv, SequentialInv, ApiStep
  PROVE  FacebookProtocolInv'
<1>a. /\ op \in Operation \cup {NoOp} /\ loc \in [Actors -> Operation \cup {NoOp}]
      /\ pc \in [Actors -> FacebookRunPc \cup OperatorPc]
      /\ posts \subseteq Runs
  BY DEF FacebookProtocolInv, FacebookProtocolTypeOK
<1>b. {"read", "confirm", "done"} \subseteq OperatorPc
  BY DEF OperatorPc
<1>c. \A o \in Operators : o \in Actors /\ o \notin Runs
  BY ActorFacts
<1>1. CASE CancelTarget \/ EditItem
  <2>1. UNCHANGED <<op, loc, pc, posts, inflight>> /\ target' \in {target, "cancelled"}
    BY <1>1 DEF CancelTarget, EditItem, providerVars
  <2> QED
    BY <2>1 DEF FacebookProtocolInv, FacebookProtocolTypeOK, FacebookSentIsLate, FacebookSentOnce,
         FacebookSavedIsLive, FacebookSent,
         CopyIsOperation, FacebookPcAgrees, SendIsFirst, FacebookTargetAgrees
<1>2. ASSUME NEW o \in Operators, ConfirmGetItem(o) \/ ConfirmGetOperation(o)
      PROVE  FacebookProtocolInv'
  <2>1. /\ UNCHANGED <<op, posts, inflight, target>>
        /\ loc' = loc \/ loc' = [loc EXCEPT ![o] = op]
        /\ \E label \in OperatorPc : pc' = [pc EXCEPT ![o] = label]
    BY <1>2, <1>b DEF ConfirmGetItem, ConfirmGetOperation, Goto, providerVars, itemVars
  <2>2. \A r \in Runs : pc'[r] = pc[r] /\ loc'[r] = loc[r]
    BY <1>a, <2>1, ActorFacts
  <2>3. FacebookProtocolTypeOK'
    BY <1>a, <1>c, <2>1, <2>2 DEF FacebookProtocolInv, FacebookProtocolTypeOK
  <2> QED
    BY <2>1, <2>2, <2>3 DEF FacebookProtocolInv, FacebookSentIsLate, FacebookSentOnce, FacebookSavedIsLive,
         FacebookSent,
         CopyIsOperation, FacebookPcAgrees, SendIsFirst, FacebookTargetAgrees
<1>3. ASSUME NEW o \in Operators, ConfirmProviderPublication(o)
      PROVE  FacebookProtocolInv'
  <2>1. loc[o] = op /\ target = "action_required" /\ \A r \in Runs : pc[r] \in Early
    BY <1>3, ConfirmIsAlone
  <2>2. op \in Operation /\ op.status = "uncertain"
    BY <1>a, <2>1, FacebookOperationFacts DEF FacebookProtocolInv, FacebookTargetAgrees
  <2>3. PICK p \in posts : op' = [[op EXCEPT !.status = "published"] EXCEPT !.post = p]
    BY <1>3, <2>1 DEF ConfirmProviderPublication
  <2>4. op' \in Operation /\ op'.status = "published" /\ op'.post = p
    <3> DEFINE doubtless == [op EXCEPT !.status = "published"]
    <3>1. doubtless \in Operation /\ doubtless.status = "published"
      BY <2>2, FacebookOperationFacts DEF OpStatus
    <3>2. op' = [doubtless EXCEPT !.post = p]
      BY <2>3
    <3> HIDE DEF doubtless
    <3> QED BY <1>a, <3>1, <3>2 DEF Operation
  <2>5. /\ UNCHANGED <<posts, inflight, loc>> /\ target' = "published"
        /\ pc' = [pc EXCEPT ![o] = "done"]
    BY <1>3, Zenon DEF ConfirmProviderPublication, Goto, providerVars
  <2>6. \A r \in Runs : pc'[r] = pc[r]
    BY <1>a, <2>5, ActorFacts
  <2>7. FacebookProtocolTypeOK'
    BY <1>a, <1>b, <1>c, <2>4, <2>5, <2>6 DEF FacebookProtocolInv, FacebookProtocolTypeOK, FacebookLate
  <2>8. FacebookSentIsLate' /\ FacebookSentOnce' /\ FacebookSavedIsLive'
    BY <1>a, <2>3, <2>4, <2>5, ActorFacts DEF FacebookProtocolInv, FacebookSentIsLate, FacebookSentOnce,
         FacebookSavedIsLive,
         FacebookSent, FacebookLate
  <2>9. CopyIsOperation' /\ FacebookPcAgrees' /\ SendIsFirst'
    BY <2>1, <2>6 DEF CopyIsOperation, FacebookPcAgrees, FacebookLabelAgrees, SendIsFirst, Early, ProtocolPc
  <2>10. FacebookTargetAgrees'
    BY <2>4, <2>5 DEF FacebookTargetAgrees
  <2> QED BY <2>7, <2>8, <2>9, <2>10 DEF FacebookProtocolInv
<1> QED BY <1>1, <1>2, <1>3 DEF ApiStep

-----------------------------------------------------------------------------
(* The inductive invariant.                                                *)

\* It holds initially.
LEMMA FacebookInitIInv == FacebookInit => FacebookIInv
<1> SUFFICES ASSUME FacebookInit PROVE FacebookIInv
  OBVIOUS
<1>a. pc = [a \in Actors |-> "idle"] /\ \A r \in Runs : pc[r] = "idle"
  BY ActorFacts DEF FacebookInit, TargetInit
<1>1. ItemInv
  <2>1. ItemTypeOK
    BY DEF FacebookInit, TargetInit, ItemTypeOK, TargetStatus
  <2> QED BY <1>a, <2>1 DEF FacebookInit, TargetInit, ItemInv, SettledIsStale, WaitingIsUnsent,
                ProvedIsPublished, Early
<1>2. SequentialInv
  BY <1>a DEF FacebookInit, TargetInit, SequentialInv, OneAtATime, BusyIsPublishing, ConfirmIsFresh,
       Stopped, Early
<1>3. FacebookProtocolTypeOK
  BY <1>a, FacebookOperationFacts DEF FacebookInit, TargetInit, FacebookProtocolTypeOK, FacebookRunPc,
       OperatorPc, Actors
<1>4. FacebookProtocolInv
  BY <1>a, <1>3, FacebookOperationFacts DEF FacebookInit, TargetInit, FacebookProtocolInv,
       FacebookSentIsLate, FacebookSentOnce,
       FacebookSavedIsLive, FacebookSent, CopyIsOperation, FacebookPcAgrees, FacebookLabelAgrees,
       SendIsFirst, FacebookTargetAgrees,
       ProtocolPc
<1> QED BY <1>1, <1>2, <1>4 DEF FacebookIInv

\* Every step of the system keeps it when runs do not overlap.
LEMMA FacebookNextKeepsIInv == ~Overlapping /\ FacebookIInv /\ [FacebookNext]_vars => FacebookIInv'
<1> SUFFICES ASSUME ~Overlapping, FacebookIInv, [FacebookNext]_vars PROVE FacebookIInv'
  OBVIOUS
<1>a. /\ att \in [Runs -> Nat] /\ posts \subseteq Runs
      /\ pc \in [Actors -> FacebookRunPc \cup OperatorPc] /\ DOMAIN loc = Actors
      /\ ItemInv /\ SequentialInv /\ FacebookProtocolInv /\ BusyIsPublishing
  BY DEF FacebookIInv, ItemInv, ItemTypeOK, FacebookProtocolInv, FacebookProtocolTypeOK, SequentialInv
<1>b. \A r \in Runs : MayRun(r) => \A q \in Runs \ {r} : pc[q] \in Stopped
  BY DEF MayRun, Stopped
<1>1. ASSUME NEW r \in Runs, MayRun(r), FacebookStep(r) PROVE FacebookIInv'
  <2>1. /\ pc[r] \notin Early \cup {"after", "fail"}
        /\ UNCHANGED <<itemVars, att>> /\ posts' = posts
        /\ \E label \in FacebookRunPc \ {"after"} : Goto(r, label)
    BY <1>1 DEF FacebookStep, FacebookReadOperation, SaveIntent, FacebookAdoptAttempt, FacebookRoute,
         FacebookNextStep,
         FacebookSaveFinalizing, FacebookSend, CreatePostOk, CreatePostUncertain, VerifyOk, SaveUncertain,
         Save, Early, providerVars, FacebookRunPc, FacebookTryBlock
  <2>2. target = "publishing"
    BY <1>a, <2>1 DEF BusyIsPublishing
  <2>3. ItemInv'
    BY <1>a, <2>1, ProviderStepKeepsItem
  <2>4. SequentialInv'
    BY <1>1, <1>a, <1>b, <2>1, ProtocolStepKeepsSequential
  <2>5. FacebookProtocolInv'
    BY <1>1, <1>a, <1>b, <2>2, FacebookStepKeepsProtocol
  <2> QED BY <2>3, <2>4, <2>5 DEF FacebookIInv
<1>2. ASSUME NEW r \in Runs, MayRun(r), HandlerStep(r, FacebookTryBlock) PROVE FacebookIInv'
  <2>1. pc[r] = "complete" => loc[r].post \in posts
    BY <1>a DEF FacebookProtocolInv, CopyIsOperation, FacebookPcAgrees, FacebookLabelAgrees,
         FacebookSavedIsLive, ProtocolPc
  <2>2. FacebookTryBlock \cap Early = {}
    BY DEF FacebookTryBlock, Early
  <2>3. ItemInv'
    BY <1>2, <1>a, <2>1, <2>2, HandlerStepKeepsItem
  <2>4. SequentialInv'
    BY <1>2, <1>a, <1>b, <2>2, HandlerStepKeepsSequential
  <2> QED BY <1>2, <1>a, <2>3, <2>4, FacebookHandlerKeepsProtocol DEF FacebookIInv
<1>3. ASSUME NEW r \in Runs, ProviderPublish(r) PROVE FacebookIInv'
  <2>1. ItemInv'
    BY <1>3, <1>a, OutsideStepKeepsItem DEF ProviderPublish
  <2>2. SequentialInv'
    BY <1>3, <1>a DEF ProviderPublish, itemVars, SequentialInv, OneAtATime, BusyIsPublishing,
         ConfirmIsFresh
  <2> QED BY <1>3, <1>a, <2>1, <2>2, FacebookProviderPublishKeepsProtocol DEF FacebookIInv
<1>4. CASE ApiStep
  BY <1>4, <1>a, ApiStepKeepsItem, ApiStepKeepsSequential, FacebookApiStepKeepsProtocol DEF FacebookIInv
<1>5. CASE UNCHANGED vars
  BY <1>5 DEF vars, FacebookIInv, ItemInv, ItemTypeOK, SettledIsStale, WaitingIsUnsent,
       ProvedIsPublished, SequentialInv, OneAtATime, BusyIsPublishing, ConfirmIsFresh,
       FacebookProtocolInv, FacebookProtocolTypeOK, FacebookSentIsLate, FacebookSentOnce,
       FacebookSavedIsLive, FacebookSent, CopyIsOperation,
       FacebookPcAgrees, SendIsFirst, FacebookTargetAgrees
<1> QED BY <1>1, <1>2, <1>3, <1>4, <1>5 DEF FacebookNext

\* What the invariant says: the types, one live post, live proofs, and reviews
\* that an operator can resolve.
LEMMA FacebookIInvImplies == FacebookIInv => FacebookTypeOK /\ AtMostOnePost /\ ProofIsLive /\ ReviewIsResolvable
<1>1. FacebookIInv => FacebookTypeOK
  <2>1. FacebookIInv => proofs \subseteq Runs
    BY DEF FacebookIInv, ItemInv, FacebookProtocolInv, FacebookProtocolTypeOK
  <2> QED BY <2>1 DEF FacebookIInv, ItemInv, ItemTypeOK, FacebookProtocolInv, FacebookProtocolTypeOK,
       FacebookTypeOK, TargetTypeOK
<1>2. FacebookIInv => AtMostOnePost
  BY DEF FacebookIInv, FacebookProtocolInv, FacebookSentOnce, FacebookSent, AtMostOnePost
<1>3. FacebookIInv => ProofIsLive /\ ReviewIsResolvable
  BY DEF FacebookIInv, ItemInv, FacebookProtocolInv, FacebookTargetAgrees, ProofIsLive, ReviewIsResolvable
<1> QED BY <1>1, <1>2, <1>3

\* No step moves a published target or its operation.
LEMMA PublishedStepIsFinal == FacebookIInv /\ FacebookNext => FacebookPublishedIsFinal
<1> SUFFICES ASSUME FacebookIInv, FacebookNext, target = "published"
             PROVE  target' = "published" /\ op' = op
  BY DEF FacebookPublishedIsFinal
<1>a. current = {} /\ ItemInv /\ BusyIsPublishing
  BY DEF FacebookIInv, ItemInv, SettledIsStale, SequentialInv
<1>1. ASSUME NEW r \in Runs, HandlerStep(r, FacebookTryBlock)
      PROVE  target' = "published" /\ op' = op
  <2>1. target' = "published"
    BY <1>1, <1>a, PublishedStays
  <2>2. op' = op
    BY <1>1 DEF HandlerStep, Skip, Begin, StartPublishAttempt, MarkPublishing, Prepare,
         CompleteAutomaticPublication, Finish, NeedsReview, Trouble, FinishAttemptFailed,
         MarkFailed, Conflict, Crash
  <2> QED BY <2>1, <2>2
<1>2. ASSUME NEW r \in Runs, FacebookStep(r)
      PROVE  FALSE
  <2>1. pc[r] \notin Early \cup {"after", "fail"}
    BY <1>2 DEF FacebookStep, FacebookReadOperation, SaveIntent, FacebookAdoptAttempt, FacebookRoute,
         FacebookSaveFinalizing,
         FacebookSend, CreatePostOk, CreatePostUncertain, VerifyOk, SaveUncertain, Early
  <2> QED BY <1>a, <2>1 DEF BusyIsPublishing
<1>3. ASSUME NEW r \in Runs, ProviderPublish(r)
      PROVE  target' = "published" /\ op' = op
  BY <1>3 DEF ProviderPublish, itemVars
<1>4. CASE ApiStep
  BY <1>4, <1>a DEF ApiStep, CancelTarget, EditItem, ConfirmGetItem, ConfirmGetOperation,
       ConfirmProviderPublication, CommitLast, itemVars
<1> QED BY <1>1, <1>2, <1>3, <1>4 DEF FacebookNext

-----------------------------------------------------------------------------
(* The theorems.                                                           *)

\* With one run at a time, crashes, retries and lost answers leave at most one
\* live post, every proof names it, and a target that waits for a person can be
\* resolved by one.
THEOREM FacebookSafety ==
  ASSUME ~Overlapping
  PROVE  FacebookSpec => [](FacebookTypeOK /\ AtMostOnePost /\ ProofIsLive /\ ReviewIsResolvable)
<1>1. FacebookIInv /\ [FacebookNext]_vars => FacebookIInv'
  BY FacebookNextKeepsIInv
<1> QED BY <1>1, FacebookInitIInv, FacebookIInvImplies, PTL DEF FacebookSpec

\* A published target and its operation never change again.
THEOREM FacebookPublishedForGood ==
  ASSUME ~Overlapping
  PROVE  FacebookSpec => [][FacebookPublishedIsFinal]_vars
<1>1. FacebookIInv /\ [FacebookNext]_vars => FacebookIInv'
  BY FacebookNextKeepsIInv
<1>2. FacebookIInv /\ [FacebookNext]_vars => [FacebookPublishedIsFinal]_vars
  BY PublishedStepIsFinal
<1> QED BY <1>1, <1>2, FacebookInitIInv, PTL DEF FacebookSpec

-----------------------------------------------------------------------------
(***************************************************************************)
(* The safety of YouTube publishing for any number of handler runs and     *)
(* operators, when the queue gives the job to one run at a time.           *)
(*                                                                         *)
(* Bytes are sent again and again, so the argument is not that a request   *)
(* is made once but that every request goes to the session the stored      *)
(* operation names (SentIsSession) and that this session is never replaced *)
(* by another: a run opens one only when no operation is stored, and saves *)
(* nothing but what it derived from the stored operation (CopyAgrees).     *)
(***************************************************************************)

\* Finished videos and sessions that bytes are on their way to.
YouTubeSent == posts \cup inflight

SentIsSession == YouTubeSent \subseteq {op.container}

\* A saved identifier is that of the session's finished video, and a published
\* operation has one.
YouTubeSavedIsLive ==
  /\ op.post # None => op.post = op.container /\ op.post \in posts
  /\ op.status = "published" => op.post # None

\* Steps at which a run works on the stored operation.
StoredPc == {"session", "adopt", "step", "query", "finalize", "send", "sent",
             "requery", "check", "poll", "complete", "review"}

\* A run that has just learned of the finished video has not saved it yet.
CopyAgrees ==
  \A r \in Runs :
    /\ pc[r] \in StoredPc => loc[r] = op
    /\ pc[r] = "uploaded" => /\ op # NoOp /\ op.container \in posts
                             /\ loc[r] = [op EXCEPT !.post = op.container]

\* The operation a run finds at each step.
YouTubeLabelAgrees(o, label) ==
  /\ label = "session" => o = NoOp
  /\ label \in StoredPc \ {"session"} => o # NoOp
  /\ label = "check" => o.post # None
  /\ label = "complete" => o.status = "published"
  /\ label = "review" => o.status = "uncertain"

YouTubePcAgrees == \A r \in Runs : YouTubeLabelAgrees(op, pc[r])

\* What the target's status says of the operation.
YouTubeTargetAgrees ==
  /\ target = "action_required" => op.status = "uncertain"
  /\ target = "published" => op.status = "published"

YouTubeProtocolTypeOK ==
  /\ op \in Operation \cup {NoOp}
  /\ op # NoOp => op.container \in Runs
  /\ posts \subseteq Runs
  /\ inflight \subseteq Runs
  /\ loc \in [Actors -> Operation \cup {NoOp}]
  /\ pc \in [Actors -> YouTubeRunPc \cup OperatorPc]
  /\ \A r \in Runs : pc[r] \in YouTubeRunPc
  /\ \A o \in Operators : pc[o] \in OperatorPc

YouTubeProtocolInv ==
  /\ YouTubeProtocolTypeOK
  /\ SentIsSession
  /\ YouTubeSavedIsLive
  /\ CopyAgrees
  /\ YouTubePcAgrees
  /\ YouTubeTargetAgrees

YouTubeIInv == ItemInv /\ SequentialInv /\ YouTubeProtocolInv

-----------------------------------------------------------------------------
(* Facts about operations and actors.                                      *)

\* NoOp is no operation, and changing one field leaves the others alone.
LEMMA YouTubeOperationFacts ==
  /\ NoOp.status = "none" /\ NoOp.post = None /\ NoOp.container = None
  /\ NoOp \notin Operation
  /\ \A o \in Operation \cup {NoOp} : o # NoOp => o \in Operation
  /\ \A o \in Operation : o.status # "none"
  /\ \A o \in Operation, s \in OpStatus :
       /\ [o EXCEPT !.status = s] \in Operation
       /\ [o EXCEPT !.status = s].status = s
       /\ [o EXCEPT !.status = s].post = o.post
       /\ [o EXCEPT !.status = s].container = o.container
  /\ \A o \in Operation, p \in Runs :
       /\ [o EXCEPT !.post = p] \in Operation
       /\ [o EXCEPT !.post = p].status = o.status
       /\ [o EXCEPT !.post = p].post = p
       /\ [o EXCEPT !.post = p].container = o.container
  /\ \A o \in Operation, n \in Nat :
       /\ [o EXCEPT !.attempt = n] \in Operation
       /\ [o EXCEPT !.attempt = n].status = o.status
       /\ [o EXCEPT !.attempt = n].post = o.post
       /\ [o EXCEPT !.attempt = n].container = o.container
  BY DEF NoOp, Operation, OpStatus

\* A step of a run that leaves the operation and the posts alone.
LEMMA YouTubeLocalStep ==
  ASSUME YouTubeProtocolInv, NEW r \in Runs, NEW label \in YouTubeRunPc, Goto(r, label),
         YouTubeLabelAgrees(op, label),
         label \in StoredPc => loc'[r] = op,
         label = "uploaded" => /\ op # NoOp /\ op.container \in posts
                               /\ loc'[r] = [op EXCEPT !.post = op.container],
         UNCHANGED <<op, posts>>,
         inflight' \subseteq Runs, inflight' \subseteq {op.container},
         loc' \in [Actors -> Operation \cup {NoOp}],
         \A q \in Runs \ {r} : loc'[q] = loc[q],
         YouTubeTargetAgrees'
  PROVE  YouTubeProtocolInv'
<1>1. /\ pc' \in [Actors -> YouTubeRunPc \cup OperatorPc]
      /\ pc'[r] = label
      /\ \A a \in Actors : a # r => pc'[a] = pc[a]
  BY ActorFacts DEF Goto, YouTubeProtocolInv, YouTubeProtocolTypeOK
<1>2. YouTubeProtocolTypeOK'
  BY <1>1, ActorFacts DEF YouTubeProtocolInv, YouTubeProtocolTypeOK
<1>3. SentIsSession' /\ YouTubeSavedIsLive'
  BY DEF YouTubeProtocolInv, SentIsSession, YouTubeSavedIsLive, YouTubeSent
<1>4. CopyAgrees'
  <2>1. ASSUME NEW q \in Runs \ {r}
        PROVE  pc'[q] = pc[q] /\ loc'[q] = loc[q]
    BY <1>1, <2>1, ActorFacts
  <2> QED BY <1>1, <2>1 DEF YouTubeProtocolInv, CopyAgrees
<1>5. YouTubePcAgrees'
  <2>1. ASSUME NEW q \in Runs \ {r}
        PROVE  pc'[q] = pc[q]
    BY <1>1, <2>1, ActorFacts
  <2> QED BY <1>1, <2>1 DEF YouTubeProtocolInv, YouTubePcAgrees
<1> QED BY <1>2, <1>3, <1>4, <1>5 DEF YouTubeProtocolInv

\* Places where a run claims nothing about the operation.
YouTubeQuietPc == {"idle", "start", "mark", "prepare", "provider", "after", "fail",
            "markFailed", "done"}

\* Going to such a place keeps the protocol invariant.
LEMMA YouTubeQuietStep ==
  ASSUME YouTubeProtocolInv, NEW r \in Runs, NEW label \in YouTubeQuietPc, Goto(r, label),
         UNCHANGED <<op, posts, inflight>>,
         loc' \in [Actors -> Operation \cup {NoOp}], \A q \in Runs \ {r} : loc'[q] = loc[q],
         YouTubeTargetAgrees'
  PROVE  YouTubeProtocolInv'
<1>1. label \in YouTubeRunPc /\ label \notin StoredPc \cup {"uploaded"} /\ YouTubeLabelAgrees(op, label)
  BY DEF YouTubeQuietPc, YouTubeRunPc, YouTubeTryBlock, StoredPc, YouTubeLabelAgrees
<1>2. inflight' \subseteq Runs /\ inflight' \subseteq {op.container}
  BY DEF YouTubeProtocolInv, YouTubeProtocolTypeOK, SentIsSession, YouTubeSent
<1> QED BY <1>1, <1>2, YouTubeLocalStep

\* A save keeps the protocol invariant if it keeps the session, or is the first
\* one, and the saved operation fits the next step.
LEMMA YouTubeSaveStep ==
  ASSUME YouTubeProtocolInv, NEW r \in Runs, \A q \in Runs \ {r} : pc[q] \in Stopped,
         target = "publishing",
         NEW value \in Operation, NEW label \in YouTubeRunPc \ {"uploaded"}, Save(r, value, label),
         value.container \in Runs,
         op = NoOp \/ value.container = op.container,
         YouTubeLabelAgrees(value, label),
         value.post # None => value.post = value.container /\ value.post \in posts,
         value.status = "published" => value.post # None
  PROVE  YouTubeProtocolInv'
<1>1. /\ op' = value /\ posts' = posts /\ inflight' = inflight /\ target' = target
      /\ loc' = [loc EXCEPT ![r] = value]
      /\ pc' = [pc EXCEPT ![r] = label]
  BY DEF Save, Goto, providerVars, itemVars
<1>2. /\ pc' \in [Actors -> YouTubeRunPc \cup OperatorPc]
      /\ pc'[r] = label
      /\ \A a \in Actors : a # r => pc'[a] = pc[a]
  BY <1>1, ActorFacts DEF YouTubeProtocolInv, YouTubeProtocolTypeOK
<1>3. /\ loc' \in [Actors -> Operation \cup {NoOp}]
      /\ loc'[r] = value
  BY <1>1, ActorFacts DEF YouTubeProtocolInv, YouTubeProtocolTypeOK
<1>4. \A q \in Runs \ {r} : pc'[q] \in {"idle", "done"}
  BY <1>2, ActorFacts DEF Stopped
<1>5. YouTubeProtocolTypeOK'
  BY <1>1, <1>2, <1>3, ActorFacts DEF YouTubeProtocolInv, YouTubeProtocolTypeOK
<1>6. SentIsSession'
  <2>1. CASE op = NoOp
    <3>1. YouTubeSent \subseteq {None} /\ YouTubeSent \subseteq Runs
      BY <2>1, YouTubeOperationFacts DEF YouTubeProtocolInv, YouTubeProtocolTypeOK, SentIsSession, YouTubeSent
    <3>2. YouTubeSent = {}
      BY <3>1, ActorFacts
    <3> QED BY <1>1, <3>2 DEF SentIsSession, YouTubeSent
  <2>2. CASE value.container = op.container
    BY <1>1, <2>2 DEF YouTubeProtocolInv, SentIsSession, YouTubeSent
  <2> QED BY <2>1, <2>2
<1>7. YouTubeSavedIsLive'
  BY <1>1 DEF YouTubeSavedIsLive
<1>8. CopyAgrees'
  BY <1>1, <1>2, <1>3, <1>4 DEF CopyAgrees, StoredPc
<1>9. YouTubePcAgrees'
  BY <1>1, <1>2, <1>4 DEF YouTubePcAgrees, YouTubeLabelAgrees, StoredPc
<1>10. YouTubeTargetAgrees'
  BY <1>1 DEF YouTubeTargetAgrees
<1> QED BY <1>5, <1>6, <1>7, <1>8, <1>9, <1>10 DEF YouTubeProtocolInv

-----------------------------------------------------------------------------
(* The steps of the YouTube protocol.                                      *)

\* What a run knows where it works on the stored operation.
LEMMA StoredFacts ==
  ASSUME YouTubeProtocolInv, NEW r \in Runs, pc[r] \in StoredPc \ {"session"}
  PROVE  /\ loc[r] = op /\ op \in Operation /\ op.container \in Runs
         /\ YouTubeLabelAgrees(op, pc[r])
<1>1. loc[r] = op /\ YouTubeLabelAgrees(op, pc[r])
  BY DEF YouTubeProtocolInv, CopyAgrees, YouTubePcAgrees
<1>2. op # NoOp
  BY <1>1 DEF YouTubeLabelAgrees
<1> QED BY <1>1, <1>2, YouTubeOperationFacts DEF YouTubeProtocolInv, YouTubeProtocolTypeOK

\* Saving the stored operation with another status keeps the invariant, if the
\* status fits the next step.
LEMMA StatusStep ==
  ASSUME YouTubeProtocolInv, NEW r \in Runs, \A q \in Runs \ {r} : pc[q] \in Stopped,
         target = "publishing", pc[r] \in StoredPc \ {"session"},
         NEW status \in OpStatus, NEW label \in YouTubeRunPc \ {"session", "uploaded"},
         Save(r, WithStatus(r, status), label),
         label = "check" => op.post # None,
         label = "complete" => status = "published",
         label = "review" => status = "uncertain",
         status = "published" => op.post # None
  PROVE  YouTubeProtocolInv'
<1> DEFINE value == [op EXCEPT !.status = status]
<1>1. loc[r] = op /\ op \in Operation /\ op.container \in Runs
  BY StoredFacts
<1>2. /\ value \in Operation /\ value.status = status
      /\ value.post = op.post /\ value.container = op.container
  BY <1>1, YouTubeOperationFacts
<1>3. Save(r, value, label)
  BY <1>1 DEF WithStatus
<1>4. value # NoOp
  BY <1>2, YouTubeOperationFacts
<1> HIDE DEF value
<1>5. YouTubeLabelAgrees(value, label)
  BY <1>2, <1>4 DEF YouTubeLabelAgrees
<1>6. value.post # None => value.post = value.container /\ value.post \in posts
  BY <1>2 DEF YouTubeProtocolInv, YouTubeSavedIsLive
<1> QED BY <1>1, <1>2, <1>3, <1>5, <1>6, YouTubeSaveStep

\* Every step of the connector keeps the protocol invariant.
LEMMA YouTubeStepKeepsProtocol ==
  ASSUME YouTubeProtocolInv, att \in [Runs -> Nat],
         NEW r \in Runs, \A q \in Runs \ {r} : pc[q] \in Stopped,
         target = "publishing", YouTubeStep(r)
  PROVE  YouTubeProtocolInv'
<1>a. /\ r \in Actors /\ r # None /\ att[r] \in Nat
      /\ op \in Operation \cup {NoOp} /\ loc \in [Actors -> Operation \cup {NoOp}]
  BY ActorFacts DEF YouTubeProtocolInv, YouTubeProtocolTypeOK
<1>b. {"ready", "finalizing", "processing", "failed", "uncertain", "published"} \subseteq OpStatus
  BY DEF OpStatus
<1>c. {"finalize", "send", "fail", "review", "check", "poll", "complete", "step"}
         \subseteq YouTubeRunPc \ {"session", "uploaded"}
  BY DEF YouTubeRunPc, YouTubeTryBlock
<1>d. /\ {"adopt", "step", "query", "requery", "finalize", "send", "sent", "check", "poll"}
           \subseteq StoredPc \ {"session"}
  BY DEF StoredPc
<1>e. pc[r] = "check" => op.post # None
  BY DEF YouTubeProtocolInv, YouTubePcAgrees, YouTubeLabelAgrees
<1>1. CASE YouTubeReadOperation(r)
  <2>1. /\ op' = op /\ posts' = posts /\ inflight' = inflight /\ target' = target
        /\ loc' = [loc EXCEPT ![r] = op]
    BY <1>1 DEF YouTubeReadOperation, providerVars, itemVars
  <2>2. /\ loc' \in [Actors -> Operation \cup {NoOp}] /\ loc'[r] = op
        /\ \A q \in Runs \ {r} : loc'[q] = loc[q]
    BY <1>a, <2>1, ActorFacts
  <2>3. PICK label \in {"session", "review", "fail", "adopt", "step"} :
          /\ Goto(r, label)
          /\ label = "session" <=> op = NoOp
          /\ label = "review" => op.status = "uncertain"
    BY <1>1 DEF YouTubeReadOperation
  <2>4. label \in YouTubeRunPc \ {"uploaded"} /\ YouTubeLabelAgrees(op, label)
    BY <2>3 DEF YouTubeRunPc, YouTubeTryBlock, YouTubeLabelAgrees, StoredPc
  <2>5. YouTubeTargetAgrees'
    BY <2>1 DEF YouTubeProtocolInv, YouTubeTargetAgrees
  <2>6. inflight' \subseteq Runs /\ inflight' \subseteq {op.container}
    BY <2>1 DEF YouTubeProtocolInv, YouTubeProtocolTypeOK, SentIsSession, YouTubeSent
  <2> QED BY <2>1, <2>2, <2>3, <2>4, <2>5, <2>6, YouTubeLocalStep
<1>2. CASE OpenSession(r)
  <2> DEFINE value == [status |-> "ready", container |-> r, post |-> None, attempt |-> att[r]]
  <2>1. value \in Operation /\ value.status = "ready" /\ value.post = None /\ value.container = r
    BY <1>a, <1>b DEF Operation
  <2>2. op = NoOp /\ Save(r, value, "step")
    BY <1>2 DEF OpenSession, YouTubeProtocolInv, YouTubePcAgrees, YouTubeLabelAgrees
  <2>3. YouTubeLabelAgrees(value, "step")
    BY <2>1, YouTubeOperationFacts DEF YouTubeLabelAgrees
  <2> HIDE DEF value
  <2> QED BY <1>c, <2>1, <2>2, <2>3, YouTubeSaveStep
<1>3. CASE YouTubeAdoptAttempt(r)
  <2> DEFINE value == [op EXCEPT !.attempt = att[r]]
  <2>1. loc[r] = op /\ op \in Operation /\ op.container \in Runs
    BY <1>3, <1>d, StoredFacts DEF YouTubeAdoptAttempt
  <2>2. /\ value \in Operation /\ value.status = op.status /\ value.post = op.post
        /\ value.container = op.container
    BY <1>a, <2>1, YouTubeOperationFacts
  <2>3. Save(r, value, "step")
    BY <1>3, <2>1 DEF YouTubeAdoptAttempt
  <2>4. YouTubeLabelAgrees(value, "step")
    BY <2>2, YouTubeOperationFacts DEF YouTubeLabelAgrees
  <2>5. /\ op.post # None => op.post = op.container /\ op.post \in posts
        /\ op.status = "published" => op.post # None
    BY DEF YouTubeProtocolInv, YouTubeSavedIsLive
  <2> HIDE DEF value
  <2> QED BY <1>c, <2>1, <2>2, <2>3, <2>4, <2>5, YouTubeSaveStep
<1>4. CASE YouTubeRoute(r)
  <2>1. loc[r] = op /\ op \in Operation /\ pc[r] = "step"
    BY <1>4, <1>d, StoredFacts DEF YouTubeRoute
  <2>2. UNCHANGED <<op, loc, posts, inflight>> /\ target' = target
    BY <1>4 DEF YouTubeRoute, itemVars, providerVars
  <2>3. PICK label \in {"complete", "check", "query", "finalize"} :
          /\ Goto(r, label)
          /\ label = "complete" => op.status = "published"
          /\ label = "check" => op.post # None
    BY <1>4, <2>1 DEF YouTubeRoute
  <2>4. label \in YouTubeRunPc \ {"uploaded"} /\ YouTubeLabelAgrees(op, label)
    BY <2>1, <2>3, YouTubeOperationFacts DEF YouTubeRunPc, YouTubeTryBlock, YouTubeLabelAgrees, StoredPc
  <2>5. YouTubeTargetAgrees'
    BY <2>2 DEF YouTubeProtocolInv, YouTubeTargetAgrees
  <2>6. inflight' \subseteq Runs /\ inflight' \subseteq {op.container}
    BY <2>2 DEF YouTubeProtocolInv, YouTubeProtocolTypeOK, SentIsSession, YouTubeSent
  <2> QED BY <1>a, <2>1, <2>2, <2>3, <2>4, <2>5, <2>6, YouTubeLocalStep
<1>5. CASE SessionIsFinished(r) \/ UploadOk(r)
  <2>1. /\ pc[r] \in {"query", "requery", "sent"}
        /\ loc[r].container \in posts
        /\ loc' = [loc EXCEPT ![r] = [loc[r] EXCEPT !.post = loc[r].container]]
        /\ Goto(r, "uploaded")
        /\ UNCHANGED <<op, posts, inflight>> /\ target' = target
    BY <1>5, <1>a DEF SessionIsFinished, UploadOk, itemVars, providerVars
  <2>2. loc[r] = op /\ op \in Operation /\ op.container \in Runs
    BY <1>d, <2>1, StoredFacts
  <2>3. [op EXCEPT !.post = op.container] \in Operation
    BY <2>2, YouTubeOperationFacts
  <2>4. /\ loc' \in [Actors -> Operation \cup {NoOp}]
        /\ loc'[r] = [op EXCEPT !.post = op.container]
        /\ \A q \in Runs \ {r} : loc'[q] = loc[q]
    BY <1>a, <2>1, <2>2, <2>3, ActorFacts
  <2>5. "uploaded" \in YouTubeRunPc /\ "uploaded" \notin StoredPc /\ YouTubeLabelAgrees(op, "uploaded")
    BY DEF YouTubeRunPc, YouTubeTryBlock, StoredPc, YouTubeLabelAgrees
  <2>6. YouTubeTargetAgrees'
    BY <2>1 DEF YouTubeProtocolInv, YouTubeTargetAgrees
  <2>7. inflight' \subseteq Runs /\ inflight' \subseteq {op.container}
    BY <2>1 DEF YouTubeProtocolInv, YouTubeProtocolTypeOK, SentIsSession, YouTubeSent
  <2>8. op # NoOp /\ op.container \in posts
    BY <2>1, <2>2, YouTubeOperationFacts
  <2> QED BY <2>1, <2>4, <2>5, <2>6, <2>7, <2>8, YouTubeLocalStep
<1>6. CASE SessionIsIncomplete(r)
  <2>1. PICK label \in {"finalize", "fail"} : Save(r, WithStatus(r, "ready"), label)
    BY <1>6 DEF SessionIsIncomplete
  <2> QED BY <1>6, <1>b, <1>c, <1>d, <2>1, StatusStep DEF SessionIsIncomplete
<1>7. CASE SessionIsUncertain(r)
  BY <1>7, <1>b, <1>c, <1>d, StatusStep DEF SessionIsUncertain
<1>8. CASE YouTubeSaveFinalizing(r)
  BY <1>8, <1>b, <1>c, <1>d, StatusStep DEF YouTubeSaveFinalizing
<1>9. CASE YouTubeSend(r)
  <2>1. loc[r] = op /\ op \in Operation /\ op.container \in Runs
    BY <1>9, <1>d, StoredFacts DEF YouTubeSend
  <2>2. /\ inflight' = inflight \cup ({op.container} \ posts)
        /\ UNCHANGED <<op, posts, loc>> /\ target' = target /\ Goto(r, "sent")
    BY <1>9, <2>1 DEF YouTubeSend, itemVars
  <2>3. inflight' \subseteq Runs /\ inflight' \subseteq {op.container}
    BY <2>1, <2>2 DEF YouTubeProtocolInv, YouTubeProtocolTypeOK, SentIsSession, YouTubeSent
  <2>4. "sent" \in YouTubeRunPc /\ YouTubeLabelAgrees(op, "sent")
    BY <2>1, YouTubeOperationFacts DEF YouTubeRunPc, YouTubeTryBlock, YouTubeLabelAgrees
  <2>5. YouTubeTargetAgrees'
    BY <2>2 DEF YouTubeProtocolInv, YouTubeTargetAgrees
  <2> QED BY <1>a, <2>1, <2>2, <2>3, <2>4, <2>5, YouTubeLocalStep
<1>10. CASE UploadIncomplete(r)
  BY <1>10, <1>b, <1>c, <1>d, StatusStep DEF UploadIncomplete
<1>11. CASE UploadError(r)
  <2>1. loc[r] = op /\ op \in Operation
    BY <1>11, <1>d, StoredFacts DEF UploadError
  <2>2. UNCHANGED <<op, posts, inflight, loc>> /\ target' = target /\ Goto(r, "requery")
    BY <1>11 DEF UploadError, itemVars, providerVars
  <2>3. inflight' \subseteq Runs /\ inflight' \subseteq {op.container}
    BY <2>2 DEF YouTubeProtocolInv, YouTubeProtocolTypeOK, SentIsSession, YouTubeSent
  <2>4. "requery" \in YouTubeRunPc /\ YouTubeLabelAgrees(op, "requery")
    BY <2>1, YouTubeOperationFacts DEF YouTubeRunPc, YouTubeTryBlock, YouTubeLabelAgrees
  <2>5. YouTubeTargetAgrees'
    BY <2>2 DEF YouTubeProtocolInv, YouTubeTargetAgrees
  <2> QED BY <1>a, <2>1, <2>2, <2>3, <2>4, <2>5, YouTubeLocalStep
<1>12. CASE SaveProcessing(r)
  <2> DEFINE found == [op EXCEPT !.post = op.container]
             value == [found EXCEPT !.status = "processing"]
  <2>1. op # NoOp /\ op.container \in posts /\ loc[r] = found
    BY <1>12 DEF SaveProcessing, YouTubeProtocolInv, CopyAgrees
  <2>2. op \in Operation /\ op.container \in Runs
    BY <1>a, <2>1, YouTubeOperationFacts DEF YouTubeProtocolInv, YouTubeProtocolTypeOK
  <2>3. found \in Operation /\ found.post = op.container /\ found.container = op.container
    BY <2>2, YouTubeOperationFacts
  <2>4. Save(r, value, "check")
    BY <1>12, <2>1 DEF SaveProcessing, WithStatus
  <2> HIDE DEF found
  <2>5. /\ value \in Operation /\ value.status = "processing"
        /\ value.post = op.container /\ value.container = op.container
    BY <1>b, <2>3, YouTubeOperationFacts
  <2>6. YouTubeLabelAgrees(value, "check")
    BY <2>2, <2>5, ActorFacts, YouTubeOperationFacts DEF YouTubeLabelAgrees
  <2> HIDE DEF value
  <2> QED BY <1>c, <2>1, <2>2, <2>4, <2>5, <2>6, YouTubeSaveStep
<1>13. CASE CheckFailed(r)
  BY <1>13, <1>b, <1>c, <1>d, StatusStep DEF CheckFailed
<1>14. CASE CheckLater(r)
  BY <1>14, <1>b, <1>c, <1>d, StatusStep DEF CheckLater
<1>15. CASE EnqueuePoll(r)
  <2>1. UNCHANGED <<op, posts, inflight, loc>> /\ target' = target /\ Goto(r, "done")
    BY <1>15 DEF EnqueuePoll, itemVars, providerVars
  <2>2. YouTubeTargetAgrees' /\ "done" \in YouTubeQuietPc
    BY <2>1 DEF YouTubeProtocolInv, YouTubeTargetAgrees, YouTubeQuietPc
  <2> QED BY <1>a, <2>1, <2>2, YouTubeQuietStep
<1>16. CASE CheckUncertain(r)
  BY <1>16, <1>b, <1>c, <1>d, StatusStep DEF CheckUncertain
<1>17. CASE CheckOk(r)
  BY <1>17, <1>b, <1>c, <1>d, <1>e, StatusStep DEF CheckOk
<1> QED
  BY <1>1, <1>2, <1>3, <1>4, <1>5, <1>6, <1>7, <1>8, <1>9, <1>10, <1>11, <1>12, <1>13, <1>14,
     <1>15, <1>16, <1>17 DEF YouTubeStep

-----------------------------------------------------------------------------
(* The steps every platform shares.                                        *)

\* The handler's steps keep the protocol invariant.
LEMMA YouTubeHandlerKeepsProtocol ==
  ASSUME YouTubeProtocolInv, BusyIsPublishing, NEW r \in Runs, HandlerStep(r, YouTubeTryBlock)
  PROVE  YouTubeProtocolInv'
<1>a. YouTubeLabelAgrees(op, pc[r]) /\ YouTubeTargetAgrees
  BY DEF YouTubeProtocolInv, YouTubePcAgrees
<1>1. UNCHANGED <<op, loc, posts, inflight>>
  BY DEF HandlerStep, Skip, Begin, StartPublishAttempt, MarkPublishing, Prepare,
       CompleteAutomaticPublication, Finish, NeedsReview, Trouble, FinishAttemptFailed,
       MarkFailed, Conflict, Crash, providerVars
<1>2. \E label \in YouTubeQuietPc : Goto(r, label)
  BY DEF HandlerStep, Skip, Begin, StartPublishAttempt, MarkPublishing, Prepare,
       CompleteAutomaticPublication, Finish, NeedsReview, Trouble, FinishAttemptFailed,
       MarkFailed, Conflict, Crash, YouTubeQuietPc
<1>3. \/ target' \in {target, "publishing", "failed"}
      \/ target' = "published" /\ pc[r] = "complete"
      \/ target' = "action_required" /\ pc[r] = "review"
  BY DEF HandlerStep, Skip, Begin, StartPublishAttempt, MarkPublishing, Prepare,
       CompleteAutomaticPublication, Finish, NeedsReview, Trouble, FinishAttemptFailed,
       MarkFailed, Conflict, Crash, itemVars
<1>4. YouTubeTargetAgrees'
  BY <1>a, <1>1, <1>3 DEF YouTubeTargetAgrees, YouTubeLabelAgrees
<1>5. /\ loc' \in [Actors -> Operation \cup {NoOp}]
      /\ \A q \in Runs \ {r} : loc'[q] = loc[q]
  BY <1>1 DEF YouTubeProtocolInv, YouTubeProtocolTypeOK
<1> QED BY <1>1, <1>2, <1>4, <1>5, YouTubeQuietStep

\* A request that takes effect is one of those that were sent.
LEMMA YouTubeProviderPublishKeepsProtocol ==
  ASSUME YouTubeProtocolInv, NEW r \in Runs, ProviderPublish(r)
  PROVE  YouTubeProtocolInv'
<1>1. YouTubeSent' = YouTubeSent /\ posts \subseteq posts' /\ posts' \subseteq Runs /\ inflight' \subseteq Runs
  BY DEF ProviderPublish, YouTubeSent, YouTubeProtocolInv, YouTubeProtocolTypeOK
<1>2. UNCHANGED <<target, op, pc, loc>>
  BY DEF ProviderPublish, itemVars
<1> QED
  BY <1>1, <1>2 DEF YouTubeProtocolInv, YouTubeProtocolTypeOK, SentIsSession, YouTubeSavedIsLive,
       CopyAgrees, YouTubePcAgrees, YouTubeTargetAgrees

\* Cancelling, editing and confirming keep the protocol invariant.
LEMMA YouTubeApiStepKeepsProtocol ==
  ASSUME YouTubeProtocolInv, SequentialInv, ApiStep
  PROVE  YouTubeProtocolInv'
<1>a. /\ op \in Operation \cup {NoOp} /\ loc \in [Actors -> Operation \cup {NoOp}]
      /\ pc \in [Actors -> YouTubeRunPc \cup OperatorPc]
      /\ posts \subseteq Runs
  BY DEF YouTubeProtocolInv, YouTubeProtocolTypeOK
<1>b. {"read", "confirm", "done"} \subseteq OperatorPc
  BY DEF OperatorPc
<1>c. \A o \in Operators : o \in Actors /\ o \notin Runs
  BY ActorFacts
<1>1. CASE CancelTarget \/ EditItem
  <2>1. UNCHANGED <<op, loc, pc, posts, inflight>> /\ target' \in {target, "cancelled"}
    BY <1>1 DEF CancelTarget, EditItem, providerVars
  <2> QED
    BY <2>1 DEF YouTubeProtocolInv, YouTubeProtocolTypeOK, SentIsSession, YouTubeSavedIsLive, YouTubeSent,
         CopyAgrees, YouTubePcAgrees, YouTubeTargetAgrees
<1>2. ASSUME NEW o \in Operators, ConfirmGetItem(o) \/ ConfirmGetOperation(o)
      PROVE  YouTubeProtocolInv'
  <2>1. /\ UNCHANGED <<op, posts, inflight, target>>
        /\ loc' = loc \/ loc' = [loc EXCEPT ![o] = op]
        /\ \E label \in OperatorPc : pc' = [pc EXCEPT ![o] = label]
    BY <1>2, <1>b DEF ConfirmGetItem, ConfirmGetOperation, Goto, providerVars, itemVars
  <2>2. \A r \in Runs : pc'[r] = pc[r] /\ loc'[r] = loc[r]
    BY <1>a, <2>1, ActorFacts
  <2>3. YouTubeProtocolTypeOK'
    BY <1>a, <1>c, <2>1, <2>2 DEF YouTubeProtocolInv, YouTubeProtocolTypeOK
  <2> QED
    BY <2>1, <2>2, <2>3 DEF YouTubeProtocolInv, SentIsSession, YouTubeSavedIsLive, YouTubeSent,
         CopyAgrees, YouTubePcAgrees, YouTubeTargetAgrees
<1>3. ASSUME NEW o \in Operators, ConfirmProviderPublication(o)
      PROVE  YouTubeProtocolInv'
  <2>1. loc[o] = op /\ target = "action_required" /\ \A r \in Runs : pc[r] \in Early
    BY <1>3, ConfirmIsAlone
  <2>2. op \in Operation /\ op.status = "uncertain" /\ op.container \in Runs
    BY <1>a, <2>1, YouTubeOperationFacts DEF YouTubeProtocolInv, YouTubeProtocolTypeOK, YouTubeTargetAgrees
  <2>3. PICK p \in posts : op' = [[op EXCEPT !.status = "published"] EXCEPT !.post = p]
    BY <1>3, <2>1 DEF ConfirmProviderPublication
  <2>4. /\ op' \in Operation /\ op'.status = "published" /\ op'.post = p
        /\ op'.container = op.container
    <3> DEFINE doubtless == [op EXCEPT !.status = "published"]
    <3>1. /\ doubtless \in Operation /\ doubtless.status = "published"
          /\ doubtless.container = op.container
      BY <2>2, YouTubeOperationFacts DEF OpStatus
    <3>2. op' = [doubtless EXCEPT !.post = p]
      BY <2>3
    <3> HIDE DEF doubtless
    <3> QED BY <1>a, <3>1, <3>2, YouTubeOperationFacts
  <2>5. /\ UNCHANGED <<posts, inflight, loc>> /\ target' = "published"
        /\ pc' = [pc EXCEPT ![o] = "done"]
    BY <1>3, Zenon DEF ConfirmProviderPublication, Goto, providerVars
  <2>6. \A r \in Runs : pc'[r] = pc[r]
    BY <1>a, <2>5, ActorFacts
  <2>7. YouTubeProtocolTypeOK'
    BY <1>a, <1>b, <1>c, <2>2, <2>4, <2>5, <2>6 DEF YouTubeProtocolInv, YouTubeProtocolTypeOK
  <2>8. SentIsSession' /\ YouTubeSavedIsLive'
    BY <1>a, <2>3, <2>4, <2>5, ActorFacts DEF YouTubeProtocolInv, SentIsSession, YouTubeSavedIsLive, YouTubeSent
  <2>9. CopyAgrees' /\ YouTubePcAgrees'
    BY <2>1, <2>6 DEF CopyAgrees, YouTubePcAgrees, YouTubeLabelAgrees, Early, StoredPc
  <2>10. YouTubeTargetAgrees'
    BY <2>4, <2>5 DEF YouTubeTargetAgrees
  <2> QED BY <2>7, <2>8, <2>9, <2>10 DEF YouTubeProtocolInv
<1> QED BY <1>1, <1>2, <1>3 DEF ApiStep

-----------------------------------------------------------------------------
(* The inductive invariant.                                                *)

\* It holds initially.
LEMMA YouTubeInitIInv == YouTubeInit => YouTubeIInv
<1> SUFFICES ASSUME YouTubeInit PROVE YouTubeIInv
  OBVIOUS
<1>a. pc = [a \in Actors |-> "idle"] /\ \A r \in Runs : pc[r] = "idle"
  BY ActorFacts DEF YouTubeInit, TargetInit
<1>1. ItemInv
  <2>1. ItemTypeOK
    BY DEF YouTubeInit, TargetInit, ItemTypeOK, TargetStatus
  <2> QED BY <1>a, <2>1 DEF YouTubeInit, TargetInit, ItemInv, SettledIsStale, WaitingIsUnsent,
                ProvedIsPublished, Early
<1>2. SequentialInv
  BY <1>a DEF YouTubeInit, TargetInit, SequentialInv, OneAtATime, BusyIsPublishing, ConfirmIsFresh,
       Stopped, Early
<1>3. YouTubeProtocolTypeOK
  BY <1>a, YouTubeOperationFacts DEF YouTubeInit, TargetInit, YouTubeProtocolTypeOK, YouTubeRunPc,
       OperatorPc, Actors
<1>4. YouTubeProtocolInv
  BY <1>a, <1>3, YouTubeOperationFacts DEF YouTubeInit, TargetInit, YouTubeProtocolInv, SentIsSession,
       YouTubeSavedIsLive, YouTubeSent, CopyAgrees, YouTubePcAgrees, YouTubeLabelAgrees, YouTubeTargetAgrees,
       StoredPc
<1> QED BY <1>1, <1>2, <1>4 DEF YouTubeIInv

\* Every step of the system keeps it when runs do not overlap.
LEMMA YouTubeNextKeepsIInv == ~Overlapping /\ YouTubeIInv /\ [YouTubeNext]_vars => YouTubeIInv'
<1> SUFFICES ASSUME ~Overlapping, YouTubeIInv, [YouTubeNext]_vars PROVE YouTubeIInv'
  OBVIOUS
<1>a. /\ att \in [Runs -> Nat] /\ posts \subseteq Runs
      /\ pc \in [Actors -> YouTubeRunPc \cup OperatorPc] /\ DOMAIN loc = Actors
      /\ ItemInv /\ SequentialInv /\ YouTubeProtocolInv /\ BusyIsPublishing
  BY DEF YouTubeIInv, ItemInv, ItemTypeOK, YouTubeProtocolInv, YouTubeProtocolTypeOK, SequentialInv
<1>b. \A r \in Runs : MayRun(r) => \A q \in Runs \ {r} : pc[q] \in Stopped
  BY DEF MayRun, Stopped
<1>1. ASSUME NEW r \in Runs, MayRun(r), YouTubeStep(r) PROVE YouTubeIInv'
  <2>1. /\ pc[r] \notin Early \cup {"after", "fail"}
        /\ UNCHANGED <<itemVars, att>> /\ posts' = posts
        /\ \E label \in YouTubeRunPc \ {"after"} : Goto(r, label)
    BY <1>1 DEF YouTubeStep, YouTubeReadOperation, OpenSession, YouTubeAdoptAttempt, YouTubeRoute,
         SessionIsFinished,
         SessionIsIncomplete, SessionIsUncertain, YouTubeSaveFinalizing, YouTubeSend, UploadOk,
         UploadIncomplete, UploadError, SaveProcessing, CheckFailed, CheckLater, EnqueuePoll,
         CheckUncertain, CheckOk, Save, Early, providerVars, YouTubeRunPc, YouTubeTryBlock
  <2>2. target = "publishing"
    BY <1>a, <2>1 DEF BusyIsPublishing
  <2>3. ItemInv'
    BY <1>a, <2>1, ProviderStepKeepsItem
  <2>4. SequentialInv'
    BY <1>1, <1>a, <1>b, <2>1, ProtocolStepKeepsSequential
  <2>5. YouTubeProtocolInv'
    BY <1>1, <1>a, <1>b, <2>2, YouTubeStepKeepsProtocol
  <2> QED BY <2>3, <2>4, <2>5 DEF YouTubeIInv
<1>2. ASSUME NEW r \in Runs, MayRun(r), HandlerStep(r, YouTubeTryBlock) PROVE YouTubeIInv'
  <2>1. pc[r] = "complete" => loc[r].post \in posts
    BY <1>a DEF YouTubeProtocolInv, CopyAgrees, YouTubePcAgrees, YouTubeLabelAgrees, YouTubeSavedIsLive,
         StoredPc
  <2>2. YouTubeTryBlock \cap Early = {}
    BY DEF YouTubeTryBlock, Early
  <2>3. ItemInv'
    BY <1>2, <1>a, <2>1, <2>2, HandlerStepKeepsItem
  <2>4. SequentialInv'
    BY <1>2, <1>a, <1>b, <2>2, HandlerStepKeepsSequential
  <2> QED BY <1>2, <1>a, <2>3, <2>4, YouTubeHandlerKeepsProtocol DEF YouTubeIInv
<1>3. ASSUME NEW r \in Runs, ProviderPublish(r) PROVE YouTubeIInv'
  <2>1. ItemInv'
    BY <1>3, <1>a, OutsideStepKeepsItem DEF ProviderPublish
  <2>2. SequentialInv'
    BY <1>3, <1>a DEF ProviderPublish, itemVars, SequentialInv, OneAtATime, BusyIsPublishing,
         ConfirmIsFresh
  <2> QED BY <1>3, <1>a, <2>1, <2>2, YouTubeProviderPublishKeepsProtocol DEF YouTubeIInv
<1>4. CASE ApiStep
  BY <1>4, <1>a, ApiStepKeepsItem, ApiStepKeepsSequential, YouTubeApiStepKeepsProtocol DEF YouTubeIInv
<1>5. CASE UNCHANGED vars
  BY <1>5 DEF vars, YouTubeIInv, ItemInv, ItemTypeOK, SettledIsStale, WaitingIsUnsent,
       ProvedIsPublished, SequentialInv, OneAtATime, BusyIsPublishing, ConfirmIsFresh,
       YouTubeProtocolInv, YouTubeProtocolTypeOK, SentIsSession, YouTubeSavedIsLive, YouTubeSent, CopyAgrees,
       YouTubePcAgrees,
       YouTubeTargetAgrees
<1> QED BY <1>1, <1>2, <1>3, <1>4, <1>5 DEF YouTubeNext

\* What the invariant says: the types, one video, identifiers and proofs of
\* videos that exist, and reviews that an operator can resolve.
LEMMA YouTubeIInvImplies == YouTubeIInv => YouTubeTypeOK /\ AtMostOneVideo /\ SavedVideoIsLive /\ ReviewIsResolvable
<1>1. YouTubeIInv => YouTubeTypeOK
  <2>1. YouTubeIInv => proofs \subseteq Runs
    BY DEF YouTubeIInv, ItemInv, YouTubeProtocolInv, YouTubeProtocolTypeOK
  <2> QED BY <2>1 DEF YouTubeIInv, ItemInv, ItemTypeOK, YouTubeProtocolInv, YouTubeProtocolTypeOK,
       YouTubeTypeOK, TargetTypeOK
<1>2. YouTubeIInv => AtMostOneVideo
  BY DEF YouTubeIInv, YouTubeProtocolInv, SentIsSession, YouTubeSent, AtMostOneVideo
<1>3. YouTubeIInv => SavedVideoIsLive /\ ReviewIsResolvable
  BY DEF YouTubeIInv, ItemInv, YouTubeProtocolInv, YouTubeSavedIsLive, YouTubeTargetAgrees, SavedVideoIsLive,
       ReviewIsResolvable
<1> QED BY <1>1, <1>2, <1>3

\* No step replaces a saved video identifier or the session it came from.
LEMMA SavedVideoStepStays == ~Overlapping /\ YouTubeIInv /\ YouTubeNext => SavedVideoStays
<1> SUFFICES ASSUME ~Overlapping, YouTubeIInv, YouTubeNext, op.post # None
             PROVE  op'.post = op.post /\ op'.container = op.container
  BY DEF SavedVideoStays
<1>a. /\ YouTubeProtocolInv /\ SequentialInv /\ att \in [Runs -> Nat]
      /\ op.post = op.container /\ op.post \in posts /\ posts \subseteq {op.container}
      /\ op # NoOp /\ op \in Operation /\ op.container \in Runs
  BY YouTubeOperationFacts DEF YouTubeIInv, ItemInv, ItemTypeOK, YouTubeProtocolInv, YouTubeProtocolTypeOK,
       YouTubeSavedIsLive,
       SentIsSession, YouTubeSent
<1>1. ASSUME NEW r \in Runs, HandlerStep(r, YouTubeTryBlock) \/ ProviderPublish(r)
      PROVE  op' = op
  BY <1>1 DEF HandlerStep, Skip, Begin, StartPublishAttempt, MarkPublishing, Prepare,
       CompleteAutomaticPublication, Finish, NeedsReview, Trouble, FinishAttemptFailed,
       MarkFailed, Conflict, Crash, ProviderPublish
<1>2. ASSUME NEW r \in Runs, YouTubeStep(r)
      PROVE  op'.post = op.post /\ op'.container = op.container
  <2>1. CASE \/ YouTubeReadOperation(r) \/ YouTubeRoute(r) \/ SessionIsFinished(r) \/ UploadOk(r) \/ YouTubeSend(r)
             \/ UploadError(r) \/ EnqueuePoll(r)
    BY <2>1 DEF YouTubeReadOperation, YouTubeRoute, SessionIsFinished, UploadOk, YouTubeSend, UploadError,
         EnqueuePoll
  <2>2. CASE OpenSession(r)
    BY <1>a, <2>2 DEF OpenSession, YouTubeProtocolInv, YouTubePcAgrees, YouTubeLabelAgrees
  <2>3. CASE YouTubeAdoptAttempt(r)
    <3>1. loc[r] = op
      BY <1>a, <2>3, StoredFacts DEF YouTubeAdoptAttempt, StoredPc
    <3>2. op' = [op EXCEPT !.attempt = att[r]] /\ att[r] \in Nat
      BY <1>a, <2>3, <3>1 DEF YouTubeAdoptAttempt, Save
    <3> QED BY <1>a, <3>2, YouTubeOperationFacts
  <2>4. CASE SaveProcessing(r)
    <3> DEFINE found == [op EXCEPT !.post = op.container]
    <3>1. loc[r] = found
      BY <1>a, <2>4 DEF SaveProcessing, YouTubeProtocolInv, CopyAgrees
    <3>2. found \in Operation /\ found.post = op.container /\ found.container = op.container
      BY <1>a, YouTubeOperationFacts
    <3>3. op' = [found EXCEPT !.status = "processing"] /\ "processing" \in OpStatus
      BY <2>4, <3>1 DEF SaveProcessing, Save, WithStatus, OpStatus
    <3> HIDE DEF found
    <3> QED BY <1>a, <3>2, <3>3, YouTubeOperationFacts
  <2>5. ASSUME NEW status \in OpStatus, op' = WithStatus(r, status), pc[r] \in StoredPc \ {"session"}
        PROVE  op'.post = op.post /\ op'.container = op.container
    <3>1. op' = [op EXCEPT !.status = status]
      BY <1>a, <2>5, StoredFacts DEF WithStatus
    <3> QED BY <1>a, <3>1, YouTubeOperationFacts
  <2>6. CASE \/ SessionIsIncomplete(r) \/ SessionIsUncertain(r) \/ YouTubeSaveFinalizing(r)
             \/ UploadIncomplete(r) \/ CheckFailed(r) \/ CheckLater(r) \/ CheckUncertain(r)
             \/ CheckOk(r)
    <3>1. \E status \in OpStatus : op' = WithStatus(r, status)
      BY <2>6 DEF SessionIsIncomplete, SessionIsUncertain, YouTubeSaveFinalizing, UploadIncomplete,
           CheckFailed, CheckLater, CheckUncertain, CheckOk, Save, OpStatus
    <3>2. pc[r] \in StoredPc \ {"session"}
      BY <2>6 DEF SessionIsIncomplete, SessionIsUncertain, YouTubeSaveFinalizing, UploadIncomplete,
           CheckFailed, CheckLater, CheckUncertain, CheckOk, StoredPc
    <3> QED BY <2>5, <3>1, <3>2
  <2> QED BY <1>2, <2>1, <2>2, <2>3, <2>4, <2>6 DEF YouTubeStep
<1>3. CASE CancelTarget \/ EditItem
  BY <1>3 DEF CancelTarget, EditItem
<1>4. ASSUME NEW o \in Operators, ConfirmGetItem(o) \/ ConfirmGetOperation(o)
      PROVE  op' = op
  BY <1>4 DEF ConfirmGetItem, ConfirmGetOperation
<1>5. ASSUME NEW o \in Operators, ConfirmProviderPublication(o)
      PROVE  op'.post = op.post /\ op'.container = op.container
  <2> DEFINE doubtless == [op EXCEPT !.status = "published"]
  <2>1. loc[o] = op
    BY <1>5, <1>a, ConfirmIsAlone
  <2>2. PICK p \in posts : op' = [doubtless EXCEPT !.post = p]
    BY <1>5, <2>1 DEF ConfirmProviderPublication
  <2>3. p = op.container
    BY <1>a
  <2>4. doubtless \in Operation /\ doubtless.container = op.container
    BY <1>a, YouTubeOperationFacts DEF OpStatus
  <2> HIDE DEF doubtless
  <2> QED BY <1>a, <2>2, <2>3, <2>4, YouTubeOperationFacts
<1> QED BY <1>1, <1>2, <1>3, <1>4, <1>5 DEF YouTubeNext, ApiStep

-----------------------------------------------------------------------------
(* The theorems.                                                           *)

\* With one run at a time, interrupted, resumed and re-queried uploads finish
\* at most one video, saved identifiers and proofs name it, and a target that
\* waits for a person can be resolved by one.
THEOREM YouTubeSafety ==
  ASSUME ~Overlapping
  PROVE  YouTubeSpec => [](YouTubeTypeOK /\ AtMostOneVideo /\ SavedVideoIsLive /\ ReviewIsResolvable)
<1>1. YouTubeIInv /\ [YouTubeNext]_vars => YouTubeIInv'
  BY YouTubeNextKeepsIInv
<1> QED BY <1>1, YouTubeInitIInv, YouTubeIInvImplies, PTL DEF YouTubeSpec

\* A video that was found is never uploaded again.
THEOREM YouTubeVideoForGood ==
  ASSUME ~Overlapping
  PROVE  YouTubeSpec => [][SavedVideoStays]_vars
<1>1. YouTubeIInv /\ [YouTubeNext]_vars => YouTubeIInv'
  BY YouTubeNextKeepsIInv
<1>2. YouTubeIInv /\ [YouTubeNext]_vars => [SavedVideoStays]_vars
  BY SavedVideoStepStays
<1> QED BY <1>1, <1>2, YouTubeInitIInv, PTL DEF YouTubeSpec
=============================================================================
