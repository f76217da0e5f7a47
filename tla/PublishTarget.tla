---------------------------- MODULE PublishTarget ----------------------------
(***************************************************************************)
(* One publish target and everything that moves it: the executions of the  *)
(* worker's publish handler, operators who record a provider result by     *)
(* hand, and every other API request that commits the same content item.   *)
(*                                                                         *)
(* A run is one execution of the handler.  Job retries, stalled            *)
(* redeliveries, startup recovery jobs and provider-claim retries are all  *)
(* further runs, in any number and with any overlap.  A run that crashes   *)
(* just stops; what it sent to the provider may still take effect.         *)
(*                                                                         *)
(* Optimistic concurrency.  Every commit raises the item's version by one  *)
(* and is accepted only by the version it was computed from, so the run's  *)
(* copy is acceptable exactly while nobody else has committed since it was *)
(* read (module ContentStore).  `current' holds the actors whose copy      *)
(* still carries the stored version.                                       *)
(*                                                                         *)
(* The platform modules extend this one with the steps of the provider     *)
(* protocol between "provider" and "complete" or "review".                 *)
(***************************************************************************)
EXTENDS Naturals, Sequences

CONSTANTS Runs,        \* executions of the publish handler for this target
          Operators,   \* API requests that confirm a provider publication
          None,        \* no external post identifier
          Overlapping  \* may two runs be under way at the same time (for a connector without a claim)?

ASSUME ActorsAssumption == /\ Runs \cap Operators = {}
                           /\ None \notin Runs

VARIABLES target,      \* status of the target in the stored item
          attempts,    \* statuses of the stored publish attempts, in order
          proofs,      \* external posts the stored item has a proof of
          current,     \* actors whose copy of the item has the stored version
          op,          \* stored provider publish operation, or NoOp
          posts,       \* posts live at the provider, named by their sender
          inflight,    \* requests sent and not (yet) carried out
          pc,          \* where each actor is
          att,         \* attempt number a run works under
          loc          \* the actor's copy of the provider operation

itemVars     == <<target, attempts, proofs, current>>
providerVars == <<posts, inflight>>
vars         == <<target, attempts, proofs, current, op, posts, inflight,
                  pc, att, loc>>

Actors == Runs \cup Operators

TargetStatus  == {"queued", "publishing", "action_required", "failed",
                  "published", "cancelled"}
AttemptStatus == {"started", "failed", "published"}
OpStatus      == {"creating", "processing", "ready", "finalizing",
                  "published", "failed", "uncertain"}

\* container is the provider's handle for the unfinished work (a media
\* container, an upload session), post the external identifier of its result;
\* both are named by the run that obtained them.
NoOp      == [status |-> "none", container |-> None, post |-> None, attempt |-> 0]
Operation == [status : OpStatus, container : Runs \cup {None},
              post : Runs \cup {None}, attempt : Nat]

OperatorPc == {"idle", "read", "confirm", "done"}

\* A run's copy of the operation in another status.
WithStatus(r, status) == [loc[r] EXCEPT !.status = status]

TargetTypeOK ==
  /\ target \in TargetStatus
  /\ attempts \in Seq(AttemptStatus)
  /\ proofs \subseteq Runs \cup {None}
  /\ current \subseteq Actors
  /\ op \in Operation \cup {NoOp}
  /\ posts \subseteq Runs
  /\ inflight \subseteq Runs
  /\ att \in [Runs -> Nat]
  /\ loc \in [Actors -> Operation \cup {NoOp}]

TargetInit ==
  /\ target = "queued"
  /\ attempts = <<>>
  /\ proofs = {}
  /\ current = {}
  /\ op = NoOp
  /\ posts = {}
  /\ inflight = {}
  /\ pc = [a \in Actors |-> "idle"]
  /\ att = [r \in Runs |-> 0]
  /\ loc = [a \in Actors |-> NoOp]

-----------------------------------------------------------------------------
Goto(a, label) == pc' = [pc EXCEPT ![a] = label]

Fetch(a) == current' = current \cup {a}

\* A commit whose result the actor keeps working on.
Commit(a) == a \in current /\ current' = {a}

\* A commit whose result the actor does not read back into its copy.
CommitLast(a) == a \in current /\ current' = {}

Open(status) == {i \in DOMAIN attempts : attempts[i] = status}
Last(i, S)   == i \in S /\ \A j \in S : j <= i

\* Attempts that a new delivery of the job resumes instead of starting one.
Resumable == {i \in DOMAIN attempts : attempts[i] \in {"started", "published"}}

-----------------------------------------------------------------------------
(* The handler up to the provider protocol.                                *)

\* Nothing left to publish: the target is settled or its proof is recorded.
Skip(r) ==
  /\ pc[r] = "idle"
  /\ target \in {"cancelled", "published"} \/ proofs # {}
  /\ Goto(r, "done")
  /\ UNCHANGED <<itemVars, op, providerVars, att, loc>>

Begin(r) ==
  /\ pc[r] = "idle"
  /\ target \notin {"cancelled", "published"}
  /\ proofs = {}
  /\ Fetch(r)
  /\ IF Resumable = {}
       THEN Goto(r, "start") /\ UNCHANGED att
       ELSE /\ Goto(r, "mark")
            /\ \E i \in Resumable : Last(i, Resumable) /\ att' = [att EXCEPT ![r] = i]
  /\ UNCHANGED <<target, attempts, proofs, op, providerVars, loc>>

StartPublishAttempt(r) ==
  /\ pc[r] = "start"
  /\ Commit(r)
  /\ attempts' = Append(attempts, "started")
  /\ att' = [att EXCEPT ![r] = Len(attempts) + 1]
  /\ Goto(r, "mark")
  /\ UNCHANGED <<target, proofs, op, providerVars, loc>>

MarkPublishing(r) ==
  /\ pc[r] = "mark"
  /\ Commit(r)
  /\ target' = "publishing"
  /\ Goto(r, "prepare")
  /\ UNCHANGED <<attempts, proofs, op, providerVars, att, loc>>

\* The account, media and connector checks pass.
Prepare(r) ==
  /\ pc[r] = "prepare"
  /\ Goto(r, "provider")
  /\ UNCHANGED <<itemVars, op, providerVars, att, loc>>

-----------------------------------------------------------------------------
(* The handler after the provider protocol.                                *)

\* Mutant: the proof is left to a later commit.
CompleteWithoutProof(r) ==
  /\ pc[r] = "complete"
  /\ CommitLast(r)
  /\ attempts[att[r]] # "failed"
  /\ loc[r].post \notin proofs
  /\ target' = "published"
  /\ attempts' = [attempts EXCEPT ![att[r]] = "published"]
  /\ Goto(r, "after")
  /\ UNCHANGED <<proofs, op, providerVars, att, loc>>

CompleteAutomaticPublication(r) ==
  /\ pc[r] = "complete"
  /\ CommitLast(r)
  /\ attempts[att[r]] # "failed"
  /\ loc[r].post \notin proofs
  /\ target' = "published"
  /\ proofs' = proofs \cup {loc[r].post}
  /\ attempts' = [attempts EXCEPT ![att[r]] = "published"]
  /\ Goto(r, "after")
  /\ UNCHANGED <<op, providerVars, att, loc>>

\* The collaborator poll and the analytics job are queued.
Finish(r) ==
  /\ pc[r] = "after"
  /\ Goto(r, "done")
  /\ UNCHANGED <<itemVars, op, providerVars, att, loc>>

NeedsReview(r) ==
  /\ pc[r] = "review"
  /\ CommitLast(r)
  /\ target' = "action_required"
  /\ Goto(r, "done")
  /\ UNCHANGED <<attempts, proofs, op, providerVars, att, loc>>

\* An error inside the try block, whatever raised it: a refused account or
\* medium, a connector, the database or the queue.
Trouble(r, tryBlock) ==
  /\ pc[r] \in tryBlock
  /\ Goto(r, "fail")
  /\ UNCHANGED <<itemVars, op, providerVars, att, loc>>

\* Mutant: the catch block reads the item again before it fails the attempt.
FinishAttemptFailedAfresh(r) ==
  /\ pc[r] = "fail"
  /\ current' = {r}
  /\ attempts' = [attempts EXCEPT ![att[r]] = "failed"]
  /\ Goto(r, "markFailed")
  /\ UNCHANGED <<target, proofs, op, providerVars, att, loc>>

\* The attempt in a current copy is always a started one: it becomes published
\* only together with the target.
FinishAttemptFailed(r) ==
  /\ pc[r] = "fail"
  /\ Commit(r)
  /\ attempts[att[r]] = "started"
  /\ attempts' = [attempts EXCEPT ![att[r]] = "failed"]
  /\ Goto(r, "markFailed")
  /\ UNCHANGED <<target, proofs, op, providerVars, att, loc>>

MarkFailed(r) ==
  /\ pc[r] = "markFailed"
  /\ CommitLast(r)
  /\ target' = "failed"
  /\ Goto(r, "done")
  /\ UNCHANGED <<attempts, proofs, op, providerVars, att, loc>>

\* A refused commit in the try block lands in the catch block; anywhere else
\* it ends the run and the queue delivers the job again.
Conflict(r) ==
  /\ r \notin current
  /\ \/ pc[r] \in {"complete", "review"} /\ Goto(r, "fail")
     \/ /\ pc[r] \in {"start", "mark", "fail", "markFailed", "lostMark"}
        /\ Goto(r, "done")
  /\ UNCHANGED <<itemVars, op, providerVars, att, loc>>

\* The worker process stops while the run is under way.
Crash(r) ==
  /\ pc[r] \notin {"idle", "done"}
  /\ Goto(r, "done")
  /\ UNCHANGED <<itemVars, op, providerVars, att, loc>>

-----------------------------------------------------------------------------
(* The provider.                                                           *)

\* A request that reached the provider creates a live post, at any time and
\* whether or not its sender still waits for the answer.
ProviderPublish(r) ==
  /\ r \in inflight
  /\ inflight' = inflight \ {r}
  /\ posts' = posts \cup {r}
  /\ UNCHANGED <<itemVars, op, pc, att, loc>>

-----------------------------------------------------------------------------
(* The API.                                                                *)

\* Mutant: a target under way can be cancelled too.
CancelTargetUnderWay ==
  /\ target \in {"queued", "publishing"}
  /\ target' = "cancelled"
  /\ current' = {}
  /\ UNCHANGED <<attempts, proofs, op, providerVars, pc, att, loc>>

CancelTarget ==
  /\ target = "queued"
  /\ target' = "cancelled"
  /\ current' = {}
  /\ UNCHANGED <<attempts, proofs, op, providerVars, pc, att, loc>>

\* Any other commit of the item: a comment, a draft, an approval, another
\* target.  It leaves this target alone and outdates every copy.
EditItem ==
  /\ current' = {}
  /\ UNCHANGED <<target, attempts, proofs, op, providerVars, pc, att, loc>>

ConfirmGetItem(o) ==
  /\ pc[o] = "idle"
  /\ target = "action_required"
  /\ Fetch(o)
  /\ Goto(o, "read")
  /\ UNCHANGED <<target, attempts, proofs, op, providerVars, att, loc>>

ConfirmGetOperation(o) ==
  /\ pc[o] = "read"
  /\ op.status = "uncertain"
  /\ loc' = [loc EXCEPT ![o] = op]
  /\ Goto(o, "confirm")
  /\ UNCHANGED <<itemVars, op, providerVars, att>>

\* The operator names a post that is live; an identifier saved with the
\* operation has to agree.  Item and operation change in one transaction.
ConfirmProviderPublication(o) ==
  /\ pc[o] = "confirm"
  /\ CommitLast(o)
  /\ \E p \in posts \ proofs :
       /\ loc[o].post \in {None, p}
       /\ op' = [loc[o] EXCEPT !.status = "published", !.post = p]
       /\ proofs' = proofs \cup {p}
  /\ target' = "published"
  /\ IF Open("started") = {}
       THEN attempts' = Append(attempts, "published")
       ELSE \E i \in Open("started") : /\ Last(i, Open("started"))
                                       /\ attempts' = [attempts EXCEPT ![i] = "published"]
  /\ Goto(o, "done")
  /\ UNCHANGED <<providerVars, att, loc>>

-----------------------------------------------------------------------------
(* The part of the next-state relation every platform shares.              *)

HandlerStep(r, tryBlock) ==
  \/ Skip(r)
  \/ Begin(r)
  \/ StartPublishAttempt(r)
  \/ MarkPublishing(r)
  \/ Prepare(r)
  \/ CompleteAutomaticPublication(r)
  \/ Finish(r)
  \/ NeedsReview(r)
  \/ Trouble(r, tryBlock)
  \/ FinishAttemptFailed(r)
  \/ MarkFailed(r)
  \/ Conflict(r)
  \/ Crash(r)

ApiStep ==
  \/ CancelTarget
  \/ EditItem
  \/ \E o \in Operators : \/ ConfirmGetItem(o)
                          \/ ConfirmGetOperation(o)
                          \/ ConfirmProviderPublication(o)

\* providerPublishOperationRepository.save, for a connector without a claim: an
\* unconditional upsert.
Save(r, value, label) ==
  /\ op' = value
  /\ loc' = [loc EXCEPT ![r] = value]
  /\ Goto(r, label)
  /\ UNCHANGED <<itemVars, providerVars, att>>

\* The queue hands the job to one run at a time, except when a second job for
\* the target exists (startup recovery) or a run outlives its queue lock.
MayRun(r) == Overlapping \/ \A q \in Runs \ {r} : pc[q] \in {"idle", "done"}

-----------------------------------------------------------------------------
(* Properties of every platform.                                           *)

\* However often the job is delivered and wherever runs stop, at most one post
\* is live: "finalizing" is saved before the request and never leads back to it.
AtMostOnePost == \A p, q \in posts : p = q

\* A proof is recorded only for a post that is live, by the handler or by an
\* operator: no path through recovery records a guess.
ProofIsLive == proofs \subseteq posts

\* A target that waits for a human can be resolved by one: the confirmation
\* endpoint accepts only an operation saved as "uncertain".
ReviewIsResolvable == target = "action_required" => op.status = "uncertain"
=============================================================================
