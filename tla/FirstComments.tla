---------------------------- MODULE FirstComments ----------------------------
(***************************************************************************)
(* The first comment below a published post: written and approved by       *)
(* people, bound to the proof of the post, created once by an execution    *)
(* that holds a lease of the database's clock, and read back for its proof.*)
(***************************************************************************)
EXTENDS Naturals, FiniteSets

CONSTANTS FirstIntents,     \* first-comment intents
          FirstRuns,        \* executions of the "execute" job
          NoFirstRun,
          MaxGrants,        \* bound: permissions to write one comment
          MaxFirstVersion   \* bound: versions in which a person asks for a check

VARIABLES intents1,         \* first_comment_intents
          runs1,            \* executions under way
          target1,          \* the publish target of an intent
          jobs1,            \* jobs that wait in the queue: intent and version
          known1,           \* job ids the queue remembers
          live1,            \* comments on the platform
          grants1           \* history: permissions a person gave to write

firstCommentVars == <<intents1, runs1, target1, jobs1, known1, live1, grants1>>

FirstCommentStatus == {"draft", "pending_approval", "approved", "queued", "processing", "succeeded",
                       "failed", "uncertain", "cancelled"}

\* checkpoint: the provider's comment id is stored; proved: a proof is.
FirstCommentIntent ==
  [status : FirstCommentStatus \cup {"none"}, mode : {"write", "reconcile"}, version : Nat, bound : BOOLEAN,
   checkpoint : BOOLEAN, proved : {"no", "provider", "operator"},
   owner : FirstRuns \cup {NoFirstRun}, leased : BOOLEAN]

NoFirstComment == [status |-> "none", mode |-> "write", version |-> 0, bound |-> FALSE, checkpoint |-> FALSE,
                   proved |-> "no", owner |-> NoFirstRun, leased |-> FALSE]

\* Errors after which it is known that nothing was written.
Definite == {"permission_missing", "unsupported", "rate_limited"}

FirstCommentAttempt ==
  [pc : {"idle", "read", "writing", "created", "inspecting", "matched", "failed", "done"},
   intent : FirstIntents, version : Nat, error : {"none", "uncertain"} \cup Definite]

FirstCommentTypeOK ==
  /\ intents1 \in [FirstIntents -> FirstCommentIntent]
  /\ runs1 \in [FirstRuns -> FirstCommentAttempt]
  /\ target1 \in [FirstIntents -> {"scheduled", "published", "failed"}]
  /\ jobs1 \subseteq FirstIntents \X Nat /\ known1 \subseteq FirstIntents \X Nat
  /\ live1 \in [FirstIntents -> Nat] /\ grants1 \in [FirstIntents -> 0..MaxGrants]

FirstCommentInit ==
  /\ intents1 = [i \in FirstIntents |-> NoFirstComment]
  /\ runs1 = [w \in FirstRuns |-> [pc |-> "idle", intent |-> CHOOSE i \in FirstIntents : TRUE,
                                   version |-> 0, error |-> "none"]]
  /\ target1 = [i \in FirstIntents |-> "scheduled"]
  /\ jobs1 = {} /\ known1 = {}
  /\ live1 = [i \in FirstIntents |-> 0] /\ grants1 = [i \in FirstIntents |-> 0]

-----------------------------------------------------------------------------
(* Domain rules and the store.                                             *)

allowed ==
  [none             |-> {},
   draft            |-> {"pending_approval", "cancelled"},
   pending_approval |-> {"approved", "cancelled"},
   approved         |-> {"queued", "cancelled"},
   queued           |-> {"processing", "cancelled"},
   processing       |-> {"succeeded", "failed", "uncertain"},
   uncertain        |-> {"queued", "succeeded", "cancelled"},
   failed           |-> {}, succeeded |-> {}, cancelled |-> {}]

\* Every write of a row counts its version up.
NextVersion(version) == version + 1

transitionFirstComment(intent, to) ==
  [intent EXCEPT !.status = to, !.version = NextVersion(@), !.owner = NoFirstRun, !.leased = FALSE]

createFirstCommentIntent == [NoFirstComment EXCEPT !.status = "draft", !.version = 1]

reviseFirstCommentIntent(intent) == [intent EXCEPT !.version = NextVersion(@)]

submitFirstCommentIntent(intent) == [intent EXCEPT !.status = "pending_approval", !.version = NextVersion(@)]

approveFirstCommentIntent(intent) == [intent EXCEPT !.status = "approved", !.version = NextVersion(@)]

bindFirstCommentToProof(intent) ==
  [intent EXCEPT !.status = "queued", !.version = NextVersion(@), !.bound = TRUE]

createFirstCommentProof(intent, grade) == [intent EXCEPT !.proved = grade]

\* The row still has the version and a status the caller saw.
compareAndSet(i, next, version, statuses) ==
  /\ intents1[i].version = version /\ intents1[i].status \in statuses
  /\ intents1' = [intents1 EXCEPT ![i] = next]

holdsClaim(i, w) == intents1[i].status = "processing" /\ intents1[i].owner = w /\ intents1[i].leased

claimForExecution(i, w) ==
  /\ intents1[i].status = "queued" /\ intents1[i].bound
  /\ intents1' = [intents1 EXCEPT ![i] = [intents1[i] EXCEPT !.status = "processing", !.version = NextVersion(@),
                                                            !.owner = w, !.leased = TRUE]]

checkpointProviderEvidence(i) ==
  intents1' = [intents1 EXCEPT ![i] = [intents1[i] EXCEPT !.checkpoint = TRUE, !.version = NextVersion(@)]]

finishExecution(i, w, to) ==
  intents1' = IF holdsClaim(i, w) THEN [intents1 EXCEPT ![i] = transitionFirstComment(@, to)] ELSE intents1

resolveWithProof(i, grade) ==
  intents1' = [intents1 EXCEPT ![i] = createFirstCommentProof(transitionFirstComment(@, "succeeded"), grade)]

recoverExpiredProcessing(i) ==
  /\ intents1[i].status = "processing" /\ ~intents1[i].leased
  /\ intents1' = [intents1 EXCEPT ![i] = transitionFirstComment(@, "uncertain")]
  /\ UNCHANGED <<runs1, target1, jobs1, known1, live1, grants1>>

listForRecovery == {i \in FirstIntents : intents1[i].status \in {"approved", "queued"}}

FirstLeaseExpires(i) ==
  /\ intents1[i].leased
  /\ intents1' = [intents1 EXCEPT ![i].leased = FALSE]
  /\ UNCHANGED <<runs1, target1, jobs1, known1, live1, grants1>>

-----------------------------------------------------------------------------
(* The queue: a job whose id it remembers is not added.                    *)

enqueue(i, version) ==
  IF <<i, version>> \in known1 THEN UNCHANGED <<jobs1, known1>>
  ELSE jobs1' = jobs1 \cup {<<i, version>>} /\ known1' = known1 \cup {<<i, version>>}

QueueForgets(i) ==
  /\ \E v \in {x[2] : x \in {k \in known1 \ jobs1 : k[1] = i}} : known1' = known1 \ {<<i, v>>}
  /\ UNCHANGED <<intents1, runs1, target1, jobs1, live1, grants1>>

recover(i) ==
  /\ i \in listForRecovery
  /\ enqueue(i, intents1[i].version)
  /\ UNCHANGED <<intents1, runs1, target1, live1, grants1>>

-----------------------------------------------------------------------------
(* People.  Every request names the version they saw.                      *)

create(i) ==
  /\ intents1[i].status = "none" /\ target1[i] # "failed"
  /\ intents1' = [intents1 EXCEPT ![i] = createFirstCommentIntent]
  /\ UNCHANGED <<runs1, target1, jobs1, known1, live1, grants1>>

revise(i) ==
  /\ intents1[i].version < 2
  /\ compareAndSet(i, reviseFirstCommentIntent(intents1[i]), intents1[i].version, {"draft"})
  /\ UNCHANGED <<runs1, target1, jobs1, known1, live1, grants1>>

submit(i) ==
  /\ compareAndSet(i, submitFirstCommentIntent(intents1[i]), intents1[i].version, {"draft"})
  /\ UNCHANGED <<runs1, target1, jobs1, known1, live1, grants1>>

\* A comment on a post that is published is bound to its proof and queued.
approveFirst(i) ==
  LET approved == approveFirstCommentIntent(intents1[i])
      next == IF target1[i] = "published" THEN bindFirstCommentToProof(approved) ELSE approved
  IN  /\ compareAndSet(i, next, intents1[i].version, {"pending_approval"})
      /\ grants1' = [grants1 EXCEPT ![i] = @ + 1]
      /\ IF next.status = "queued" THEN enqueue(i, next.version) ELSE UNCHANGED <<jobs1, known1>>
      /\ UNCHANGED <<runs1, target1, live1>>

cancelFirst(i) ==
  /\ intents1[i].status \notin {"processing", "succeeded", "uncertain"}
  /\ "cancelled" \in allowed[intents1[i].status]
  /\ compareAndSet(i, transitionFirstComment(intents1[i], "cancelled"), intents1[i].version, {intents1[i].status})
  /\ UNCHANGED <<runs1, target1, jobs1, known1, live1, grants1>>

\* A person looks: read the post again, or write once more.
reconcileFirst(i) ==
  LET queued == transitionFirstComment(intents1[i], "queued") IN
  /\ intents1[i].status = "uncertain" /\ intents1[i].version < MaxFirstVersion
  /\ \/ /\ compareAndSet(i, [queued EXCEPT !.mode = "reconcile"], intents1[i].version, {"uncertain"})
        /\ UNCHANGED grants1
     \/ /\ grants1[i] < MaxGrants
        /\ compareAndSet(i, [queued EXCEPT !.mode = "write", !.checkpoint = FALSE], intents1[i].version, {"uncertain"})
        /\ grants1' = [grants1 EXCEPT ![i] = @ + 1]
  /\ enqueue(i, queued.version)
  /\ UNCHANGED <<runs1, target1, live1>>

attest(i) ==
  /\ intents1[i].status = "uncertain" /\ intents1[i].bound
  /\ resolveWithProof(i, "operator")
  /\ UNCHANGED <<runs1, target1, jobs1, known1, live1, grants1>>

TargetSettles(i) ==
  /\ target1[i] = "scheduled"
  /\ target1' \in {[target1 EXCEPT ![i] = "published"], [target1 EXCEPT ![i] = "failed"]}
  /\ UNCHANGED <<intents1, runs1, jobs1, known1, live1, grants1>>

-----------------------------------------------------------------------------
(* An execution.                                                           *)

RunTo(w, pc) == runs1' = [runs1 EXCEPT ![w].pc = pc]
IntentOf(w) == runs1[w].intent

\* An approved comment waits for the proof of its post: the job is done.
startFirst(w, x) ==
  LET i == x[1] IN
  /\ runs1[w].pc \in {"idle", "done"} /\ x \in jobs1
  /\ jobs1' = jobs1 \ {x}
  /\ CASE intents1[i].status = "approved" /\ target1[i] = "published" ->
            /\ compareAndSet(i, bindFirstCommentToProof(intents1[i]), intents1[i].version, {"approved"})
            /\ runs1' = [runs1 EXCEPT ![w] = [@ EXCEPT !.pc = "read", !.intent = i]]
       [] intents1[i].status = "approved" /\ target1[i] = "failed" ->
            /\ intents1' = [intents1 EXCEPT ![i].status = "failed", ![i].version = NextVersion(@)]
            /\ RunTo(w, "done")
       [] intents1[i].status = "queued" ->
            runs1' = [runs1 EXCEPT ![w] = [@ EXCEPT !.pc = "read", !.intent = i]] /\ UNCHANGED intents1
       [] OTHER -> RunTo(w, "done") /\ UNCHANGED intents1
  /\ UNCHANGED <<target1, known1, live1, grants1>>

\* Mutant: whatever is claimed is written.
pcAfterClaimWrites(mode) == "writing"

pcAfterClaim(mode) == IF mode = "write" THEN "writing" ELSE "inspecting"

claimFirst(w) ==
  /\ runs1[w].pc = "read"
  /\ \/ claimForExecution(IntentOf(w), w) /\ RunTo(w, pcAfterClaim(intents1[IntentOf(w)].mode))
     \/ intents1[IntentOf(w)].status # "queued" /\ RunTo(w, "done") /\ UNCHANGED intents1
  /\ UNCHANGED <<target1, jobs1, known1, live1, grants1>>

CommentGoesLive(w) == live1' = [live1 EXCEPT ![IntentOf(w)] = @ + 1]

FailTo(w, error) == runs1' = [runs1 EXCEPT ![w].pc = "failed", ![w].error = error]

\* The permission is checked, then the comment is created; without an answer
\* or an id nothing is known.
createFacebookComment(w) ==
  \/ CommentGoesLive(w) /\ RunTo(w, "created")
  \/ CommentGoesLive(w) /\ FailTo(w, "uncertain")
  \/ \E error \in Definite \cup {"uncertain"} :
       FailTo(w, error) /\ UNCHANGED live1

createInstagramComment(w) ==
  \/ CommentGoesLive(w) /\ RunTo(w, "created")
  \/ CommentGoesLive(w) /\ FailTo(w, "uncertain")
  \/ \E error \in Definite \cup {"uncertain"} :
       FailTo(w, error) /\ UNCHANGED live1

writeFirst(w) ==
  /\ runs1[w].pc = "writing"
  /\ createFacebookComment(w) \/ createInstagramComment(w)
  /\ UNCHANGED <<intents1, target1, jobs1, known1, grants1>>

checkpointFirst(w) ==
  /\ runs1[w].pc = "created"
  /\ IF holdsClaim(IntentOf(w), w) THEN checkpointProviderEvidence(IntentOf(w)) /\ RunTo(w, "inspecting")
     ELSE FailTo(w, "uncertain") /\ UNCHANGED intents1
  /\ UNCHANGED <<target1, jobs1, known1, live1, grants1>>

\* Exactly one comment of this account has the text; the list may lag.
Matches(i) == live1[i] = 1

inspectFirst(w) ==
  /\ runs1[w].pc = "inspecting"
  /\ \/ Matches(IntentOf(w)) /\ RunTo(w, "matched")
     \/ FailTo(w, "uncertain")
  /\ UNCHANGED <<intents1, target1, jobs1, known1, live1, grants1>>

resolveFirst(w) ==
  /\ runs1[w].pc = "matched"
  /\ IF holdsClaim(IntentOf(w), w) THEN resolveWithProof(IntentOf(w), "provider") ELSE UNCHANGED intents1
  /\ RunTo(w, "done")
  /\ UNCHANGED <<target1, jobs1, known1, live1, grants1>>

\* Mutant: a lost answer is a failure.
failureStatusOfUncertain(error) == "failed"

failureStatus(error) == IF error \in Definite THEN "failed" ELSE "uncertain"

failFirst(w) ==
  /\ runs1[w].pc = "failed"
  /\ finishExecution(IntentOf(w), w, failureStatus(runs1[w].error))
  /\ RunTo(w, "done")
  /\ UNCHANGED <<target1, jobs1, known1, live1, grants1>>

RunStops1(w) ==
  /\ runs1[w].pc \notin {"idle", "done"} /\ RunTo(w, "done")
  /\ UNCHANGED <<intents1, target1, jobs1, known1, live1, grants1>>

-----------------------------------------------------------------------------
FirstCommentPeople(i) ==
  \/ create(i) \/ revise(i) \/ submit(i) \/ approveFirst(i) \/ cancelFirst(i) \/ reconcileFirst(i) \/ attest(i)

FirstCommentRun(w) ==
  \/ \E x \in jobs1 : startFirst(w, x)
  \/ claimFirst(w) \/ writeFirst(w) \/ checkpointFirst(w) \/ inspectFirst(w) \/ resolveFirst(w) \/ failFirst(w)

FirstCommentNext ==
  \/ \E i \in FirstIntents : \/ FirstCommentPeople(i) \/ TargetSettles(i) \/ recover(i) \/ QueueForgets(i)
                             \/ recoverExpiredProcessing(i) \/ FirstLeaseExpires(i)
  \/ \E w \in FirstRuns : FirstCommentRun(w) \/ RunStops1(w)

FirstCommentSpec == FirstCommentInit /\ [][FirstCommentNext]_firstCommentVars

\* The worker's timer fires every minute and its jobs run; nothing makes the
\* queue forget a job id, which takes 250 other jobs.
FirstCommentFairSpec ==
  /\ FirstCommentSpec
  /\ \A i \in FirstIntents : WF_firstCommentVars(recover(i)) /\ WF_firstCommentVars(recoverExpiredProcessing(i))
                             /\ WF_firstCommentVars(FirstLeaseExpires(i))
  /\ \A w \in FirstRuns : WF_firstCommentVars(FirstCommentRun(w))

-----------------------------------------------------------------------------
\* A comment is on the platform at most as often as a person allowed it to be
\* written, whatever executions stop, run late or are repeated.
CommentedAsGranted == \A i \in FirstIntents : live1[i] <= grants1[i]

\* A proof of the provider is about a comment that is there, and a comment
\* that is there never belongs to an intent that is called failed.
ProofMatchesPlatform ==
  \A i \in FirstIntents : /\ intents1[i].proved = "provider" => live1[i] > 0
                          /\ intents1[i].status = "failed" => live1[i] < grants1[i] \/ live1[i] = 0

\* The permissions that are not used up: one of the row that waits to be written, one of every execution that may
\* still write or knows that it did not.
MayWrite(w, i) == /\ runs1[w].intent = i
                  /\ \/ runs1[w].pc = "writing"
                     \/ runs1[w].pc = "failed" /\ runs1[w].error \in Definite
Writers(i) == {w \in FirstRuns : MayWrite(w, i)}
Waiting(i) == IF intents1[i].status \in {"approved", "queued"} /\ intents1[i].mode = "write" THEN 1 ELSE 0

\* The inductive invariant behind these properties: comments and unused permissions never exceed what was granted,
\* and an intent that failed has one left that was not used.
PermissionsAreCounted(i) ==
  /\ live1[i] + Cardinality(Writers(i)) + Waiting(i) <= grants1[i]
  /\ intents1[i].status = "failed" => live1[i] + Cardinality(Writers(i)) < grants1[i]
  /\ intents1[i].status \in {"none", "draft", "pending_approval"} => grants1[i] = 0
  /\ intents1[i].status \in {"none", "draft", "pending_approval", "approved"} => intents1[i].mode = "write"
  /\ intents1[i].proved = "provider" => live1[i] > 0

FirstCommentInv ==
  /\ FirstCommentTypeOK
  /\ \A i \in FirstIntents : PermissionsAreCounted(i)
  /\ \A w \in FirstRuns : runs1[w].pc = "matched" => live1[runs1[w].intent] > 0

\* An approved comment waits for its post only until the post is published.
ApprovedIsQueued ==
  \A i \in FirstIntents : intents1[i].status = "approved" /\ target1[i] = "published"
                            ~> intents1[i].status # "approved"
=============================================================================
