-------------------------- MODULE RemoteCorrection --------------------------
(***************************************************************************)
(* Corrections of posts that are already live: requested, approved by a    *)
(* second person against a fresh read of the post, executed once under a   *)
(* claim, read back, and closed with a proof that is chained to the proofs *)
(* before it.  A stopped or unanswered execution is only ever read back.   *)
(***************************************************************************)
EXTENDS Naturals, Sequences

CONSTANTS PostPlatform,     \* "facebook", "instagram" or "youtube"
          Corrections,      \* correction operations, all of one published post
          Requesters,       \* people who may ask for a correction
          Approvers,        \* active owners and managers
          CorrectionRuns,   \* executions of a correction job, each with its own claim id
          NoCorrectionRun,
          ManualCorrections,\* the operations that ask for a removal by hand
          Mutations,        \* what the other operations ask for
          ProofTimes        \* bound: the values of a proof's created_at and id, in their order

VARIABLES corrections,      \* remote_correction_operations
          proofs2,          \* removal_proofs of the post, in the order they were stored
          runs2,            \* executions under way
          outbox2,          \* outbox rows "remote-correction.requested" by key
          jobs2,            \* jobs that wait in the queue
          known2,           \* job ids the queue remembers
          remote2,          \* the state of the post at the provider
          writes2           \* history: mutations the provider received, per operation

correctionVars == <<corrections, proofs2, runs2, outbox2, jobs2, known2, remote2, writes2>>

remoteCorrectionStatuses ==
  {"pending_approval", "approved", "pre_write", "finalizing", "provider_confirmed", "reconciled",
   "manual_action_required", "operator_confirmed", "uncertain", "rejected", "cancelled"}

\* The visibility of restore_visibility is part of its name.
RemoteCorrectionMutation ==
  {"make_private", "restore_public", "restore_unlisted", "delete_remote", "manual_remove"}

\* What a post can look like at its provider.
RemoteContentState ==
  IF PostPlatform = "youtube" THEN {"public", "unlisted", "private", "not_found"}
  ELSE IF PostPlatform = "facebook" THEN {"live", "hidden", "not_found"} ELSE {"live", "not_found"}

RemoteCorrectionOperation ==
  [status : remoteCorrectionStatuses \cup {"none"}, mutation : RemoteCorrectionMutation,
   requestedBy : Requesters, approvedBy : SUBSET Approvers,
   claim : CorrectionRuns \cup {NoCorrectionRun}, leased : BOOLEAN]

\* previous: the digest of the proof before, here its index; 0 is the publish proof.
\* at: the place of the proof in the order by created_at and id, which the caller's clock decides.
RemovalProof == [operation : Corrections, grade : {"provider_confirmed", "provider_reconciled", "operator_attested"},
                 previous : Nat, at : ProofTimes]

RemoteCorrectionAttempt ==
  [pc : {"idle", "read", "claimed", "finalizing", "sent", "resolving"},
   job : Corrections \X {"execute", "reconcile"}, kind : {"execute", "reconcile"}, from : remoteCorrectionStatuses \cup {"none"},
   outcome : {"none", "provider_confirmed", "reconciled", "uncertain", "manual_action_required", "rejected"}]

OutboxKeys == Corrections \X {"execute", "reconcile", "recovery"}

RemoteCorrectionTypeOK ==
  /\ corrections \in [Corrections -> RemoteCorrectionOperation]
  /\ proofs2 \in Seq(RemovalProof)
  /\ runs2 \in [CorrectionRuns -> RemoteCorrectionAttempt]
  /\ outbox2 \in [OutboxKeys -> [status : {"none", "pending", "closed"}, mode : {"execute", "reconcile"}]]
  /\ jobs2 \subseteq Corrections \X {"execute", "reconcile"}
  /\ known2 \subseteq Corrections \X {"execute", "reconcile"}
  /\ remote2 \in RemoteContentState
  /\ writes2 \in [Corrections -> Nat]

IdleRun == [pc |-> "idle", job |-> <<CHOOSE o \in Corrections : TRUE, "execute">>, kind |-> "execute",
            from |-> "none", outcome |-> "none"]

RemoteCorrectionInit ==
  /\ corrections = [o \in Corrections |->
       [status |-> "none", mutation |-> "delete_remote", requestedBy |-> CHOOSE p \in Requesters : TRUE,
        approvedBy |-> {}, claim |-> NoCorrectionRun, leased |-> FALSE]]
  /\ proofs2 = <<>>
  /\ runs2 = [r \in CorrectionRuns |-> IdleRun]
  /\ outbox2 = [k \in OutboxKeys |-> [status |-> "none", mode |-> "execute"]]
  /\ jobs2 = {} /\ known2 = {}
  /\ remote2 = IF PostPlatform = "youtube" THEN "public" ELSE "live"
  /\ writes2 = [o \in Corrections |-> 0]

-----------------------------------------------------------------------------
(* Domain rules.                                                           *)

transitions ==
  [pre_write              |-> {"approved"},
   finalizing             |-> {"pre_write"},
   provider_confirmed     |-> {"finalizing"},
   reconciled             |-> {"finalizing", "uncertain"},
   manual_action_required |-> {"approved", "pre_write", "finalizing", "uncertain"},
   operator_confirmed     |-> {"manual_action_required"},
   uncertain              |-> {"finalizing"},
   rejected               |-> {"approved", "pre_write", "finalizing", "uncertain"},
   cancelled              |-> {"approved", "pre_write", "uncertain", "manual_action_required"}]

createRemoteCorrectionRequest(o, mutation, person) ==
  [corrections[o] EXCEPT !.status = "pending_approval", !.mutation = mutation, !.requestedBy = person]

approveRemoteCorrectionRequest(operation, person) ==
  [operation EXCEPT !.status = "approved", !.approvedBy = {person}]

advanceRemoteCorrectionOperation(operation, next) == [operation EXCEPT !.status = next]

resolveRemoteCorrectionEvidence(grade) ==
  CASE grade = "provider_confirmed"  -> "provider_confirmed"
    [] grade = "provider_reconciled" -> "reconciled"
    [] grade = "operator_attested"   -> "operator_confirmed"

createRemovalProof(o, grade, previous, at) == [operation |-> o, grade |-> grade, previous |-> previous, at |-> at]

\* From the publish proof, following "previous" reaches every stored proof once.
verifyRemovalProofChain(chain) ==
  /\ \A i, j \in 1..Len(chain) : chain[i].previous = chain[j].previous => i = j
  /\ \A i \in 1..Len(chain) : chain[i].previous < i

-----------------------------------------------------------------------------
(* The connectors.                                                         *)

\* What the post looks like once the mutation was applied.
Corrected ==
  [make_private |-> "private", restore_public |-> "public", restore_unlisted |-> "unlisted",
   delete_remote |-> "not_found", manual_remove |-> "not_found"]

\* The mutations a connector sends; every other one is unsupported.
facebookCapabilities == {"delete_remote"}
instagramCapabilities == {"delete_remote"}
youtubeCapabilities == {"delete_remote", "make_private", "restore_public", "restore_unlisted"}

Sends(mutation) ==
  mutation \in (IF PostPlatform = "facebook" THEN facebookCapabilities
                ELSE IF PostPlatform = "instagram" THEN instagramCapabilities ELSE youtubeCapabilities)

\* Before it sends, a connector refuses what it does not support and a credential that is missing or lacks the
\* right.  A Page without that right, or without a valid probe of it, is left to a person.
correctionCredential(mutation) ==
  IF PostPlatform = "facebook" /\ Sends(mutation) THEN {"rejected", "manual_action_required"} ELSE {"rejected"}

\* A manual removal is never proved by a read.
correctionResult(operation, snapshot) ==
  operation.mutation # "manual_remove" /\ snapshot = Corrected[operation.mutation]

\* A visibility change finds no object once the post is gone.
Applied(mutation) == IF remote2 = "not_found" THEN "not_found" ELSE Corrected[mutation]

-----------------------------------------------------------------------------
(* The repository.                                                         *)

\* Mutation, approval and hash of an operation never change once it is approved.
RunsOperation(r) == corrections[runs2[r].job[1]]

\* The connector looks at the copy the run was given when the row became "finalizing".
assertCorrectionExecution(r) == runs2[r].pc = "finalizing" /\ RunsOperation(r).approvedBy # {}

RunsCorrection(r, o) == corrections[o].claim = r /\ corrections[o].leased

keepsClaim == {"pre_write", "finalizing", "uncertain"}

compareAndSet(o, expected, next) ==
  /\ expected \in transitions[next]
  /\ corrections' = [corrections EXCEPT ![o] =
       IF next \in keepsClaim
       THEN advanceRemoteCorrectionOperation(@, next)
       ELSE [advanceRemoteCorrectionOperation(@, next) EXCEPT !.claim = NoCorrectionRun, !.leased = FALSE]]

claimStatuses(kind) == IF kind = "execute" THEN {"approved", "pre_write"} ELSE {"finalizing", "uncertain"}

\* The proof that was created last, by its own timestamp; 0 is the publish proof.
headOfChain(head) ==
  IF proofs2 = <<>> THEN head = 0
  ELSE head \in DOMAIN proofs2 /\ \A i \in DOMAIN proofs2 : proofs2[i].at <= proofs2[head].at

\* Mutant: without the constraint on the table.
anyPredecessor(previous) == TRUE

\* No two proofs of a post name the same proof before them; an insert that would is refused with an error.
uniquePredecessor(previous) == \A i \in DOMAIN proofs2 : proofs2[i].previous # previous

\* The head of the chain is read under a lock on the post.
resolveWithProof(o, grade) ==
  /\ \E head \in 0..Len(proofs2), at \in ProofTimes \ {proofs2[i].at : i \in DOMAIN proofs2} :
       /\ headOfChain(head) /\ uniquePredecessor(head)
       /\ proofs2' = Append(proofs2, createRemovalProof(o, grade, head, at))
  /\ corrections' = [corrections EXCEPT ![o].status = resolveRemoteCorrectionEvidence(grade),
                                        ![o].claim = NoCorrectionRun, ![o].leased = FALSE]

ExpireCorrectionClaim(o) ==
  /\ corrections[o].leased
  /\ corrections' = [corrections EXCEPT ![o].leased = FALSE]
  /\ UNCHANGED <<proofs2, runs2, outbox2, jobs2, known2, remote2, writes2>>

\* Adding a message with a key that exists leaves the row as it is.
insertOutbox(o, key, mode) ==
  outbox2' = IF outbox2[<<o, key>>].status = "none"
             THEN [outbox2 EXCEPT ![<<o, key>>] = [status |-> "pending", mode |-> mode]]
             ELSE outbox2

-----------------------------------------------------------------------------
(* The service.                                                            *)

MutationsOf(o) == IF o \in ManualCorrections THEN {"manual_remove"} ELSE Mutations

create(o, mutation, person) ==
  /\ corrections[o].status = "none"
  /\ corrections' = [corrections EXCEPT ![o] = createRemoteCorrectionRequest(o, mutation, person)]
  /\ UNCHANGED <<proofs2, runs2, outbox2, jobs2, known2, remote2, writes2>>

\* Only the sole owner approves what they asked for.
approvalAuthority(o, person) == corrections[o].requestedBy # person \/ Approvers = {person}

approve(o, person) ==
  /\ corrections[o].status = "pending_approval"
  /\ approvalAuthority(o, person)                       \* and the preflight read the post
  /\ LET approved == approveRemoteCorrectionRequest(corrections[o], person) IN
       IF approved.mutation = "manual_remove"
       THEN /\ corrections' = [corrections EXCEPT ![o] =
                 advanceRemoteCorrectionOperation(approved, "manual_action_required")]
            /\ UNCHANGED outbox2
       ELSE /\ corrections' = [corrections EXCEPT ![o] = approved]
            /\ insertOutbox(o, "execute", "execute")
  /\ UNCHANGED <<proofs2, runs2, jobs2, known2, remote2, writes2>>

reconcileRequest(o) ==
  /\ corrections[o].status \in {"uncertain", "finalizing"}
  /\ insertOutbox(o, "reconcile", "reconcile")
  /\ UNCHANGED <<corrections, proofs2, runs2, jobs2, known2, remote2, writes2>>

attest(o) ==
  /\ corrections[o].status = "manual_action_required"
  /\ resolveWithProof(o, "operator_attested")
  /\ UNCHANGED <<runs2, outbox2, jobs2, known2, remote2, writes2>>

\* Somebody changes the post in the provider's own application.
ChangeOutside(state) ==
  /\ remote2 # "not_found" /\ remote2 # state
  /\ remote2' = state
  /\ UNCHANGED <<corrections, proofs2, runs2, outbox2, jobs2, known2, writes2>>

-----------------------------------------------------------------------------
(* The dispatcher, the queue and the periodic recovery.                    *)

\* A job id that the queue still remembers is ignored.
addJob(job) ==
  /\ jobs2' = IF job \in known2 THEN jobs2 ELSE jobs2 \cup {job}
  /\ known2' = known2 \cup {job}

\* A row is closed when it was processed.  One that failed for the last time looks like one whose job was ignored,
\* and a crash before the row is closed adds the job again, as the recovery does.
dispatch(o, key) ==
  /\ outbox2[<<o, key>>].status = "pending"
  /\ addJob(<<o, outbox2[<<o, key>>].mode>>)
  /\ outbox2' = [outbox2 EXCEPT ![<<o, key>>].status = "closed"]
  /\ UNCHANGED <<corrections, proofs2, runs2, remote2, writes2>>

\* The row of an earlier recovery is opened again with the payload it has.
recoverRemoteCorrections(o) ==
  /\ corrections[o].status \in {"approved", "pre_write", "finalizing", "uncertain"}
  /\ outbox2[<<o, "recovery">>].status # "pending"
  /\ outbox2' = [outbox2 EXCEPT ![<<o, "recovery">>] =
       IF @.status = "closed" THEN [@ EXCEPT !.status = "pending"]
       ELSE [status |-> "pending",
             mode |-> IF corrections[o].status \in {"finalizing", "uncertain"} THEN "reconcile" ELSE "execute"]]
  /\ UNCHANGED <<corrections, proofs2, runs2, jobs2, known2, remote2, writes2>>

-----------------------------------------------------------------------------
(* The worker.                                                             *)

StepRun(r, pc, outcome) == runs2' = [runs2 EXCEPT ![r].pc = pc, ![r].outcome = outcome]

EndRun(r) == runs2' = [runs2 EXCEPT ![r] = IdleRun]

takeClaim(r, o) ==
  /\ corrections' = [corrections EXCEPT ![o].claim = r, ![o].leased = TRUE]
  /\ runs2' = [runs2 EXCEPT ![r].pc = "claimed", ![r].from = corrections[o].status]

StartCorrection(r, job) ==
  LET status == corrections[job[1]].status IN
    /\ runs2[r].pc = "idle" /\ job \in jobs2
    /\ jobs2' = jobs2 \ {job}
    /\ runs2' = [runs2 EXCEPT ![r] =
         [pc |-> "read", job |-> job, from |-> status, outcome |-> "none",
          kind |-> IF job[2] = "reconcile" \/ status \in {"finalizing", "uncertain"}
                   THEN "reconcile" ELSE "execute"]]
    /\ UNCHANGED <<corrections, proofs2, outbox2, known2, remote2, writes2>>

\* A refused claim ends the job without an error.
ClaimCorrection(r) ==
  LET o == runs2[r].job[1] IN
    /\ runs2[r].pc = "read"
    /\ IF corrections[o].status \in claimStatuses(runs2[r].kind) /\ ~corrections[o].leased
       THEN takeClaim(r, o)
       ELSE EndRun(r) /\ UNCHANGED corrections
    /\ UNCHANGED <<proofs2, outbox2, jobs2, known2, remote2, writes2>>

\* The worker's clock decides whether the claim before has expired, and may run ahead of the database's.
ClaimEarly(r) ==
  LET o == runs2[r].job[1] IN
    /\ runs2[r].pc = "read"
    /\ corrections[o].status \in claimStatuses(runs2[r].kind) /\ corrections[o].leased
    /\ takeClaim(r, o)
    /\ UNCHANGED <<proofs2, outbox2, jobs2, known2, remote2, writes2>>

EnterPreWrite(r) ==
  LET o == runs2[r].job[1] IN
    /\ runs2[r].pc = "claimed" /\ runs2[r].kind = "execute" /\ runs2[r].from = "approved"
    /\ IF corrections[o].status = "approved" /\ RunsCorrection(r, o)
       THEN compareAndSet(o, "approved", "pre_write") /\ runs2' = [runs2 EXCEPT ![r].from = "pre_write"]
       ELSE EndRun(r) /\ UNCHANGED corrections
    /\ UNCHANGED <<proofs2, outbox2, jobs2, known2, remote2, writes2>>

\* Mutant: the result of the compare and set is not looked at.
EnterFinalizingAnyway(r) ==
  LET o == runs2[r].job[1] IN
    /\ runs2[r].pc = "claimed" /\ runs2[r].kind = "execute" /\ runs2[r].from = "pre_write"
    /\ runs2' = [runs2 EXCEPT ![r].pc = "finalizing"]
    /\ IF corrections[o].status = "pre_write" /\ RunsCorrection(r, o)
       THEN compareAndSet(o, "pre_write", "finalizing") ELSE UNCHANGED corrections
    /\ UNCHANGED <<proofs2, outbox2, jobs2, known2, remote2, writes2>>

EnterFinalizing(r) ==
  LET o == runs2[r].job[1] IN
    /\ runs2[r].pc = "claimed" /\ runs2[r].kind = "execute" /\ runs2[r].from = "pre_write"
    /\ IF corrections[o].status = "pre_write" /\ RunsCorrection(r, o)
       THEN compareAndSet(o, "pre_write", "finalizing") /\ runs2' = [runs2 EXCEPT ![r].pc = "finalizing"]
       ELSE EndRun(r) /\ UNCHANGED corrections
    /\ UNCHANGED <<proofs2, outbox2, jobs2, known2, remote2, writes2>>

executeRefusedLocally(r) ==
  /\ assertCorrectionExecution(r)
  /\ \E outcome \in correctionCredential(RunsOperation(r).mutation) : StepRun(r, "resolving", outcome)
  /\ UNCHANGED <<corrections, proofs2, outbox2, jobs2, known2, remote2, writes2>>

\* The provider applies the mutation and answers, the answer is lost, or it answers
\* with a server error that the connector takes for a refusal.
executeCorrection(r) ==
  LET o == runs2[r].job[1] IN
    /\ assertCorrectionExecution(r) /\ Sends(corrections[o].mutation)
    /\ writes2' = [writes2 EXCEPT ![o] = @ + 1]
    /\ \/ /\ remote2' = Applied(corrections[o].mutation)
          /\ \/ StepRun(r, "sent", "none")
             \/ StepRun(r, "resolving", "uncertain")
             \/ StepRun(r, "resolving", "rejected")
       \/ /\ UNCHANGED remote2
          /\ \E outcome \in {"uncertain", "rejected"} : StepRun(r, "resolving", outcome)
    /\ UNCHANGED <<corrections, proofs2, outbox2, jobs2, known2>>

\* Read after write: confirmed only if the post looks as approved.
assertRemoteCorrectionOutcome(r) ==
  LET o == runs2[r].job[1] IN
    /\ runs2[r].pc = "sent"
    /\ \E answered \in BOOLEAN :
         StepRun(r, "resolving", IF answered /\ correctionResult(corrections[o], remote2)
                                 THEN "provider_confirmed" ELSE "uncertain")
    /\ UNCHANGED <<corrections, proofs2, outbox2, jobs2, known2, remote2, writes2>>

reconcileCorrection(r) ==
  LET o == runs2[r].job[1] IN
    /\ runs2[r].pc = "claimed" /\ runs2[r].kind = "reconcile"
    /\ \E answered \in BOOLEAN :
         StepRun(r, "resolving", IF answered /\ correctionResult(corrections[o], remote2)
                                 THEN "reconciled" ELSE "manual_action_required")
    /\ UNCHANGED <<corrections, proofs2, outbox2, jobs2, known2, remote2, writes2>>

\* The last write of a run: with a proof, or a compare and set from the status the run knows.
ResolveCorrection(r) ==
  LET o == runs2[r].job[1]
      known == IF runs2[r].kind = "execute" THEN "finalizing" ELSE runs2[r].from IN
    /\ runs2[r].pc = "resolving"
    /\ EndRun(r)
    /\ IF ~(corrections[o].status = known /\ RunsCorrection(r, o)) THEN UNCHANGED <<corrections, proofs2>>
       ELSE IF runs2[r].outcome = "provider_confirmed" THEN resolveWithProof(o, "provider_confirmed")
       ELSE IF runs2[r].outcome = "reconciled" THEN resolveWithProof(o, "provider_reconciled")
       ELSE compareAndSet(o, known, runs2[r].outcome) /\ UNCHANGED proofs2
    /\ UNCHANGED <<outbox2, jobs2, known2, remote2, writes2>>

\* Any error of that write, the refused insert of a proof among them, is caught: after a mutation the result
\* is uncertain, after a read a person has to look.
ResolveFails(r) ==
  LET caught == IF runs2[r].kind = "execute" THEN "uncertain" ELSE "manual_action_required" IN
    /\ runs2[r].pc = "resolving" /\ runs2[r].outcome # caught
    /\ StepRun(r, "resolving", caught)
    /\ UNCHANGED <<corrections, proofs2, outbox2, jobs2, known2, remote2, writes2>>

\* The process stops: the queue gives a stalled job to another worker, once.
StopCorrection(r) ==
  /\ runs2[r].pc # "idle"
  /\ EndRun(r)
  /\ (jobs2' = jobs2 \/ jobs2' = jobs2 \cup {runs2[r].job})
  /\ UNCHANGED <<corrections, proofs2, outbox2, known2, remote2, writes2>>

\* The queue keeps the ids of the last jobs only.
ForgetJob(job) ==
  /\ job \in known2 \ jobs2
  /\ \A r \in CorrectionRuns : runs2[r].pc = "idle" \/ runs2[r].job # job
  /\ known2' = known2 \ {job}
  /\ UNCHANGED <<corrections, proofs2, runs2, outbox2, jobs2, remote2, writes2>>

WorkerStep(r) ==
  \/ ClaimCorrection(r) \/ EnterPreWrite(r) \/ EnterFinalizing(r) \/ executeRefusedLocally(r)
  \/ executeCorrection(r) \/ assertRemoteCorrectionOutcome(r) \/ reconcileCorrection(r)
  \/ ResolveCorrection(r)

\* What can go wrong in a run.
WorkerFails(r) == ClaimEarly(r) \/ ResolveFails(r) \/ StopCorrection(r)

RemoteCorrectionNext ==
  \/ \E o \in Corrections :
       \/ \E p \in Requesters, m \in MutationsOf(o) : create(o, m, p)
       \/ \E p \in Approvers : approve(o, p)
       \/ reconcileRequest(o) \/ attest(o) \/ ExpireCorrectionClaim(o)
       \/ recoverRemoteCorrections(o)
       \/ \E key \in {"execute", "reconcile", "recovery"} : dispatch(o, key)
  \/ \E s \in RemoteContentState : ChangeOutside(s)
  \/ \E job \in known2 : ForgetJob(job)
  \/ \E r \in CorrectionRuns :
       \/ \E job \in jobs2 : StartCorrection(r, job)
       \/ WorkerStep(r) \/ WorkerFails(r)

RemoteCorrectionSpec == RemoteCorrectionInit /\ [][RemoteCorrectionNext]_correctionVars

\* The timers, the queue and a running worker go on; leases run out; some day nothing goes wrong any more.
RemoteCorrectionFairness ==
  /\ \A o \in Corrections :
       /\ WF_correctionVars(ExpireCorrectionClaim(o)) /\ WF_correctionVars(recoverRemoteCorrections(o))
       /\ \A key \in {"execute", "reconcile", "recovery"} : WF_correctionVars(dispatch(o, key))
       /\ \A mode \in {"execute", "reconcile"} :
            WF_correctionVars(\E r \in CorrectionRuns : StartCorrection(r, <<o, mode>>))
  /\ \A r \in CorrectionRuns : WF_correctionVars(WorkerStep(r))
  /\ <>[][\A r \in CorrectionRuns : ~WorkerFails(r)]_correctionVars

RemoteCorrectionFairSpec == RemoteCorrectionSpec /\ RemoteCorrectionFairness

-----------------------------------------------------------------------------
(* Properties.                                                             *)

\* However jobs are repeated, lost or overtaken by an expired claim, the provider receives the
\* mutation of one approved operation at most once: a run that stopped is only read back.
MutatedOnce == \A o \in Corrections : writes2[o] <= 1

\* The proofs of the operations on one post form one unbroken chain that starts at the publish proof.
ProofsAreChained == verifyRemovalProofChain(proofs2)

Evidenced == {"provider_confirmed", "reconciled", "operator_confirmed"}

\* An operation has exactly one proof when it is resolved with evidence, and none before.
ResolvedHasOneProof ==
  /\ \A i, j \in DOMAIN proofs2 : proofs2[i].operation = proofs2[j].operation => i = j
  /\ \A o \in Corrections : corrections[o].status \in Evidenced
         <=> \E i \in DOMAIN proofs2 : proofs2[i].operation = o

-----------------------------------------------------------------------------
(* The inductive invariant behind these properties.                        *)

Unwritten == {"none", "pending_approval", "approved", "pre_write"}

\* Nothing is written before a row is "finalizing", and only one run ever makes it so.
UnwrittenUntilFinalizing ==
  /\ \A o \in Corrections : corrections[o].status \in Unwritten =>
         writes2[o] = 0 /\ \A r \in CorrectionRuns : ~(runs2[r].pc = "finalizing" /\ runs2[r].job[1] = o)
  /\ \A r \in CorrectionRuns : runs2[r].pc = "finalizing" => writes2[runs2[r].job[1]] = 0
  /\ \A q, r \in CorrectionRuns :
       runs2[q].pc = "finalizing" /\ runs2[r].pc = "finalizing" /\ runs2[q].job[1] = runs2[r].job[1] => q = r
  /\ MutatedOnce

\* What a run does fits the status it was claimed from.
FitsItsKind(run) ==
  /\ run.pc \in {"claimed", "resolving"} /\ run.kind = "reconcile" => run.from \in {"finalizing", "uncertain"}
  /\ run.pc = "resolving" => run.outcome \in (IF run.kind = "execute"
       THEN {"provider_confirmed", "uncertain", "manual_action_required", "rejected"}
       ELSE {"reconciled", "manual_action_required"})
  /\ run.pc \in {"finalizing", "sent"} => run.kind = "execute"

RunsFitTheirKind == \A r \in CorrectionRuns : FitsItsKind(runs2[r])

RemoteCorrectionInv ==
  RemoteCorrectionTypeOK /\ UnwrittenUntilFinalizing /\ RunsFitTheirKind /\ ProofsAreChained /\ ResolvedHasOneProof

-----------------------------------------------------------------------------
\* "Restart recovery reconciles finalizing or uncertain operations": an operation whose result is
\* not known does not stay that way.
UncertainIsReconciled ==
  \A o \in Corrections : corrections[o].status = "uncertain" ~> corrections[o].status # "uncertain"

=============================================================================
