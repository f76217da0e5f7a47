----------------------------- MODULE MCPublishing -----------------------------
(***************************************************************************)
(* What happens to one post, for TLC: publishing a target on Facebook and  *)
(* on YouTube, its Instagram collaborators, its first comment and its      *)
(* remote correction.  These components meet only in the content item,     *)
(* whose commits ContentStore orders.  So a behaviour here is a behaviour  *)
(* of one component, chosen by Init, and the components take turns at the  *)
(* state variables s1, s2, ...                                             *)
(***************************************************************************)
EXTENDS Naturals, Sequences, FiniteSets, FiniteSetTheorems, TLAPS

CONSTANTS Runs, Operators, None,                                             \* Facebook and YouTube
          Typed, Names, Normal, Drafts, FormatOf, Candidates, Pollers, Nothing, MaxAttempts,   \* collaborators
          FirstIntents, FirstRuns, NoFirstRun, MaxGrants, MaxFirstVersion,   \* first comments
          PostPlatform, Corrections, ManualCorrections, Mutations, Requesters, Approvers,
          CorrectionRuns, NoCorrectionRun, ProofTimes                        \* corrections

VARIABLES component, s1, s2, s3, s4, s5, s6, s7, s8, s9, s10

vars == <<component, s1, s2, s3, s4, s5, s6, s7, s8, s9, s10>>

\* Facebook and YouTube, whose connectors have no claim (only Instagram's does).
Publish == INSTANCE PublishProofs WITH Overlapping <- FALSE, target <- s1, attempts <- s2, proofs <- s3,
  current <- s4, op <- s5, posts <- s6, inflight <- s7, pc <- s8, att <- s9, loc <- s10, claim <- None

Collaboration == INSTANCE Collaborators WITH
  account <- s1, candidates <- s2, approvals <- s3, target <- s4, container <- s5, invites <- s6, proof <- s7,
  poll <- s8, snapshots <- s9, pollers <- s10

Comment == INSTANCE FirstComments WITH
  intents1 <- s1, runs1 <- s2, target1 <- s3, jobs1 <- s4, known1 <- s5, live1 <- s6, grants1 <- s7

Correction == INSTANCE RemoteCorrection WITH
  corrections <- s1, proofs2 <- s2, runs2 <- s3, outbox2 <- s4, jobs2 <- s5, known2 <- s6, remote2 <- s7, writes2 <- s8

ASSUME ActorsAssumption == Runs \cap Operators = {} /\ None \notin Runs

ASSUME CollaborationAssumption ==
  /\ MaxAttempts \in Nat \ {0}
  /\ Nothing \notin Collaboration!Target \cup Collaboration!InstagramCollaboratorPoll

ASSUME CommentAssumption == FirstIntents # {} /\ IsFiniteSet(FirstRuns) /\ MaxGrants \in Nat \ {0}

ASSUME CorrectionAssumption ==
  /\ NoCorrectionRun \notin CorrectionRuns /\ ProofTimes \subseteq Nat
  /\ Corrections # {} /\ Requesters # {}
  /\ PostPlatform \in {"facebook", "instagram", "youtube"}
  /\ Mutations \subseteq {"make_private", "restore_public", "restore_unlisted", "delete_remote"}

\* Values for TLC: two spellings of one account; a reel beside a story, which takes no collaborators.
TwoSpellings == [t \in Typed |-> IF t = "@ann" THEN "ann" ELSE "bob"]
DraftIsFormat == [d \in Drafts |-> d]

Init ==
  \/ component = "facebook" /\ Publish!FacebookInit
  \/ component = "youtube" /\ Publish!YouTubeInit
  \/ component = "collaborators" /\ Collaboration!CollaboratorInit
  \/ component = "first comment" /\ Comment!FirstCommentInit /\ s8 = None /\ s9 = None /\ s10 = None
  \/ component = "correction" /\ Correction!RemoteCorrectionInit /\ s9 = None /\ s10 = None

FacebookSteps == component = "facebook" /\ Publish!FacebookNext /\ UNCHANGED component

YouTubeSteps == component = "youtube" /\ Publish!YouTubeNext /\ UNCHANGED component

CollaborationSteps == component = "collaborators" /\ Collaboration!CollaboratorNext /\ UNCHANGED component

FirstCommentSteps == component = "first comment" /\ Comment!FirstCommentNext /\ UNCHANGED <<component, s8, s9, s10>>

CorrectionSteps == component = "correction" /\ Correction!RemoteCorrectionNext /\ UNCHANGED <<component, s9, s10>>

Next == FacebookSteps \/ YouTubeSteps \/ CollaborationSteps \/ FirstCommentSteps \/ CorrectionSteps

Spec == Init /\ [][Next]_vars

-----------------------------------------------------------------------------
(* Properties. *)

\* Every variable of the five components keeps its type.
TypesOK ==
  /\ component = "facebook"      => Publish!FacebookTypeOK
  /\ component = "youtube"       => Publish!YouTubeTypeOK
  /\ component = "collaborators" => Collaboration!CollaboratorTypeOK
  /\ component = "first comment" => Comment!FirstCommentTypeOK
  /\ component = "correction"    => Correction!RemoteCorrectionTypeOK

\* Crashes, retries, lost answers and interrupted uploads leave at most one live post or video of a target: "finalizing"
\* is saved before the irreversible call, and an upload session before its first byte.
OnePostPerTarget ==
  /\ component = "facebook" => Publish!AtMostOnePost
  /\ component = "youtube"  => Publish!AtMostOneVideo

\* What the store says of the platform is true of the platform: a proof or a saved identifier names a live post, video or
\* comment, removal proofs form one chain with one link for each resolved correction, and a poll is complete only when
\* every invitation was accepted.
RecordsAreTrue ==
  /\ component = "facebook"      => Publish!ProofIsLive
  /\ component = "youtube"       => Publish!SavedVideoIsLive
  /\ component = "collaborators" => Collaboration!CompleteIsAccepted
  /\ component = "first comment" => Comment!ProofMatchesPlatform
  /\ component = "correction"    => Correction!ProofsAreChained /\ Correction!ResolvedHasOneProof

\* A target that waits for a person can be resolved by one: the confirmation endpoint accepts only an operation saved as
\* "uncertain".
ReviewsAreResolvable ==
  /\ component = "facebook" => Publish!ReviewIsResolvable
  /\ component = "youtube"  => Publish!ReviewIsResolvable

\* The platform is written to only with a person's permission, once for each: comments no more often than they were
\* granted, one mutation for each approved correction, and collaborators only as the approved draft names them.
WritesArePermitted ==
  /\ component = "collaborators" => Collaboration!PublishedSettingsWereApproved
  /\ component = "first comment" => Comment!CommentedAsGranted
  /\ component = "correction"    => Correction!MutatedOnce

\* No late run moves what is settled: a published target and its operation, a saved video identifier, and a
\* collaborator's status, which no older read replaces.
SettledStep ==
  /\ component = "facebook"      => Publish!FacebookPublishedIsFinal
  /\ component = "youtube"       => Publish!SavedVideoStays
  /\ component = "collaborators" => Collaboration!StatusNeverOlder

SettledPostsStay == [][SettledStep]_vars

-----------------------------------------------------------------------------
(* Proofs.  The inductive invariant is that of the component that runs.    *)

Inv ==
  /\ component = "facebook"      => Publish!FacebookIInv
  /\ component = "youtube"       => Publish!YouTubeIInv
  /\ component = "collaborators" => Collaboration!CollaboratorInv
  /\ component = "first comment" => Comment!FirstCommentInv
  /\ component = "correction"    => Correction!RemoteCorrectionInv

(* First comments.  s1 is intents1, s2 runs1, s6 live1 and s7 grants1.     *)

\* Counting the executions that may write.
LEMMA Counts ==
  ASSUME NEW S \in SUBSET FirstRuns, NEW T \in SUBSET FirstRuns
  PROVE  /\ Comment!Cardinality(S) \in Nat /\ Comment!Cardinality(T) \in Nat
         /\ S = {} => Comment!Cardinality(S) = 0
         /\ S \subseteq T => Comment!Cardinality(S) <= Comment!Cardinality(T)
         /\ S \subseteq T /\ S # T => Comment!Cardinality(S) + 1 <= Comment!Cardinality(T)
         /\ \A w : S \subseteq T \cup {w} => Comment!Cardinality(S) <= Comment!Cardinality(T) + 1
<1>1. \A U : Comment!Cardinality(U) = Cardinality(U)
  BY DEF Comment!Cardinality, Cardinality
<1>2. IsFiniteSet(S) /\ IsFiniteSet(T) /\ Cardinality(S) \in Nat /\ Cardinality(T) \in Nat
  BY CommentAssumption, FS_Subset, FS_CardinalityType
<1>3. /\ S = {} => Cardinality(S) = 0
      /\ S \subseteq T => Cardinality(S) <= Cardinality(T)
      /\ S \subseteq T /\ S # T => Cardinality(S) + 1 <= Cardinality(T)
  BY <1>2, FS_Subset, FS_EmptySet
<1>4. ASSUME NEW w, S \subseteq T \cup {w} PROVE Cardinality(S) <= Cardinality(T) + 1
  <2>1. /\ IsFiniteSet(T \cup {w})
        /\ Cardinality(T \cup {w}) = Cardinality(T) \/ Cardinality(T \cup {w}) = Cardinality(T) + 1
    BY <1>2, FS_AddElement
  <2>2. Cardinality(S) <= Cardinality(T \cup {w})
    BY <1>4, <2>1, FS_Subset
  <2> QED BY <1>2, <2>1, <2>2
<1> QED BY <1>1, <1>2, <1>3, <1>4

\* It holds when no comment was asked for.
LEMMA CommentInit == Comment!FirstCommentInit => Comment!FirstCommentInv
<1> SUFFICES ASSUME Comment!FirstCommentInit PROVE Comment!FirstCommentInv
  OBVIOUS
<1>1. \A i \in FirstIntents : Comment!Writers(i) = {}
  BY DEF Comment!FirstCommentInit, Comment!Writers, Comment!MayWrite
<1>2. Comment!FirstCommentTypeOK
  <2>1. (CHOOSE i \in FirstIntents : TRUE) \in FirstIntents
    BY CommentAssumption
  <2> QED BY <2>1, CommentAssumption DEF Comment!FirstCommentInit, Comment!FirstCommentTypeOK,
             Comment!NoFirstComment, Comment!FirstCommentIntent, Comment!FirstCommentStatus, Comment!FirstCommentAttempt
<1>3. \A i \in FirstIntents : Comment!PermissionsAreCounted(i)
  <2>1. \A i \in FirstIntents : Comment!Cardinality(Comment!Writers(i)) = 0
    BY <1>1, Counts
  <2> QED BY <2>1 DEF Comment!FirstCommentInit, Comment!PermissionsAreCounted, Comment!Waiting, Comment!NoFirstComment
<1> QED BY <1>2, <1>3 DEF Comment!FirstCommentInit, Comment!FirstCommentInv

\* A step that leaves the executions and the platform alone, and after which the permissions of the intent that it
\* changes still cover what may be written.
Covered(intent) == IF intent.status \in {"approved", "queued"} /\ intent.mode = "write" THEN 1 ELSE 0
IntentMoves(i) ==
  /\ s1' \in [FirstIntents -> Comment!FirstCommentIntent] /\ s7' \in [FirstIntents -> 0..MaxGrants]
  /\ \A j \in FirstIntents \ {i} : s1'[j] = s1[j] /\ s7'[j] = s7[j]
  /\ s7'[i] \in {s7[i], s7[i] + 1}
  /\ s1'[i].proved \in {s1[i].proved, "no", "operator"}
  /\ s1'[i].status \in {"none", "draft", "pending_approval"} =>
       s1[i].status \in {"none", "draft", "pending_approval"} /\ s7'[i] = s7[i]
  /\ s1'[i].status \in {"none", "draft", "pending_approval", "approved"} => s1'[i].mode = "write"
  /\ s1'[i].status = "failed" => s1[i].status = "failed"
  /\ Covered(s1'[i]) = 1 => Covered(s1[i]) = 1 \/ s7'[i] = s7[i] + 1
  /\ s2' = s2 /\ s6' = s6
  /\ s3' \in [FirstIntents -> {"scheduled", "published", "failed"}]
  /\ s4' \subseteq FirstIntents \X Nat /\ s5' \subseteq FirstIntents \X Nat

\* A step that moves an intent and its permission keeps the count of permissions.
LEMMA IntentMovesKeeps ==
  ASSUME Comment!FirstCommentInv, NEW i \in FirstIntents, IntentMoves(i)
  PROVE  Comment!FirstCommentInv'
<1>1. Comment!FirstCommentTypeOK'
  BY DEF Comment!FirstCommentInv, Comment!FirstCommentTypeOK, IntentMoves
<1>2. \A j \in FirstIntents : Comment!Writers(j)' = Comment!Writers(j) /\ Comment!Cardinality(Comment!Writers(j)) \in Nat
  <2>1. \A j \in FirstIntents : Comment!Writers(j) \in SUBSET FirstRuns
    BY DEF Comment!Writers
  <2> QED BY <2>1, Counts DEF Comment!Writers, Comment!MayWrite, IntentMoves
<1>3. ASSUME NEW j \in FirstIntents PROVE Comment!PermissionsAreCounted(j)'
  <2>1. Comment!PermissionsAreCounted(j) /\ s6[j] \in Nat /\ s7[j] \in Nat /\ s1[j] \in Comment!FirstCommentIntent
    BY CommentAssumption DEF Comment!FirstCommentInv, Comment!FirstCommentTypeOK
  <2>2. CASE j # i
    BY <1>2, <2>1, <2>2 DEF Comment!PermissionsAreCounted, Comment!Waiting, IntentMoves
  <2>3. CASE j = i
    BY <1>2, <2>1, <2>3 DEF Comment!PermissionsAreCounted, Comment!Waiting, IntentMoves, Covered
  <2> QED BY <2>2, <2>3
<1> QED BY <1>1, <1>3 DEF Comment!FirstCommentInv, IntentMoves

\* What people, timers and the queue do.
LEMMA CommentPeople ==
  ASSUME Comment!FirstCommentInv, NEW i \in FirstIntents,
         \/ Comment!FirstCommentPeople(i) \/ Comment!TargetSettles(i) \/ Comment!recover(i) \/ Comment!QueueForgets(i)
         \/ Comment!recoverExpiredProcessing(i) \/ Comment!FirstLeaseExpires(i)
  PROVE  IntentMoves(i)
<1>a. /\ s1 \in [FirstIntents -> Comment!FirstCommentIntent] /\ s1[i] \in Comment!FirstCommentIntent
      /\ s4 \subseteq FirstIntents \X Nat /\ s5 \subseteq FirstIntents \X Nat /\ Comment!PermissionsAreCounted(i)
      /\ s7 \in [FirstIntents -> 0..MaxGrants] /\ MaxGrants \in Nat \ {0}
      /\ s3 \in [FirstIntents -> {"scheduled", "published", "failed"}]
      /\ \A version \in Nat : Comment!NextVersion(version) \in Nat
  BY CommentAssumption DEF Comment!FirstCommentInv, Comment!FirstCommentTypeOK, Comment!NextVersion
<1>b. ASSUME NEW version \in Nat, Comment!enqueue(i, version) PROVE s4' \subseteq FirstIntents \X Nat /\ s5' \subseteq FirstIntents \X Nat
  BY <1>a, <1>b DEF Comment!enqueue
<1>c. s1[i].status \in {"none", "draft", "pending_approval"} => s1[i].mode = "write"
  BY <1>a DEF Comment!PermissionsAreCounted
<1>1. CASE Comment!create(i)
  <2>1. /\ Comment!createFirstCommentIntent \in Comment!FirstCommentIntent
        /\ Comment!createFirstCommentIntent.status = "draft" /\ Comment!createFirstCommentIntent.mode = "write"
        /\ Comment!createFirstCommentIntent.proved = "no"
    BY DEF Comment!createFirstCommentIntent, Comment!NoFirstComment, Comment!FirstCommentIntent,
         Comment!FirstCommentStatus
  <2>2. s1[i].status = "none" /\ s1' = [s1 EXCEPT ![i] = Comment!createFirstCommentIntent]
        /\ UNCHANGED <<s2, s3, s4, s5, s6, s7>>
    BY <1>1 DEF Comment!create
  <2> QED BY <1>a, <2>1, <2>2 DEF IntentMoves, Covered
<1>2. CASE Comment!revise(i)
  BY <1>2, <1>a, <1>c DEF Comment!revise, Comment!compareAndSet, Comment!reviseFirstCommentIntent,
       Comment!FirstCommentIntent, Comment!FirstCommentStatus, IntentMoves, Covered
<1>3. CASE Comment!submit(i)
  BY <1>3, <1>a, <1>c DEF Comment!compareAndSet, Comment!submit, Comment!submitFirstCommentIntent,
       Comment!FirstCommentIntent, Comment!FirstCommentStatus, IntentMoves, Covered
<1>4. CASE Comment!approveFirst(i)
  <2> DEFINE approved == Comment!approveFirstCommentIntent(s1[i])
             next == IF s3[i] = "published" THEN Comment!bindFirstCommentToProof(approved) ELSE approved
  <2>1. next \in Comment!FirstCommentIntent /\ next.status \in {"approved", "queued"} /\ next.mode = s1[i].mode
        /\ next.proved = s1[i].proved
    BY <1>a DEF Comment!approveFirstCommentIntent, Comment!bindFirstCommentToProof, Comment!FirstCommentIntent,
         Comment!FirstCommentStatus
  <2>2. /\ s1' = [s1 EXCEPT ![i] = next] /\ s1[i].status = "pending_approval" /\ s7' = [s7 EXCEPT ![i] = @ + 1]
        /\ UNCHANGED <<s2, s3, s6>> /\ (Comment!enqueue(i, next.version) \/ UNCHANGED <<s4, s5>>)
    BY <1>4 DEF Comment!approveFirst, Comment!compareAndSet
  <2>3. s7[i] = 0 /\ s1[i].mode = "write"
    BY <1>a, <2>2 DEF Comment!PermissionsAreCounted
  <2>4. s4' \subseteq FirstIntents \X Nat /\ s5' \subseteq FirstIntents \X Nat
    BY <1>a, <1>b, <2>1, <2>2 DEF Comment!FirstCommentIntent
  <2> HIDE DEF next
  <2> QED BY <1>a, <2>1, <2>2, <2>3, <2>4 DEF IntentMoves, Covered
<1>5. CASE Comment!cancelFirst(i)
  BY <1>5, <1>a DEF Comment!cancelFirst, Comment!compareAndSet, Comment!transitionFirstComment,
       Comment!FirstCommentIntent, Comment!FirstCommentStatus, IntentMoves, Covered
<1>6. CASE Comment!reconcileFirst(i)
  <2> DEFINE queued == Comment!transitionFirstComment(s1[i], "queued")
             again == [queued EXCEPT !.mode = "reconcile"]
             afresh == [queued EXCEPT !.mode = "write", !.checkpoint = FALSE]
  <2>1. queued \in Comment!FirstCommentIntent /\ queued.status = "queued" /\ queued.proved = s1[i].proved
        /\ queued.version \in Nat
    BY <1>a DEF Comment!transitionFirstComment, Comment!FirstCommentIntent, Comment!FirstCommentStatus
  <2>2. UNCHANGED <<s2, s3, s6>> /\ Comment!enqueue(i, queued.version)
    BY <1>6 DEF Comment!reconcileFirst
  <2>3. s4' \subseteq FirstIntents \X Nat /\ s5' \subseteq FirstIntents \X Nat
    BY <1>b, <2>1, <2>2
  <2>4. \/ s1' = [s1 EXCEPT ![i] = again] /\ UNCHANGED s7
        \/ s1' = [s1 EXCEPT ![i] = afresh] /\ s7[i] < MaxGrants /\ s7' = [s7 EXCEPT ![i] = @ + 1]
    BY <1>6 DEF Comment!reconcileFirst, Comment!compareAndSet
  <2> HIDE DEF queued
  <2>5. /\ again \in Comment!FirstCommentIntent /\ again.status = "queued" /\ again.proved = s1[i].proved /\ again.mode = "reconcile"
        /\ afresh \in Comment!FirstCommentIntent /\ afresh.status = "queued" /\ afresh.proved = s1[i].proved
    BY <2>1 DEF Comment!FirstCommentIntent
  <2> HIDE DEF again, afresh
  <2> QED BY <1>a, <2>2, <2>3, <2>4, <2>5 DEF IntentMoves, Covered
<1>7. CASE Comment!attest(i)
  BY <1>7, <1>a DEF Comment!attest, Comment!resolveWithProof, Comment!transitionFirstComment,
       Comment!createFirstCommentProof, Comment!FirstCommentIntent, Comment!FirstCommentStatus, IntentMoves, Covered
<1>8. CASE Comment!TargetSettles(i)
  BY <1>8, <1>a DEF Comment!TargetSettles, IntentMoves, Comment!PermissionsAreCounted
<1>9. CASE Comment!recover(i) \/ Comment!QueueForgets(i)
  <2>1. UNCHANGED <<s1, s2, s3, s6, s7>>
    BY <1>9 DEF Comment!recover, Comment!QueueForgets
  <2>2. s4' \subseteq FirstIntents \X Nat /\ s5' \subseteq FirstIntents \X Nat
    BY <1>9, <1>a, <1>b DEF Comment!recover, Comment!QueueForgets, Comment!FirstCommentIntent
  <2> QED BY <1>a, <2>1, <2>2 DEF IntentMoves, Comment!PermissionsAreCounted
<1>10. CASE Comment!recoverExpiredProcessing(i)
  BY <1>10, <1>a DEF Comment!recoverExpiredProcessing, Comment!transitionFirstComment,
       Comment!FirstCommentIntent, Comment!FirstCommentStatus, IntentMoves, Covered
<1>11. CASE Comment!FirstLeaseExpires(i)
  BY <1>11, <1>a DEF Comment!FirstLeaseExpires, Comment!FirstCommentIntent, Comment!PermissionsAreCounted, IntentMoves, Covered
<1> QED BY <1>1, <1>2, <1>3, <1>4, <1>5, <1>6, <1>7, <1>8, <1>9, <1>10, <1>11 DEF Comment!FirstCommentPeople

\* The permission that execution w holds to write for intent j.
Permit(w, j) == IF Comment!MayWrite(w, j) THEN 1 ELSE 0

\* Sets that differ at most in w differ in size by w.
LEMMA CountsMove ==
  ASSUME NEW S \in SUBSET FirstRuns, NEW T \in SUBSET FirstRuns, NEW w \in FirstRuns,
         \A v \in FirstRuns \ {w} : v \in S <=> v \in T
  PROVE  /\ Comment!Cardinality(S) \in Nat /\ Comment!Cardinality(T) \in Nat
         /\ Comment!Cardinality(T) + (IF w \in S THEN 1 ELSE 0) = Comment!Cardinality(S) + (IF w \in T THEN 1 ELSE 0)
<1>1. Comment!Cardinality(S) \in Nat /\ Comment!Cardinality(T) \in Nat
  BY Counts
<1>2. CASE w \in S <=> w \in T
  <2>1. S = T
    BY <1>2
  <2> QED BY <1>1, <2>1
<1>3. CASE w \in S /\ w \notin T
  <2>1. T \subseteq S /\ T # S /\ S \subseteq T \cup {w}
    BY <1>3
  <2>2. Comment!Cardinality(T) + 1 <= Comment!Cardinality(S) /\ Comment!Cardinality(S) <= Comment!Cardinality(T) + 1
    BY <2>1, Counts
  <2> QED BY <1>1, <1>3, <2>2
<1>4. CASE w \notin S /\ w \in T
  <2>1. S \subseteq T /\ T # S /\ T \subseteq S \cup {w}
    BY <1>4
  <2>2. Comment!Cardinality(S) + 1 <= Comment!Cardinality(T) /\ Comment!Cardinality(T) <= Comment!Cardinality(S) + 1
    BY <2>1, Counts
  <2> QED BY <1>1, <1>4, <2>2
<1> QED BY <1>2, <1>3, <1>4

\* When one execution moves, the count moves with its permission.
LEMMA WritersMove ==
  ASSUME NEW w \in FirstRuns, NEW j \in FirstIntents, \A v \in FirstRuns \ {w} : s2'[v] = s2[v]
  PROVE  /\ Comment!Cardinality(Comment!Writers(j)) \in Nat /\ Comment!Cardinality(Comment!Writers(j)') \in Nat
         /\ Comment!Cardinality(Comment!Writers(j)') + Permit(w, j) = Comment!Cardinality(Comment!Writers(j)) + Permit(w, j)'
<1> DEFINE W == Comment!Writers(j)
           V == Comment!Writers(j)'
<1>1. W \in SUBSET FirstRuns /\ V \in SUBSET FirstRuns /\ \A v \in FirstRuns \ {w} : v \in W <=> v \in V
  BY DEF Comment!Writers, Comment!MayWrite
<1>2. Permit(w, j) = (IF w \in W THEN 1 ELSE 0) /\ Permit(w, j)' = (IF w \in V THEN 1 ELSE 0)
  BY DEF Comment!Writers, Permit
<1> HIDE DEF W, V
<1>3. /\ Comment!Cardinality(W) \in Nat /\ Comment!Cardinality(V) \in Nat
      /\ Comment!Cardinality(V) + (IF w \in W THEN 1 ELSE 0) = Comment!Cardinality(W) + (IF w \in V THEN 1 ELSE 0)
  BY <1>1, CountsMove
<1>4. /\ Comment!Cardinality(W) \in Nat /\ Comment!Cardinality(V) \in Nat
      /\ Comment!Cardinality(V) + Permit(w, j) = Comment!Cardinality(W) + Permit(w, j)'
  BY <1>2, <1>3
<1> USE DEF W, V
<1> QED BY <1>4

\* A step of execution w that touches intent i and uses no permission twice.
RunMoves(w, i) ==
  /\ s1' \in [FirstIntents -> Comment!FirstCommentIntent] /\ s2' \in [FirstRuns -> Comment!FirstCommentAttempt]
  /\ s6' \in [FirstIntents -> Nat]
  /\ \A v \in FirstRuns \ {w} : s2'[v] = s2[v]
  /\ \A j \in FirstIntents \ {i} : s1'[j] = s1[j] /\ s6'[j] = s6[j] /\ (Comment!MayWrite(w, j)' => Comment!MayWrite(w, j))
  /\ s6'[i] + Permit(w, i)' + Covered(s1'[i]) <= s6[i] + Permit(w, i) + Covered(s1[i])
  /\ s1'[i].status = "failed" => \/ s1[i].status = "failed" /\ s6'[i] + Permit(w, i)' <= s6[i] + Permit(w, i)
                                 \/ s6'[i] + Permit(w, i)' < s6[i] + Permit(w, i) + Covered(s1[i])
  /\ s1'[i].status \in {"none", "draft", "pending_approval", "approved"} => s1'[i] = s1[i]
  /\ s1'[i].proved = "provider" => s1[i].proved = "provider" \/ s6[i] > 0
  /\ s6[i] <= s6'[i]
  /\ s2'[w].pc = "matched" => s6'[s2'[w].intent] > 0
  /\ UNCHANGED <<s3, s5, s7>> /\ s4' \subseteq s4

\* So does a step of a run that gains no permission.
LEMMA RunMovesKeeps ==
  ASSUME Comment!FirstCommentInv, NEW w \in FirstRuns, NEW i \in FirstIntents, RunMoves(w, i)
  PROVE  Comment!FirstCommentInv'
<1>1. Comment!FirstCommentTypeOK'
  BY DEF Comment!FirstCommentInv, Comment!FirstCommentTypeOK, RunMoves
<1>2. ASSUME NEW j \in FirstIntents PROVE Comment!PermissionsAreCounted(j)'
  <2> DEFINE before == Comment!Cardinality(Comment!Writers(j))
             after == Comment!Cardinality(Comment!Writers(j)')
  <2>1. before \in Nat /\ after \in Nat /\ after + Permit(w, j) = before + Permit(w, j)'
        /\ Permit(w, j) \in {0, 1} /\ Permit(w, j)' \in {0, 1}
    BY WritersMove DEF RunMoves, Permit
  <2>2. Comment!Cardinality(Comment!Writers(j))' = after
    BY DEF Comment!Cardinality
  <2>3. s6[j] \in Nat /\ s6'[j] \in Nat /\ s7[j] \in Nat /\ s7'[j] = s7[j] /\ Covered(s1[j]) \in {0, 1} /\ Covered(s1'[j]) \in {0, 1}
    BY CommentAssumption DEF Comment!FirstCommentInv, Comment!FirstCommentTypeOK, RunMoves, Covered
  <2>4. /\ s6[j] + before + Covered(s1[j]) <= s7[j]
        /\ s1[j].status = "failed" => s6[j] + before < s7[j]
        /\ s1[j].status \in {"none", "draft", "pending_approval"} => s7[j] = 0
        /\ s1[j].status \in {"none", "draft", "pending_approval", "approved"} => s1[j].mode = "write"
        /\ s1[j].proved = "provider" => s6[j] > 0
    BY DEF Comment!FirstCommentInv, Comment!PermissionsAreCounted, Comment!Waiting, Covered
  <2> HIDE DEF before, after
  <2>5. CASE j # i
    <3>1. s1'[j] = s1[j] /\ s6'[j] = s6[j] /\ Permit(w, j)' <= Permit(w, j)
      BY <2>5 DEF RunMoves, Permit
    <3> QED BY <2>1, <2>2, <2>3, <2>4, <3>1 DEF Comment!PermissionsAreCounted, Comment!Waiting, Covered
  <2>6. CASE j = i
    <3>1. s6'[j] + after + Covered(s1'[j]) <= s7'[j] /\ (s1'[j].status = "failed" => s6'[j] + after < s7'[j])
      BY <2>1, <2>3, <2>4, <2>6 DEF RunMoves
    <3> QED BY <2>2, <2>3, <2>4, <2>6, <3>1 DEF Comment!PermissionsAreCounted, Comment!Waiting, Covered, RunMoves
  <2> QED BY <2>5, <2>6
<1>3. ASSUME NEW v \in FirstRuns, s2'[v].pc = "matched" PROVE s6'[s2'[v].intent] > 0
  <2>1. CASE v = w
    BY <1>3, <2>1 DEF RunMoves
  <2>2. CASE v # w
    <3>1. s2'[v] = s2[v] /\ s2[v].intent \in FirstIntents /\ s6[s2[v].intent] > 0
      BY <1>3, <2>2 DEF RunMoves, Comment!FirstCommentInv, Comment!FirstCommentTypeOK, Comment!FirstCommentAttempt
    <3>2. s6[s2[v].intent] <= s6'[s2[v].intent] /\ s6[s2[v].intent] \in Nat /\ s6'[s2[v].intent] \in Nat
      BY <3>1 DEF RunMoves, Comment!FirstCommentInv, Comment!FirstCommentTypeOK
    <3> QED BY <3>1, <3>2
  <2> QED BY <2>1, <2>2
<1> QED BY <1>1, <1>2, <1>3 DEF Comment!FirstCommentInv

\* The rows that the store writes.
LEMMA IntentRows ==
  ASSUME NEW x \in Comment!FirstCommentIntent, NEW w \in FirstRuns
  PROVE  /\ \A to \in Comment!FirstCommentStatus :
              LET moved == Comment!transitionFirstComment(x, to)
                  proved == Comment!createFirstCommentProof(moved, "provider") IN
                /\ moved \in Comment!FirstCommentIntent /\ moved.status = to /\ moved.proved = x.proved
                /\ proved \in Comment!FirstCommentIntent /\ proved.status = to
         /\ LET claimed == [x EXCEPT !.status = "processing", !.version = Comment!NextVersion(@), !.owner = w, !.leased = TRUE] IN
              claimed \in Comment!FirstCommentIntent /\ claimed.status = "processing" /\ claimed.proved = x.proved
         /\ LET checked == [x EXCEPT !.checkpoint = TRUE, !.version = Comment!NextVersion(@)] IN
              checked \in Comment!FirstCommentIntent /\ checked.status = x.status /\ checked.proved = x.proved
<1>1. \A version \in Nat : Comment!NextVersion(version) \in Nat
  BY DEF Comment!NextVersion
<1>2. ASSUME NEW to \in Comment!FirstCommentStatus
      PROVE  LET moved == Comment!transitionFirstComment(x, to) IN
               moved \in Comment!FirstCommentIntent /\ moved.status = to /\ moved.proved = x.proved
  BY <1>1 DEF Comment!transitionFirstComment, Comment!FirstCommentIntent
<1>3. ASSUME NEW moved \in Comment!FirstCommentIntent
      PROVE  LET proved == Comment!createFirstCommentProof(moved, "provider") IN
               proved \in Comment!FirstCommentIntent /\ proved.status = moved.status
  BY DEF Comment!createFirstCommentProof, Comment!FirstCommentIntent
<1>4. LET claimed == [x EXCEPT !.status = "processing", !.version = Comment!NextVersion(@), !.owner = w, !.leased = TRUE] IN
        claimed \in Comment!FirstCommentIntent /\ claimed.status = "processing" /\ claimed.proved = x.proved
  BY <1>1 DEF Comment!FirstCommentIntent, Comment!FirstCommentStatus
<1>5. LET checked == [x EXCEPT !.checkpoint = TRUE, !.version = Comment!NextVersion(@)] IN
        checked \in Comment!FirstCommentIntent /\ checked.status = x.status /\ checked.proved = x.proved
  BY <1>1 DEF Comment!FirstCommentIntent
<1> QED BY <1>2, <1>3, <1>4, <1>5

\* What executions do.
LEMMA CommentRun ==
  ASSUME Comment!FirstCommentInv, NEW w \in FirstRuns, Comment!FirstCommentRun(w) \/ Comment!RunStops1(w)
  PROVE  \E i \in FirstIntents : RunMoves(w, i)
<1>a. /\ s1 \in [FirstIntents -> Comment!FirstCommentIntent] /\ s2 \in [FirstRuns -> Comment!FirstCommentAttempt]
      /\ s4 \subseteq FirstIntents \X Nat /\ s6 \in [FirstIntents -> Nat]
      /\ \A version \in Nat : Comment!NextVersion(version) \in Nat
  BY DEF Comment!FirstCommentInv, Comment!FirstCommentTypeOK, Comment!NextVersion
<1>b. PICK o \in FirstIntents : /\ o = s2[w].intent /\ s1[o] \in Comment!FirstCommentIntent
                              /\ s2[w] \in Comment!FirstCommentAttempt /\ Comment!PermissionsAreCounted(o)
  BY <1>a DEF Comment!FirstCommentAttempt, Comment!FirstCommentInv
<1>c. \A i \in FirstIntents : /\ Permit(w, i) \in {0, 1} /\ Covered(s1[i]) \in {0, 1} /\ s6[i] \in Nat
                              /\ Covered(s1'[i]) \in {0, 1}
  BY <1>a DEF Permit, Covered
<1>1. ASSUME NEW x \in s4, Comment!startFirst(w, x) PROVE RunMoves(w, x[1])
  <2> DEFINE i == x[1]
  <2>1. i \in FirstIntents /\ s1[i] \in Comment!FirstCommentIntent /\ s2[w].pc \in {"idle", "done"} /\ s4' = s4 \ {x}
        /\ UNCHANGED <<s3, s5, s6, s7>>
    BY <1>1, <1>a DEF Comment!startFirst
  <2> HIDE DEF i
  <2>2. \A j \in FirstIntents : ~Comment!MayWrite(w, j)
    BY <2>1 DEF Comment!MayWrite
  <2>3. /\ s2' \in [FirstRuns -> Comment!FirstCommentAttempt] /\ \A v \in FirstRuns \ {w} : s2'[v] = s2[v]
        /\ s2'[w].pc \in {"read", "done"}
    <3>1. s2' = [s2 EXCEPT ![w].pc = "done"] \/ s2' = [s2 EXCEPT ![w] = [s2[w] EXCEPT !.pc = "read", !.intent = i]]
      BY <1>1, <1>a DEF Comment!startFirst, Comment!RunTo, i
    <3>2. [s2[w] EXCEPT !.pc = "read", !.intent = i] \in Comment!FirstCommentAttempt
          /\ [s2[w] EXCEPT !.pc = "read", !.intent = i].pc = "read"
      BY <1>b, <2>1 DEF Comment!FirstCommentAttempt
    <3> DEFINE reads == [s2[w] EXCEPT !.pc = "read", !.intent = i]
    <3> HIDE DEF reads
    <3>3. s2' = [s2 EXCEPT ![w].pc = "done"] \/ s2' = [s2 EXCEPT ![w] = reads]
      BY <3>1 DEF reads
    <3>4. reads \in Comment!FirstCommentAttempt /\ reads.pc = "read"
      BY <3>2 DEF reads
    <3> QED BY <1>a, <1>b, <3>3, <3>4 DEF Comment!FirstCommentAttempt
  <2>4. \A j \in FirstIntents : ~Comment!MayWrite(w, j)'
    BY <2>3 DEF Comment!MayWrite
  <2>5. /\ s1' \in [FirstIntents -> Comment!FirstCommentIntent] /\ \A j \in FirstIntents \ {i} : s1'[j] = s1[j]
        /\ \/ s1'[i] = s1[i]
           \/ s1[i].status = "approved" /\ s1'[i].status \in {"queued", "failed"} /\ s1'[i].mode = s1[i].mode
              /\ s1'[i].proved = s1[i].proved
    <3>1. CASE s1' = s1
      BY <1>a, <3>1
    <3>2. CASE s1[i].status = "approved" /\ s1' = [s1 EXCEPT ![i] = Comment!bindFirstCommentToProof(s1[i])]
      BY <1>a, <2>1, <3>2 DEF Comment!bindFirstCommentToProof, Comment!FirstCommentIntent, Comment!FirstCommentStatus
    <3>3. CASE s1[i].status = "approved" /\ s1' = [s1 EXCEPT ![i].status = "failed", ![i].version = Comment!NextVersion(@)]
      BY <1>a, <2>1, <3>3 DEF Comment!FirstCommentIntent, Comment!FirstCommentStatus
    <3> QED BY <1>1, <3>1, <3>2, <3>3 DEF Comment!startFirst, Comment!compareAndSet, i
  <2>6. s1[i].status = "approved" => s1[i].mode = "write"
    BY <2>1 DEF Comment!FirstCommentInv, Comment!PermissionsAreCounted
  <2>7. Permit(w, i) = 0 /\ Permit(w, i)' = 0
    BY <2>1, <2>2, <2>4 DEF Permit
  <2> QED BY <1>a, <1>c, <2>1, <2>2, <2>3, <2>4, <2>5, <2>6, <2>7 DEF RunMoves, Covered, i
<1>2. CASE Comment!claimFirst(w)
  <2>1. /\ s2[w].pc = "read" /\ UNCHANGED <<s3, s4, s5, s6, s7>>
        /\ \/ /\ s1[o].status = "queued" /\ s2' = [s2 EXCEPT ![w].pc = Comment!pcAfterClaim(s1[o].mode)]
              /\ Comment!claimForExecution(o, w)
           \/ s2' = [s2 EXCEPT ![w].pc = "done"] /\ s1' = s1
    BY <1>2, <1>b DEF Comment!claimFirst, Comment!claimForExecution, Comment!RunTo, Comment!IntentOf
  <2>2. CASE s2' = [s2 EXCEPT ![w].pc = "done"] /\ s1' = s1
    <3>1. Permit(w, o) = 0 /\ Permit(w, o)' = 0 /\ \A j \in FirstIntents : ~Comment!MayWrite(w, j)'
      BY <1>a, <1>b, <2>1, <2>2 DEF Comment!MayWrite, Permit, Comment!FirstCommentAttempt
    <3> QED BY <1>a, <1>b, <1>c, <2>1, <2>2, <3>1 DEF RunMoves, Comment!FirstCommentAttempt
  <2>3. CASE /\ s1[o].status = "queued" /\ s2' = [s2 EXCEPT ![w].pc = Comment!pcAfterClaim(s1[o].mode)]
             /\ Comment!claimForExecution(o, w)
    <3>1. /\ s1' \in [FirstIntents -> Comment!FirstCommentIntent] /\ \A j \in FirstIntents \ {o} : s1'[j] = s1[j]
          /\ s1'[o].status = "processing" /\ s1'[o].proved = s1[o].proved
      <4> DEFINE row == [s1[o] EXCEPT !.status = "processing", !.version = Comment!NextVersion(@), !.owner = w, !.leased = TRUE]
      <4>1. s1' = [s1 EXCEPT ![o] = row]
        BY <2>3 DEF Comment!claimForExecution
      <4>2. row \in Comment!FirstCommentIntent /\ row.status = "processing" /\ row.proved = s1[o].proved
        BY <1>b, IntentRows
      <4> HIDE DEF row
      <4> QED BY <1>a, <4>1, <4>2
    <3>2. /\ s2' \in [FirstRuns -> Comment!FirstCommentAttempt] /\ \A v \in FirstRuns \ {w} : s2'[v] = s2[v]
          /\ s2'[w].pc = (IF s1[o].mode = "write" THEN "writing" ELSE "inspecting") /\ s2'[w].intent = o
      BY <1>a, <1>b, <2>3 DEF Comment!pcAfterClaim, Comment!FirstCommentAttempt
    <3>3. Permit(w, o) = 0 /\ Permit(w, o)' = Covered(s1[o])
      BY <1>b, <2>1, <2>3, <3>2 DEF Permit, Comment!MayWrite, Covered
    <3>4. \A j \in FirstIntents \ {o} : ~Comment!MayWrite(w, j)'
      BY <3>2 DEF Comment!MayWrite
    <3>5. Covered(s1'[o]) = 0
      BY <3>1 DEF Covered
    <3> QED BY <1>a, <1>b, <1>c, <2>1, <3>1, <3>2, <3>3, <3>4, <3>5 DEF RunMoves
  <2> QED BY <1>b, <2>1, <2>2, <2>3
<1>3. CASE Comment!writeFirst(w)
  <2>1. /\ s2[w].pc = "writing" /\ UNCHANGED <<s1, s3, s4, s5, s7>>
        /\ \/ s6' = [s6 EXCEPT ![o] = @ + 1] /\ s2' = [s2 EXCEPT ![w].pc = "created"]
           \/ s6' = [s6 EXCEPT ![o] = @ + 1] /\ s2' = [s2 EXCEPT ![w].pc = "failed", ![w].error = "uncertain"]
           \/ s6' = s6 /\ \E error \in Comment!Definite \cup {"uncertain"} : s2' = [s2 EXCEPT ![w].pc = "failed", ![w].error = error]
    BY <1>3, <1>b DEF Comment!writeFirst, Comment!createFacebookComment, Comment!createInstagramComment,
         Comment!CommentGoesLive, Comment!RunTo, Comment!FailTo, Comment!IntentOf
  <2>2. /\ s2' \in [FirstRuns -> Comment!FirstCommentAttempt] /\ \A v \in FirstRuns \ {w} : s2'[v] = s2[v]
        /\ s2'[w].intent = o /\ s2'[w].pc # "matched"
        /\ s6' # s6 => s2'[w].pc = "created" \/ (s2'[w].pc = "failed" /\ s2'[w].error = "uncertain")
    BY <1>a, <1>b, <2>1 DEF Comment!FirstCommentAttempt
  <2>3. \A j \in FirstIntents : Comment!MayWrite(w, j)' => j = o
    BY <2>2 DEF Comment!MayWrite
  <2>4. Permit(w, o) = 1 /\ Permit(w, o)' \in {0, 1} /\ (s6' # s6 => Permit(w, o)' = 0)
    BY <1>b, <2>1, <2>2 DEF Permit, Comment!MayWrite, Comment!Definite
  <2>5. /\ s6' \in [FirstIntents -> Nat] /\ \A j \in FirstIntents \ {o} : s6'[j] = s6[j]
        /\ s6'[o] = s6[o] \/ (s6' # s6 /\ s6'[o] = s6[o] + 1)
    <3>1. CASE s6' = s6
      BY <1>a, <3>1
    <3>2. CASE s6' = [s6 EXCEPT ![o] = @ + 1]
      BY <1>a, <3>2
    <3> QED BY <2>1, <3>1, <3>2
  <2> QED BY <1>a, <1>b, <1>c, <2>1, <2>2, <2>3, <2>4, <2>5 DEF RunMoves
<1>4. CASE Comment!checkpointFirst(w)
  <2>1. /\ s2[w].pc = "created" /\ UNCHANGED <<s3, s4, s5, s6, s7>>
        /\ s2' = [s2 EXCEPT ![w].pc = "inspecting"] \/ s2' = [s2 EXCEPT ![w].pc = "failed", ![w].error = "uncertain"]
        /\ \/ s1' = s1
           \/ s1[o].status = "processing" /\ Comment!checkpointProviderEvidence(o)
    BY <1>4, <1>b DEF Comment!checkpointFirst, Comment!holdsClaim, Comment!RunTo, Comment!FailTo, Comment!IntentOf
  <2>2. /\ s2' \in [FirstRuns -> Comment!FirstCommentAttempt] /\ \A v \in FirstRuns \ {w} : s2'[v] = s2[v]
        /\ s2'[w].pc \in {"inspecting", "failed"} /\ (s2'[w].pc = "failed" => s2'[w].error = "uncertain")
    <3>1. CASE s2' = [s2 EXCEPT ![w].pc = "inspecting"]
      BY <1>a, <1>b, <3>1 DEF Comment!FirstCommentAttempt
    <3>2. CASE s2' = [s2 EXCEPT ![w].pc = "failed", ![w].error = "uncertain"]
      BY <1>a, <1>b, <3>2 DEF Comment!FirstCommentAttempt
    <3> QED BY <2>1, <3>1, <3>2
  <2>3. Permit(w, o) = 0 /\ Permit(w, o)' = 0 /\ \A j \in FirstIntents : ~Comment!MayWrite(w, j)'
    BY <1>b, <2>1, <2>2 DEF Permit, Comment!MayWrite, Comment!Definite
  <2>4. /\ s1' \in [FirstIntents -> Comment!FirstCommentIntent] /\ \A j \in FirstIntents \ {o} : s1'[j] = s1[j]
        /\ s1'[o].proved = s1[o].proved /\ (s1'[o] = s1[o] \/ s1'[o].status = "processing")
    <3> DEFINE row == [s1[o] EXCEPT !.checkpoint = TRUE, !.version = Comment!NextVersion(@)]
    <3>1. s1' = s1 \/ (s1' = [s1 EXCEPT ![o] = row] /\ s1[o].status = "processing")
      BY <2>1 DEF Comment!checkpointProviderEvidence
    <3>2. row \in Comment!FirstCommentIntent /\ row.status = s1[o].status /\ row.proved = s1[o].proved
      BY <1>b, IntentRows
    <3> HIDE DEF row
    <3> QED BY <1>a, <3>1, <3>2
  <2>5. Covered(s1'[o]) <= Covered(s1[o])
    BY <2>4, <1>b, <1>c DEF Covered
  <2> QED BY <1>a, <1>b, <1>c, <2>1, <2>2, <2>3, <2>4, <2>5 DEF RunMoves
<1>5. CASE Comment!inspectFirst(w) \/ Comment!RunStops1(w)
  <2>1. /\ UNCHANGED <<s1, s3, s4, s5, s6, s7>>
        /\ \/ s6[o] = 1 /\ s2' = [s2 EXCEPT ![w].pc = "matched"]
           \/ s2[w].pc = "inspecting" /\ s2' = [s2 EXCEPT ![w].pc = "failed", ![w].error = "uncertain"]
           \/ s2' = [s2 EXCEPT ![w].pc = "done"]
    BY <1>5, <1>b DEF Comment!inspectFirst, Comment!RunStops1, Comment!Matches, Comment!RunTo, Comment!FailTo, Comment!IntentOf
  <2>2. /\ s2' \in [FirstRuns -> Comment!FirstCommentAttempt] /\ \A v \in FirstRuns \ {w} : s2'[v] = s2[v]
        /\ s2'[w].intent = o /\ s2'[w].pc \in {"matched", "failed", "done"} /\ (s2'[w].pc = "failed" => s2'[w].error = "uncertain")
        /\ (s2'[w].pc = "matched" => s6[o] = 1)
    BY <1>a, <1>b, <2>1 DEF Comment!FirstCommentAttempt
  <2>3. Permit(w, o)' = 0 /\ \A j \in FirstIntents : ~Comment!MayWrite(w, j)'
    BY <1>b, <2>2 DEF Permit, Comment!MayWrite, Comment!Definite
  <2> QED BY <1>a, <1>b, <1>c, <2>1, <2>2, <2>3 DEF RunMoves
<1>6. CASE Comment!resolveFirst(w)
  <2>1. /\ s2[w].pc = "matched" /\ UNCHANGED <<s3, s4, s5, s6, s7>> /\ s2' = [s2 EXCEPT ![w].pc = "done"]
        /\ \/ s1' = s1
           \/ s1[o].status = "processing" /\ Comment!resolveWithProof(o, "provider")
    BY <1>6, <1>b DEF Comment!resolveFirst, Comment!holdsClaim, Comment!RunTo, Comment!IntentOf
  <2>2. /\ s2' \in [FirstRuns -> Comment!FirstCommentAttempt] /\ \A v \in FirstRuns \ {w} : s2'[v] = s2[v]
        /\ s2'[w].pc = "done" /\ s6[o] > 0
    BY <1>a, <1>b, <2>1 DEF Comment!FirstCommentAttempt, Comment!FirstCommentInv
  <2>3. Permit(w, o) = 0 /\ Permit(w, o)' = 0 /\ \A j \in FirstIntents : ~Comment!MayWrite(w, j)'
    BY <1>b, <2>1, <2>2 DEF Permit, Comment!MayWrite
  <2>4. /\ s1' \in [FirstIntents -> Comment!FirstCommentIntent] /\ \A j \in FirstIntents \ {o} : s1'[j] = s1[j]
        /\ (s1'[o] = s1[o] \/ s1'[o].status = "succeeded")
    <3>1. "succeeded" \in Comment!FirstCommentStatus
      BY DEF Comment!FirstCommentStatus
    <3> DEFINE row == Comment!createFirstCommentProof(Comment!transitionFirstComment(s1[o], "succeeded"), "provider")
    <3>2. s1' = s1 \/ s1' = [s1 EXCEPT ![o] = row]
      BY <2>1 DEF Comment!resolveWithProof
    <3>3. row \in Comment!FirstCommentIntent /\ row.status = "succeeded"
      BY <1>b, <3>1, IntentRows
    <3> HIDE DEF row
    <3> QED BY <1>a, <3>2, <3>3
  <2>5. Covered(s1'[o]) <= Covered(s1[o])
    BY <2>4, <1>b, <1>c DEF Covered
  <2> QED BY <1>a, <1>b, <1>c, <2>1, <2>2, <2>3, <2>4, <2>5 DEF RunMoves
<1>7. CASE Comment!failFirst(w)
  <2>1. /\ s2[w].pc = "failed" /\ UNCHANGED <<s3, s4, s5, s6, s7>> /\ s2' = [s2 EXCEPT ![w].pc = "done"]
        /\ \/ s1' = s1
           \/ /\ s1[o].status = "processing"
              /\ s1' = [s1 EXCEPT ![o] = Comment!transitionFirstComment(@, Comment!failureStatus(s2[w].error))]
    BY <1>7, <1>b DEF Comment!failFirst, Comment!finishExecution, Comment!holdsClaim, Comment!RunTo, Comment!IntentOf
  <2>2. /\ s2' \in [FirstRuns -> Comment!FirstCommentAttempt] /\ \A v \in FirstRuns \ {w} : s2'[v] = s2[v]
        /\ s2'[w].pc = "done"
    BY <1>a, <1>b, <2>1 DEF Comment!FirstCommentAttempt
  <2>3. Permit(w, o)' = 0 /\ \A j \in FirstIntents : ~Comment!MayWrite(w, j)'
    BY <1>b, <2>2 DEF Permit, Comment!MayWrite
  <2>4. /\ s1' \in [FirstIntents -> Comment!FirstCommentIntent] /\ \A j \in FirstIntents \ {o} : s1'[j] = s1[j]
        /\ \/ s1'[o] = s1[o]
           \/ /\ s1'[o].status = Comment!failureStatus(s2[w].error) /\ s1'[o].proved = s1[o].proved
              /\ s1[o].status = "processing"
    <3>1. Comment!failureStatus(s2[w].error) \in Comment!FirstCommentStatus
      BY DEF Comment!failureStatus, Comment!FirstCommentStatus
    <3> DEFINE to == Comment!failureStatus(s2[w].error)
               row == Comment!transitionFirstComment(s1[o], to)
    <3>2. s1' = s1 \/ (s1[o].status = "processing" /\ s1' = [s1 EXCEPT ![o] = row])
      BY <2>1
    <3>3. row \in Comment!FirstCommentIntent /\ row.status = to /\ row.proved = s1[o].proved
      BY <1>b, <3>1, IntentRows
    <3> HIDE DEF row
    <3> QED BY <1>a, <3>2, <3>3
  <2>5. /\ Covered(s1'[o]) <= Covered(s1[o])
        /\ s1'[o] # s1[o] => (s1'[o].status = "failed" => Permit(w, o) = 1) /\ s1'[o].status \in {"failed", "uncertain"}
    BY <2>1, <2>4, <1>b, <1>c DEF Covered, Comment!failureStatus, Permit, Comment!MayWrite
  <2> QED BY <1>a, <1>b, <1>c, <2>1, <2>2, <2>3, <2>4, <2>5 DEF RunMoves
<1> QED BY <1>a, <1>b, <1>1, <1>2, <1>3, <1>4, <1>5, <1>6, <1>7 DEF Comment!FirstCommentRun

\* Every step keeps the invariant, which says what the comments promise.
LEMMA CommentNext ==
  /\ Comment!FirstCommentInv /\ Comment!FirstCommentNext => Comment!FirstCommentInv'
  /\ Comment!FirstCommentInv => Comment!CommentedAsGranted /\ Comment!ProofMatchesPlatform
<1>1. ASSUME Comment!FirstCommentInv, Comment!FirstCommentNext PROVE Comment!FirstCommentInv'
  BY <1>1, IntentMovesKeeps, CommentPeople, RunMovesKeeps, CommentRun DEF Comment!FirstCommentNext
<1>2. ASSUME Comment!FirstCommentInv, NEW i \in FirstIntents
      PROVE  /\ s6[i] <= s7[i] /\ (s1[i].proved = "provider" => s6[i] > 0)
             /\ s1[i].status = "failed" => s6[i] < s7[i] \/ s6[i] = 0
  <2>1. s6[i] \in Nat /\ s7[i] \in Nat /\ Comment!PermissionsAreCounted(i) /\ Comment!Waiting(i) \in {0, 1}
    BY <1>2, CommentAssumption DEF Comment!FirstCommentInv, Comment!FirstCommentTypeOK, Comment!Waiting
  <2>2. Comment!Cardinality(Comment!Writers(i)) \in Nat
    <3>1. Comment!Writers(i) \in SUBSET FirstRuns
      BY DEF Comment!Writers
    <3> QED BY <3>1, Counts
  <2> QED BY <2>1, <2>2 DEF Comment!PermissionsAreCounted
<1> QED BY <1>1, <1>2 DEF Comment!CommentedAsGranted, Comment!ProofMatchesPlatform

-----------------------------------------------------------------------------
(* Corrections.  s1 is corrections, s2 proofs2, s3 runs2, s8 writes2.      *)

\* It holds before a correction is asked for.
LEMMA CorrectionInit == Correction!RemoteCorrectionInit => Correction!RemoteCorrectionInv
<1> SUFFICES ASSUME Correction!RemoteCorrectionInit PROVE Correction!RemoteCorrectionInv
  OBVIOUS
<1>1. Correction!RemoteCorrectionTypeOK
  <2>1. (CHOOSE o \in Corrections : TRUE) \in Corrections /\ (CHOOSE q \in Requesters : TRUE) \in Requesters
    BY CorrectionAssumption
  <2>2. s1 \in [Corrections -> Correction!RemoteCorrectionOperation]
    BY <2>1 DEF Correction!RemoteCorrectionInit, Correction!RemoteCorrectionOperation, Correction!RemoteCorrectionMutation
  <2>3. s3 \in [CorrectionRuns -> Correction!RemoteCorrectionAttempt]
    BY <2>1 DEF Correction!RemoteCorrectionInit, Correction!RemoteCorrectionAttempt, Correction!IdleRun
  <2>4. s7 \in Correction!RemoteContentState
    BY CorrectionAssumption DEF Correction!RemoteCorrectionInit, Correction!RemoteContentState
  <2> QED BY <2>2, <2>3, <2>4 DEF Correction!RemoteCorrectionInit, Correction!RemoteCorrectionTypeOK
<1>2. s2 = <<>> /\ \A r \in CorrectionRuns : s3[r].pc = "idle"
  BY DEF Correction!RemoteCorrectionInit, Correction!IdleRun
<1>3. Correction!UnwrittenUntilFinalizing /\ Correction!RunsFitTheirKind
  BY <1>2 DEF Correction!RemoteCorrectionInit, Correction!UnwrittenUntilFinalizing, Correction!RunsFitTheirKind,
       Correction!FitsItsKind, Correction!MutatedOnce
<1>4. Correction!ProofsAreChained /\ Correction!ResolvedHasOneProof
  BY <1>2 DEF Correction!RemoteCorrectionInit, Correction!ProofsAreChained, Correction!verifyRemovalProofChain,
       Correction!ResolvedHasOneProof, Correction!Evidenced
<1> QED BY <1>1, <1>3, <1>4 DEF Correction!RemoteCorrectionInv

\* A step that sends nothing, adds no proof and lets no run become the writer of an operation.
Quiet ==
  /\ s2' = s2 /\ s8' = s8
  /\ \A o \in Corrections : /\ s1'[o].status \in Correction!Unwritten => s1[o].status \in Correction!Unwritten
                            /\ s1'[o].status \in Correction!Evidenced <=> s1[o].status \in Correction!Evidenced
  /\ \A r \in CorrectionRuns : \/ s3'[r] = s3[r]
                               \/ s3'[r].pc # "finalizing" /\ Correction!FitsItsKind(s3'[r])

\* A step that writes nothing remote and settles nothing keeps the chain of proofs.
LEMMA QuietKeeps ==
  ASSUME Correction!RemoteCorrectionInv, Correction!RemoteCorrectionTypeOK', Quiet
  PROVE  Correction!RemoteCorrectionInv'
<1>1. Correction!UnwrittenUntilFinalizing'
  BY DEF Correction!RemoteCorrectionInv, Correction!UnwrittenUntilFinalizing, Quiet, Correction!MutatedOnce
<1>2. Correction!RunsFitTheirKind'
  BY DEF Correction!RemoteCorrectionInv, Correction!RunsFitTheirKind, Quiet
<1>3. Correction!ProofsAreChained' /\ Correction!ResolvedHasOneProof'
  BY DEF Correction!RemoteCorrectionInv, Correction!ProofsAreChained, Correction!verifyRemovalProofChain,
       Correction!ResolvedHasOneProof, Quiet
<1> QED BY <1>1, <1>2, <1>3 DEF Correction!RemoteCorrectionInv

\* The proof that resolves an operation continues the chain and is its only one.
LEMMA ProofAdded ==
  ASSUME Correction!RemoteCorrectionInv, NEW o \in Corrections, s1[o].status \notin Correction!Evidenced,
         NEW grade \in {"provider_confirmed", "provider_reconciled", "operator_attested"},
         Correction!resolveWithProof(o, grade)
  PROVE  /\ s1' \in [Corrections -> Correction!RemoteCorrectionOperation] /\ s2' \in Seq(Correction!RemovalProof)
         /\ s1'[o].status \in Correction!Evidenced /\ \A x \in Corrections \ {o} : s1'[x] = s1[x]
         /\ Correction!ProofsAreChained' /\ Correction!ResolvedHasOneProof'
<1>1. PICK head \in 0..Len(s2), at \in ProofTimes :
        /\ \A i \in DOMAIN s2 : s2[i].previous # head
        /\ s2' = Append(s2, Correction!createRemovalProof(o, grade, head, at))
  BY DEF Correction!resolveWithProof, Correction!uniquePredecessor
<1> DEFINE new == Correction!createRemovalProof(o, grade, head, at)
<1>2. s2 \in Seq(Correction!RemovalProof) /\ s1 \in [Corrections -> Correction!RemoteCorrectionOperation]
  BY DEF Correction!RemoteCorrectionInv, Correction!RemoteCorrectionTypeOK
<1>3. new \in Correction!RemovalProof /\ new.operation = o /\ new.previous = head
  BY <1>1, <1>2 DEF Correction!createRemovalProof, Correction!RemovalProof
<1> HIDE DEF new
<1>4. /\ s2' = Append(s2, new) /\ Len(s2) \in Nat /\ DOMAIN s2 = 1..Len(s2)
      /\ s2' \in Seq(Correction!RemovalProof) /\ Len(s2') = Len(s2) + 1 /\ DOMAIN s2' = 1..Len(s2) + 1
      /\ s2'[Len(s2) + 1] = new /\ \A i \in 1..Len(s2) : s2'[i] = s2[i]
  BY <1>1, <1>2, <1>3 DEF new
<1>5. /\ s1' \in [Corrections -> Correction!RemoteCorrectionOperation]
      /\ s1'[o].status \in Correction!Evidenced /\ \A x \in Corrections \ {o} : s1'[x] = s1[x]
  <2>1. Correction!resolveRemoteCorrectionEvidence(grade) \in Correction!Evidenced
    BY DEF Correction!resolveRemoteCorrectionEvidence, Correction!Evidenced
  <2>2. Correction!Evidenced \subseteq Correction!remoteCorrectionStatuses
    BY DEF Correction!Evidenced, Correction!remoteCorrectionStatuses
  <2> QED BY <1>2, <2>1, <2>2 DEF Correction!resolveWithProof, Correction!RemoteCorrectionOperation
<1>6. Correction!ProofsAreChained'
  BY <1>1, <1>3, <1>4 DEF Correction!RemoteCorrectionInv, Correction!ProofsAreChained, Correction!verifyRemovalProofChain
<1>7. Correction!ResolvedHasOneProof'
  BY <1>3, <1>4, <1>5 DEF Correction!RemoteCorrectionInv, Correction!ResolvedHasOneProof
<1> QED BY <1>4, <1>5, <1>6, <1>7

\* What people, the dispatcher, the queue and the world outside do.
LEMMA CorrectionRequests ==
  ASSUME Correction!RemoteCorrectionInv, NEW o \in Corrections,
         \/ \E q \in Requesters, m \in Correction!MutationsOf(o) : Correction!create(o, m, q)
         \/ \E q \in Approvers : Correction!approve(o, q)
         \/ Correction!reconcileRequest(o) \/ Correction!attest(o) \/ Correction!ExpireCorrectionClaim(o)
         \/ Correction!recoverRemoteCorrections(o)
         \/ \E key \in {"execute", "reconcile", "recovery"} : Correction!dispatch(o, key)
  PROVE  Correction!RemoteCorrectionInv'
<1>a. Correction!RemoteCorrectionTypeOK /\ s1[o] \in Correction!RemoteCorrectionOperation
  BY DEF Correction!RemoteCorrectionInv, Correction!RemoteCorrectionTypeOK
<1>b. ASSUME NEW row \in Correction!RemoteCorrectionOperation, s1' = [s1 EXCEPT ![o] = row], UNCHANGED <<s2, s3, s5, s6, s7, s8>>,
             row.status \in Correction!Unwritten => s1[o].status \in Correction!Unwritten,
             row.status \in Correction!Evidenced <=> s1[o].status \in Correction!Evidenced,
             s4' \in [Correction!OutboxKeys -> [status : {"none", "pending", "closed"}, mode : {"execute", "reconcile"}]]
      PROVE  Correction!RemoteCorrectionInv'
  <2>1. s1' \in [Corrections -> Correction!RemoteCorrectionOperation] /\ s1'[o] = row /\ \A x \in Corrections \ {o} : s1'[x] = s1[x]
    BY <1>a, <1>b DEF Correction!RemoteCorrectionTypeOK
  <2>2. Correction!RemoteCorrectionTypeOK'
    BY <1>a, <1>b, <2>1 DEF Correction!RemoteCorrectionTypeOK
  <2> QED BY <1>b, <2>1, <2>2, QuietKeeps DEF Quiet
<1>c. ASSUME NEW key \in {"execute", "reconcile", "recovery"}, NEW mode \in {"execute", "reconcile"}, Correction!insertOutbox(o, key, mode)
      PROVE  s4' \in [Correction!OutboxKeys -> [status : {"none", "pending", "closed"}, mode : {"execute", "reconcile"}]]
  BY <1>a, <1>c DEF Correction!insertOutbox, Correction!OutboxKeys, Correction!RemoteCorrectionTypeOK
<1>d. s4 \in [Correction!OutboxKeys -> [status : {"none", "pending", "closed"}, mode : {"execute", "reconcile"}]]
      /\ s1 = [s1 EXCEPT ![o] = s1[o]]
  BY <1>a DEF Correction!RemoteCorrectionTypeOK
<1>1. ASSUME NEW q \in Requesters, NEW m \in Correction!MutationsOf(o), Correction!create(o, m, q)
      PROVE  Correction!RemoteCorrectionInv'
  <2>1. m \in Correction!RemoteCorrectionMutation
    BY CorrectionAssumption DEF Correction!MutationsOf, Correction!RemoteCorrectionMutation
  <2> DEFINE row == Correction!createRemoteCorrectionRequest(o, m, q)
  <2>2. row \in Correction!RemoteCorrectionOperation /\ row.status = "pending_approval"
    BY <1>a, <2>1 DEF Correction!createRemoteCorrectionRequest, Correction!RemoteCorrectionOperation,
         Correction!remoteCorrectionStatuses
  <2>3. s1[o].status = "none" /\ s1' = [s1 EXCEPT ![o] = row] /\ UNCHANGED <<s2, s3, s4, s5, s6, s7, s8>>
    BY <1>1 DEF Correction!create
  <2> HIDE DEF row
  <2> QED BY <1>b, <1>d, <2>2, <2>3 DEF Correction!Unwritten, Correction!Evidenced
<1>2. ASSUME NEW q \in Approvers, Correction!approve(o, q) PROVE Correction!RemoteCorrectionInv'
  <2> DEFINE approved == Correction!approveRemoteCorrectionRequest(s1[o], q)
             manual == Correction!advanceRemoteCorrectionOperation(approved, "manual_action_required")
  <2>1. approved \in Correction!RemoteCorrectionOperation /\ approved.status = "approved"
    BY <1>a DEF Correction!approveRemoteCorrectionRequest, Correction!RemoteCorrectionOperation,
         Correction!remoteCorrectionStatuses
  <2>2. s1[o].status = "pending_approval" /\ UNCHANGED <<s2, s3, s5, s6, s7, s8>>
    BY <1>2 DEF Correction!approve
  <2>3. \/ s1' = [s1 EXCEPT ![o] = manual] /\ s4' = s4
        \/ s1' = [s1 EXCEPT ![o] = approved] /\ Correction!insertOutbox(o, "execute", "execute")
    BY <1>2 DEF Correction!approve
  <2> HIDE DEF approved
  <2>4. manual \in Correction!RemoteCorrectionOperation /\ manual.status = "manual_action_required"
    BY <2>1 DEF Correction!advanceRemoteCorrectionOperation, Correction!RemoteCorrectionOperation,
         Correction!remoteCorrectionStatuses
  <2> HIDE DEF manual
  <2>5. CASE s1' = [s1 EXCEPT ![o] = manual] /\ s4' = s4
    BY <1>b, <1>d, <2>2, <2>4, <2>5 DEF Correction!Unwritten, Correction!Evidenced
  <2>6. CASE s1' = [s1 EXCEPT ![o] = approved] /\ Correction!insertOutbox(o, "execute", "execute")
    BY <1>b, <1>c, <2>1, <2>2, <2>6 DEF Correction!Unwritten, Correction!Evidenced
  <2> QED BY <2>3, <2>5, <2>6
<1>3. CASE Correction!reconcileRequest(o)
  BY <1>3, <1>a, <1>b, <1>c, <1>d DEF Correction!reconcileRequest
<1>4. CASE Correction!attest(o)
  <2>1. s1[o].status = "manual_action_required" /\ Correction!resolveWithProof(o, "operator_attested")
        /\ UNCHANGED <<s3, s4, s5, s6, s7, s8>>
    BY <1>4 DEF Correction!attest
  <2>2. /\ s1' \in [Corrections -> Correction!RemoteCorrectionOperation] /\ s2' \in Seq(Correction!RemovalProof)
        /\ s1'[o].status \in Correction!Evidenced /\ \A x \in Corrections \ {o} : s1'[x] = s1[x]
        /\ Correction!ProofsAreChained' /\ Correction!ResolvedHasOneProof'
    BY <2>1, ProofAdded DEF Correction!Evidenced
  <2>3. Correction!RemoteCorrectionTypeOK'
    BY <1>a, <2>1, <2>2 DEF Correction!RemoteCorrectionTypeOK
  <2>4. Correction!UnwrittenUntilFinalizing' /\ Correction!RunsFitTheirKind'
    BY <2>1, <2>2 DEF Correction!RemoteCorrectionInv, Correction!UnwrittenUntilFinalizing, Correction!RunsFitTheirKind,
         Correction!MutatedOnce, Correction!Unwritten, Correction!Evidenced
  <2> QED BY <2>2, <2>3, <2>4 DEF Correction!RemoteCorrectionInv
<1>5. CASE Correction!ExpireCorrectionClaim(o)
  <2> DEFINE row == [s1[o] EXCEPT !.leased = FALSE]
  <2>1. s1' = [s1 EXCEPT ![o] = row] /\ UNCHANGED <<s2, s3, s4, s5, s6, s7, s8>>
    BY <1>5, <1>a DEF Correction!ExpireCorrectionClaim, Correction!RemoteCorrectionTypeOK
  <2>2. row \in Correction!RemoteCorrectionOperation /\ row.status = s1[o].status
    BY <1>a DEF Correction!RemoteCorrectionOperation
  <2> HIDE DEF row
  <2> QED BY <1>b, <1>d, <2>1, <2>2
<1>6. CASE Correction!recoverRemoteCorrections(o)
  <2>1. s4' \in [Correction!OutboxKeys -> [status : {"none", "pending", "closed"}, mode : {"execute", "reconcile"}]]
    BY <1>6, <1>a DEF Correction!recoverRemoteCorrections, Correction!OutboxKeys, Correction!RemoteCorrectionTypeOK
  <2> QED BY <1>6, <1>a, <1>b, <1>d, <2>1 DEF Correction!recoverRemoteCorrections
<1>7. ASSUME NEW key \in {"execute", "reconcile", "recovery"}, Correction!dispatch(o, key)
      PROVE  Correction!RemoteCorrectionInv'
  <2>1. UNCHANGED <<s1, s2, s3, s7, s8>>
    BY <1>7 DEF Correction!dispatch
  <2>2. Correction!RemoteCorrectionTypeOK'
    <3>1. <<o, key>> \in Correction!OutboxKeys /\ s4[<<o, key>>] \in [status : {"none", "pending", "closed"}, mode : {"execute", "reconcile"}]
      BY <1>7, <1>d DEF Correction!OutboxKeys
    <3>2. s4' \in [Correction!OutboxKeys -> [status : {"none", "pending", "closed"}, mode : {"execute", "reconcile"}]]
      BY <1>7, <1>d, <3>1 DEF Correction!dispatch
    <3>3. <<o, s4[<<o, key>>].mode>> \in Corrections \X {"execute", "reconcile"}
      BY <3>1
    <3>4. s5' \subseteq Corrections \X {"execute", "reconcile"} /\ s6' \subseteq Corrections \X {"execute", "reconcile"}
      BY <1>7, <1>a, <3>3 DEF Correction!dispatch, Correction!addJob, Correction!RemoteCorrectionTypeOK
    <3> QED BY <1>a, <2>1, <3>2, <3>4 DEF Correction!RemoteCorrectionTypeOK
  <2> QED BY <2>1, <2>2, QuietKeeps DEF Quiet
<1> QED BY <1>1, <1>2, <1>3, <1>4, <1>5, <1>6, <1>7

\* What an execution does.
LEMMA CorrectionExecution ==
  ASSUME Correction!RemoteCorrectionInv, NEW r \in CorrectionRuns,
         (\E job \in s5 : Correction!StartCorrection(r, job)) \/ Correction!WorkerStep(r) \/ Correction!WorkerFails(r)
  PROVE  Correction!RemoteCorrectionInv'
<1>a. /\ Correction!RemoteCorrectionTypeOK /\ s3[r] \in Correction!RemoteCorrectionAttempt /\ Correction!FitsItsKind(s3[r])
      /\ s1 \in [Corrections -> Correction!RemoteCorrectionOperation] /\ s3 \in [CorrectionRuns -> Correction!RemoteCorrectionAttempt]
  BY DEF Correction!RemoteCorrectionInv, Correction!RemoteCorrectionTypeOK, Correction!RunsFitTheirKind
<1>b. PICK o \in Corrections : o = s3[r].job[1] /\ s1[o] \in Correction!RemoteCorrectionOperation
  BY <1>a DEF Correction!RemoteCorrectionAttempt
<1>c. /\ Correction!IdleRun \in Correction!RemoteCorrectionAttempt /\ Correction!IdleRun.pc = "idle"
      /\ Correction!FitsItsKind(Correction!IdleRun)
  <2>1. (CHOOSE x \in Corrections : TRUE) \in Corrections
    BY CorrectionAssumption
  <2> QED BY <2>1 DEF Correction!IdleRun, Correction!RemoteCorrectionAttempt, Correction!FitsItsKind
\* The run moves to a step that is not the write, and the row it works on at most between statuses without evidence.
<1>d. ASSUME NEW run \in Correction!RemoteCorrectionAttempt, s3' = [s3 EXCEPT ![r] = run],
             run.pc # "finalizing", Correction!FitsItsKind(run),
             s1' \in [Corrections -> Correction!RemoteCorrectionOperation], \A x \in Corrections \ {o} : s1'[x] = s1[x],
             s1'[o].status \in Correction!Unwritten => s1[o].status \in Correction!Unwritten,
             s1'[o].status \in Correction!Evidenced <=> s1[o].status \in Correction!Evidenced,
             s5' \subseteq s5 \cup {s3[r].job}, UNCHANGED <<s2, s4, s6, s7, s8>>
      PROVE  Correction!RemoteCorrectionInv'
  <2>1. s3' \in [CorrectionRuns -> Correction!RemoteCorrectionAttempt] /\ s3'[r] = run /\ \A q \in CorrectionRuns \ {r} : s3'[q] = s3[q]
    BY <1>a, <1>d
  <2>2. s5' \subseteq Corrections \X {"execute", "reconcile"}
    BY <1>a, <1>d DEF Correction!RemoteCorrectionTypeOK, Correction!RemoteCorrectionAttempt
  <2>3. Correction!RemoteCorrectionTypeOK'
    BY <1>a, <1>d, <2>1, <2>2 DEF Correction!RemoteCorrectionTypeOK
  <2> QED BY <1>d, <2>1, <2>3, QuietKeeps DEF Quiet
<1>e. ASSUME s3' = [s3 EXCEPT ![r] = Correction!IdleRun], s5' \subseteq s5 \cup {s3[r].job}, UNCHANGED <<s1, s2, s4, s6, s7, s8>>
      PROVE  Correction!RemoteCorrectionInv'
  BY <1>a, <1>c, <1>d, <1>e
<1>f. ASSUME NEW outcome \in (IF s3[r].kind = "execute" THEN {"provider_confirmed", "uncertain", "manual_action_required", "rejected"}
                              ELSE {"reconciled", "manual_action_required"}),
             s3[r].kind = "reconcile" => s3[r].from \in {"finalizing", "uncertain"},
             Correction!StepRun(r, "resolving", outcome), UNCHANGED <<s1, s2, s4, s5, s6, s7, s8>>
      PROVE  Correction!RemoteCorrectionInv'
  <2> DEFINE run == [s3[r] EXCEPT !.pc = "resolving", !.outcome = outcome]
  <2>1. s3' = [s3 EXCEPT ![r] = run]
    BY <1>a, <1>f DEF Correction!StepRun
  <2>2. run \in Correction!RemoteCorrectionAttempt /\ run.pc = "resolving" /\ Correction!FitsItsKind(run)
    BY <1>a, <1>f DEF Correction!RemoteCorrectionAttempt, Correction!FitsItsKind
  <2> HIDE DEF run
  <2> QED BY <1>a, <1>d, <1>f, <2>1, <2>2
<1>1. ASSUME NEW job \in s5, Correction!StartCorrection(r, job) PROVE Correction!RemoteCorrectionInv'
  <2>1. /\ UNCHANGED <<s1, s2, s4, s6, s7, s8>> /\ s5' = s5 \ {job}
        /\ \E kind \in {"execute", "reconcile"} :
             s3' = [s3 EXCEPT ![r] = [pc |-> "read", job |-> job, from |-> s1[job[1]].status, outcome |-> "none", kind |-> kind]]
    BY <1>1 DEF Correction!StartCorrection
  <2>2. PICK kind \in {"execute", "reconcile"} :
             s3' = [s3 EXCEPT ![r] = [pc |-> "read", job |-> job, from |-> s1[job[1]].status, outcome |-> "none", kind |-> kind]]
    BY <2>1
  <2> DEFINE run == [pc |-> "read", job |-> job, from |-> s1[job[1]].status, outcome |-> "none", kind |-> kind]
  <2>3. job \in Corrections \X {"execute", "reconcile"} /\ s1[job[1]].status \in Correction!remoteCorrectionStatuses \cup {"none"}
    BY <1>a DEF Correction!RemoteCorrectionTypeOK, Correction!RemoteCorrectionOperation
  <2>4. run \in Correction!RemoteCorrectionAttempt /\ run.pc = "read" /\ Correction!FitsItsKind(run)
    BY <2>3 DEF Correction!RemoteCorrectionAttempt, Correction!FitsItsKind
  <2>5. s3' = [s3 EXCEPT ![r] = run]
    BY <2>2
  <2> HIDE DEF run
  <2> QED BY <1>a, <1>d, <2>1, <2>4, <2>5
<1>2. CASE Correction!ClaimCorrection(r) \/ Correction!ClaimEarly(r)
  <2>1. CASE Correction!EndRun(r) /\ UNCHANGED <<s1, s2, s4, s5, s6, s7, s8>>
    BY <1>e, <2>1 DEF Correction!EndRun
  <2>2. CASE /\ s3[r].pc = "read" /\ s1[o].status \in Correction!claimStatuses(s3[r].kind) /\ Correction!takeClaim(r, o)
             /\ UNCHANGED <<s2, s4, s5, s6, s7, s8>>
    <3> DEFINE run == [s3[r] EXCEPT !.pc = "claimed", !.from = s1[o].status]
    <3>1. s3' = [s3 EXCEPT ![r] = run]
      BY <1>a, <2>2 DEF Correction!takeClaim
    <3>2. run \in Correction!RemoteCorrectionAttempt /\ run.pc = "claimed" /\ Correction!FitsItsKind(run)
      BY <1>a, <1>b, <2>2 DEF Correction!RemoteCorrectionAttempt, Correction!FitsItsKind, Correction!claimStatuses,
           Correction!RemoteCorrectionOperation
    <3>3. /\ s1' \in [Corrections -> Correction!RemoteCorrectionOperation] /\ s1'[o].status = s1[o].status
          /\ \A x \in Corrections \ {o} : s1'[x] = s1[x]
      BY <1>a, <1>b, <2>2 DEF Correction!takeClaim, Correction!RemoteCorrectionOperation
    <3> HIDE DEF run
    <3> QED BY <1>d, <2>2, <3>1, <3>2, <3>3
  <2> QED BY <1>2, <1>b, <2>1, <2>2 DEF Correction!ClaimCorrection, Correction!ClaimEarly
<1>3. CASE Correction!EnterPreWrite(r)
  <2>1. CASE Correction!EndRun(r) /\ UNCHANGED <<s1, s2, s4, s5, s6, s7, s8>>
    BY <1>e, <2>1 DEF Correction!EndRun
  <2>2. CASE /\ s3[r].pc = "claimed" /\ s3[r].kind = "execute" /\ s1[o].status = "approved"
             /\ Correction!compareAndSet(o, "approved", "pre_write") /\ s3' = [s3 EXCEPT ![r].from = "pre_write"]
             /\ UNCHANGED <<s2, s4, s5, s6, s7, s8>>
    <3> DEFINE run == [s3[r] EXCEPT !.from = "pre_write"]
    <3>1. s3' = [s3 EXCEPT ![r] = run]
      BY <1>a, <2>2
    <3>2. run \in Correction!RemoteCorrectionAttempt /\ run.pc = "claimed" /\ Correction!FitsItsKind(run)
      BY <1>a, <2>2 DEF Correction!RemoteCorrectionAttempt, Correction!FitsItsKind, Correction!remoteCorrectionStatuses
    <3>3. /\ s1' \in [Corrections -> Correction!RemoteCorrectionOperation] /\ s1'[o].status = "pre_write"
          /\ \A x \in Corrections \ {o} : s1'[x] = s1[x]
      BY <1>a, <1>b, <2>2 DEF Correction!compareAndSet, Correction!keepsClaim, Correction!advanceRemoteCorrectionOperation,
           Correction!RemoteCorrectionOperation, Correction!remoteCorrectionStatuses
    <3> HIDE DEF run
    <3> QED BY <1>d, <2>2, <3>1, <3>2, <3>3 DEF Correction!Unwritten, Correction!Evidenced
  <2> QED BY <1>3, <1>b, <2>1, <2>2 DEF Correction!EnterPreWrite
<1>4. CASE Correction!EnterFinalizing(r)
  <2>1. CASE Correction!EndRun(r) /\ UNCHANGED <<s1, s2, s4, s5, s6, s7, s8>>
    BY <1>e, <2>1 DEF Correction!EndRun
  <2>2. CASE /\ s3[r].pc = "claimed" /\ s3[r].kind = "execute" /\ s1[o].status = "pre_write"
             /\ Correction!compareAndSet(o, "pre_write", "finalizing") /\ s3' = [s3 EXCEPT ![r].pc = "finalizing"]
             /\ UNCHANGED <<s2, s4, s5, s6, s7, s8>>
    <3>1. /\ s3' \in [CorrectionRuns -> Correction!RemoteCorrectionAttempt] /\ s3'[r].pc = "finalizing" /\ s3'[r].job = s3[r].job
          /\ s3'[r].kind = "execute" /\ \A q \in CorrectionRuns \ {r} : s3'[q] = s3[q]
      BY <1>a, <2>2 DEF Correction!RemoteCorrectionAttempt
    <3>2. /\ s1' \in [Corrections -> Correction!RemoteCorrectionOperation] /\ s1'[o].status = "finalizing"
          /\ \A x \in Corrections \ {o} : s1'[x] = s1[x]
      BY <1>a, <1>b, <2>2 DEF Correction!compareAndSet, Correction!keepsClaim, Correction!advanceRemoteCorrectionOperation,
           Correction!RemoteCorrectionOperation, Correction!remoteCorrectionStatuses
    <3>3. Correction!RemoteCorrectionTypeOK'
      BY <1>a, <2>2, <3>1, <3>2 DEF Correction!RemoteCorrectionTypeOK
    <3>4. s8[o] = 0 /\ \A q \in CorrectionRuns : ~(s3[q].pc = "finalizing" /\ s3[q].job[1] = o)
      BY <2>2 DEF Correction!RemoteCorrectionInv, Correction!UnwrittenUntilFinalizing, Correction!Unwritten
    <3>5. Correction!UnwrittenUntilFinalizing'
      BY <1>b, <2>2, <3>1, <3>2, <3>4 DEF Correction!RemoteCorrectionInv, Correction!UnwrittenUntilFinalizing,
           Correction!Unwritten, Correction!MutatedOnce
    <3>6. Correction!RunsFitTheirKind'
      BY <3>1 DEF Correction!RemoteCorrectionInv, Correction!RunsFitTheirKind, Correction!FitsItsKind
    <3>7. Correction!ProofsAreChained' /\ Correction!ResolvedHasOneProof'
      BY <2>2, <3>2 DEF Correction!RemoteCorrectionInv, Correction!ProofsAreChained, Correction!verifyRemovalProofChain,
           Correction!ResolvedHasOneProof, Correction!Evidenced
    <3> QED BY <3>3, <3>5, <3>6, <3>7 DEF Correction!RemoteCorrectionInv
  <2> QED BY <1>4, <1>b, <2>1, <2>2 DEF Correction!EnterFinalizing
<1>5. CASE Correction!executeRefusedLocally(r)
  <2>1. s3[r].kind = "execute"
    BY <1>5, <1>a DEF Correction!executeRefusedLocally, Correction!assertCorrectionExecution, Correction!FitsItsKind
  <2> QED BY <1>5, <1>f, <2>1 DEF Correction!executeRefusedLocally, Correction!correctionCredential
<1>6. CASE Correction!executeCorrection(r)
  <2>1. /\ s3[r].pc = "finalizing" /\ s8' = [s8 EXCEPT ![o] = @ + 1] /\ UNCHANGED <<s1, s2, s4, s5, s6>>
        /\ s7' \in {s7, Correction!Applied(s1[o].mutation)} /\ Correction!Sends(s1[o].mutation)
        /\ \E pc \in {"sent", "resolving"}, outcome \in {"none", "uncertain", "rejected"} :
             Correction!StepRun(r, pc, outcome) /\ (pc = "resolving" => outcome # "none")
    BY <1>6, <1>b DEF Correction!executeCorrection, Correction!assertCorrectionExecution
  <2>2. /\ s3' \in [CorrectionRuns -> Correction!RemoteCorrectionAttempt] /\ s3'[r].pc # "finalizing"
        /\ Correction!FitsItsKind(s3'[r]) /\ \A q \in CorrectionRuns \ {r} : s3'[q] = s3[q]
    <3>1. PICK pc \in {"sent", "resolving"}, outcome \in {"none", "uncertain", "rejected"} :
            Correction!StepRun(r, pc, outcome) /\ (pc = "resolving" => outcome # "none")
      BY <2>1
    <3> DEFINE run == [s3[r] EXCEPT !.pc = pc, !.outcome = outcome]
    <3>2. s3' = [s3 EXCEPT ![r] = run]
      BY <1>a, <3>1 DEF Correction!StepRun
    <3>3. run \in Correction!RemoteCorrectionAttempt /\ run.pc # "finalizing" /\ Correction!FitsItsKind(run)
      BY <1>a, <2>1, <3>1 DEF Correction!RemoteCorrectionAttempt, Correction!FitsItsKind
    <3> HIDE DEF run
    <3> QED BY <1>a, <3>2, <3>3
  <2>3. s7' \in Correction!RemoteContentState
    <3>1. Correction!Applied(s1[o].mutation) \in Correction!RemoteContentState
      BY <2>1, CorrectionAssumption DEF Correction!Applied, Correction!Sends, Correction!Corrected, Correction!RemoteContentState,
           Correction!facebookCapabilities, Correction!instagramCapabilities, Correction!youtubeCapabilities
    <3> QED BY <1>a, <2>1, <3>1 DEF Correction!RemoteCorrectionTypeOK
  <2>4. s8 \in [Corrections -> Nat] /\ s8[o] = 0 /\ s1[o].status \notin Correction!Unwritten
        /\ \A q \in CorrectionRuns \ {r} : ~(s3[q].pc = "finalizing" /\ s3[q].job[1] = o)
    BY <1>a, <1>b, <2>1 DEF Correction!RemoteCorrectionTypeOK, Correction!RemoteCorrectionInv, Correction!UnwrittenUntilFinalizing
  <2>5. s8' \in [Corrections -> Nat] /\ s8'[o] = 1 /\ \A x \in Corrections \ {o} : s8'[x] = s8[x]
    BY <2>1, <2>4
  <2>6. Correction!RemoteCorrectionTypeOK'
    BY <1>a, <2>1, <2>2, <2>3, <2>5 DEF Correction!RemoteCorrectionTypeOK
  <2>7. Correction!UnwrittenUntilFinalizing'
    BY <2>1, <2>2, <2>4, <2>5 DEF Correction!RemoteCorrectionInv, Correction!UnwrittenUntilFinalizing, Correction!MutatedOnce
  <2>8. Correction!RunsFitTheirKind'
    BY <2>2 DEF Correction!RemoteCorrectionInv, Correction!RunsFitTheirKind
  <2>9. Correction!ProofsAreChained' /\ Correction!ResolvedHasOneProof'
    BY <2>1 DEF Correction!RemoteCorrectionInv, Correction!ProofsAreChained, Correction!verifyRemovalProofChain,
         Correction!ResolvedHasOneProof
  <2> QED BY <2>6, <2>7, <2>8, <2>9 DEF Correction!RemoteCorrectionInv
<1>7. CASE Correction!assertRemoteCorrectionOutcome(r)
  <2>1. s3[r].kind = "execute"
    BY <1>7, <1>a DEF Correction!assertRemoteCorrectionOutcome, Correction!FitsItsKind
  <2> QED BY <1>7, <1>f, <2>1 DEF Correction!assertRemoteCorrectionOutcome
<1>8. CASE Correction!reconcileCorrection(r)
  <2>1. s3[r].kind = "reconcile" /\ s3[r].from \in {"finalizing", "uncertain"}
    BY <1>8, <1>a DEF Correction!reconcileCorrection, Correction!FitsItsKind
  <2> QED BY <1>8, <1>f, <2>1 DEF Correction!reconcileCorrection
<1>9. CASE Correction!ResolveFails(r)
  <2>1. s3[r].pc = "resolving" /\ (s3[r].kind = "reconcile" => s3[r].from \in {"finalizing", "uncertain"})
    BY <1>9, <1>a DEF Correction!ResolveFails, Correction!FitsItsKind
  <2> QED BY <1>9, <1>f, <2>1 DEF Correction!ResolveFails
<1>10. CASE Correction!StopCorrection(r)
  BY <1>10, <1>e DEF Correction!StopCorrection, Correction!EndRun
<1>11. CASE Correction!ResolveCorrection(r)
  <2> DEFINE known == IF s3[r].kind = "execute" THEN "finalizing" ELSE s3[r].from
  <2>1. /\ s3[r].pc = "resolving" /\ s3' = [s3 EXCEPT ![r] = Correction!IdleRun] /\ UNCHANGED <<s4, s5, s6, s7, s8>>
        /\ \/ UNCHANGED <<s1, s2>>
           \/ /\ s1[o].status = known
              /\ \/ \E grade \in {"provider_confirmed", "provider_reconciled"} : Correction!resolveWithProof(o, grade)
                 \/ /\ s3[r].outcome \notin {"provider_confirmed", "reconciled"}
                    /\ Correction!compareAndSet(o, known, s3[r].outcome) /\ s2' = s2
    BY <1>11, <1>b DEF Correction!ResolveCorrection, Correction!EndRun
  <2>2. known \in {"finalizing", "uncertain"} /\ s3[r].outcome \in {"provider_confirmed", "reconciled", "uncertain", "manual_action_required", "rejected"}
    BY <1>a, <2>1 DEF Correction!FitsItsKind, Correction!RemoteCorrectionAttempt
  <2> HIDE DEF known
  <2>3. CASE UNCHANGED <<s1, s2>>
    BY <1>e, <2>1, <2>3
  <2>4. ASSUME s1[o].status = known, NEW grade \in {"provider_confirmed", "provider_reconciled"}, Correction!resolveWithProof(o, grade)
        PROVE  Correction!RemoteCorrectionInv'
    <3>1. /\ s1' \in [Corrections -> Correction!RemoteCorrectionOperation] /\ s2' \in Seq(Correction!RemovalProof)
          /\ s1'[o].status \in Correction!Evidenced /\ \A x \in Corrections \ {o} : s1'[x] = s1[x]
          /\ Correction!ProofsAreChained' /\ Correction!ResolvedHasOneProof'
      BY <2>2, <2>4, ProofAdded DEF Correction!Evidenced
    <3>2. /\ s3' \in [CorrectionRuns -> Correction!RemoteCorrectionAttempt] /\ s3'[r] = Correction!IdleRun
          /\ \A q \in CorrectionRuns \ {r} : s3'[q] = s3[q]
      BY <1>a, <1>c, <2>1
    <3>3. Correction!RemoteCorrectionTypeOK'
      BY <1>a, <2>1, <3>1, <3>2 DEF Correction!RemoteCorrectionTypeOK
    <3>4. Correction!UnwrittenUntilFinalizing'
      BY <1>c, <2>1, <3>1, <3>2 DEF Correction!RemoteCorrectionInv, Correction!UnwrittenUntilFinalizing, Correction!MutatedOnce,
           Correction!Unwritten, Correction!Evidenced
    <3>5. Correction!RunsFitTheirKind'
      BY <1>c, <3>2 DEF Correction!RemoteCorrectionInv, Correction!RunsFitTheirKind
    <3> QED BY <3>1, <3>3, <3>4, <3>5 DEF Correction!RemoteCorrectionInv
  <2>5. CASE /\ s1[o].status = known /\ s3[r].outcome \in {"uncertain", "manual_action_required", "rejected"}
             /\ Correction!compareAndSet(o, known, s3[r].outcome) /\ s2' = s2
    <3>1. /\ s1' \in [Corrections -> Correction!RemoteCorrectionOperation] /\ s1'[o].status = s3[r].outcome
          /\ \A x \in Corrections \ {o} : s1'[x] = s1[x]
      BY <1>a, <1>b, <2>5 DEF Correction!compareAndSet, Correction!advanceRemoteCorrectionOperation,
           Correction!RemoteCorrectionOperation, Correction!remoteCorrectionStatuses
    <3> QED BY <1>c, <1>d, <2>1, <2>2, <2>5, <3>1 DEF Correction!Unwritten, Correction!Evidenced
  <2> QED BY <2>1, <2>2, <2>3, <2>4, <2>5
<1> QED BY <1>1, <1>2, <1>3, <1>4, <1>5, <1>6, <1>7, <1>8, <1>9, <1>10, <1>11 DEF Correction!WorkerStep, Correction!WorkerFails

\* Every step keeps the invariant, which says what corrections promise.
LEMMA CorrectionNext ==
  Correction!RemoteCorrectionInv /\ Correction!RemoteCorrectionNext => Correction!RemoteCorrectionInv'
<1> SUFFICES ASSUME Correction!RemoteCorrectionInv, Correction!RemoteCorrectionNext PROVE Correction!RemoteCorrectionInv'
  OBVIOUS
<1>1. ASSUME NEW state \in Correction!RemoteContentState, Correction!ChangeOutside(state) PROVE Correction!RemoteCorrectionInv'
  <2>1. Correction!RemoteCorrectionTypeOK'
    BY <1>1 DEF Correction!ChangeOutside, Correction!RemoteCorrectionInv, Correction!RemoteCorrectionTypeOK
  <2> QED BY <1>1, <2>1, QuietKeeps DEF Correction!ChangeOutside, Quiet
<1>2. ASSUME NEW job \in s6, Correction!ForgetJob(job) PROVE Correction!RemoteCorrectionInv'
  <2>1. Correction!RemoteCorrectionTypeOK'
    BY <1>2 DEF Correction!ForgetJob, Correction!RemoteCorrectionInv, Correction!RemoteCorrectionTypeOK
  <2> QED BY <1>2, <2>1, QuietKeeps DEF Correction!ForgetJob, Quiet
<1> QED BY <1>1, <1>2, CorrectionRequests, CorrectionExecution DEF Correction!RemoteCorrectionNext

-----------------------------------------------------------------------------
(* Collaborators.  s2 is candidates, s3 approvals, s4 target, s5 container, *)
(* s6 invites, s7 proof, s8 poll, s9 snapshots and s10 pollers.             *)

\* It holds before anything is prepared.
LEMMA CollaborationInit == Collaboration!CollaboratorInit => Collaboration!CollaboratorInv
<1> SUFFICES ASSUME Collaboration!CollaboratorInit PROVE Collaboration!CollaboratorInv
  OBVIOUS
<1>1. s9 \in [Names -> Collaboration!CollaboratorStatusSnapshot]
  <2>1. [status |-> "none", read |-> 0] \in Collaboration!CollaboratorStatusSnapshot
    BY CollaborationAssumption DEF Collaboration!CollaboratorStatusSnapshot
  <2> QED BY <2>1 DEF Collaboration!CollaboratorInit
<1>2. s1 \in Collaboration!Account
  BY DEF Collaboration!CollaboratorInit, Collaboration!Account
<1>3. Collaboration!CollaboratorTypeOK
  BY <1>1, <1>2 DEF Collaboration!CollaboratorInit, Collaboration!CollaboratorTypeOK
<1> QED BY <1>3 DEF Collaboration!CollaboratorInit, Collaboration!CollaboratorInv, Collaboration!BoundToApproval,
           Collaboration!PollFollowsProof, Collaboration!ReadsAreOfTheClaim, Collaboration!ClaimIsNewest,
           Collaboration!CompleteIsAccepted, Collaboration!PublishedSettingsWereApproved

\* What people do before the media is published: the account is connected again, settings are prepared, approved and
\* scheduled.
LEMMA CollaborationPeople ==
  ASSUME Collaboration!CollaboratorInv,
         \/ \E a \in Collaboration!Account : Collaboration!reconnect(a)
         \/ \E c \in Candidates, draft \in Drafts, typed \in SUBSET Typed, cover \in BOOLEAN, ai \in BOOLEAN :
              Collaboration!createCandidate(c, draft, typed, cover, ai)
         \/ \E c \in Candidates : Collaboration!approveCandidate(c)
         \/ \E c \in Candidates, draft \in Drafts : Collaboration!scheduleTarget(c, draft)
  PROVE  Collaboration!CollaboratorInv' /\ s9' = s9
<1> DEFINE Binding(r) == [draft |-> r.draft, settings |-> r.settings]
           Approved == \A c \in Candidates : s2[c] # Nothing /\ s2[c].status = "approved" => Binding(s2[c]) \in s3
<1>a. /\ s1 \in Collaboration!Account /\ s3 \subseteq Collaboration!InstagramPublishApprovalBinding
      /\ s2 \in [Candidates -> Collaboration!InstagramCollaboratorCandidate \cup {Nothing}]
      /\ s4 \in Collaboration!Target \cup {Nothing}
  BY DEF Collaboration!CollaboratorInv, Collaboration!CollaboratorTypeOK
<1>b. Approved
  BY DEF Collaboration!CollaboratorInv, Collaboration!BoundToApproval
<1>c. UNCHANGED <<s5, s6, s7, s8, s9, s10>>
  BY DEF Collaboration!reconnect, Collaboration!createCandidate, Collaboration!approveCandidate, Collaboration!scheduleTarget
<1> DEFINE Moves == /\ s1' \in Collaboration!Account /\ s3' \subseteq Collaboration!InstagramPublishApprovalBinding
                    /\ s2' \in [Candidates -> Collaboration!InstagramCollaboratorCandidate \cup {Nothing}]
                    /\ s3 \subseteq s3' /\ Approved'
                    /\ \/ s4' = s4
                       \/ s4 = Nothing /\ s4' \in Collaboration!Target /\ Binding(s4') \in s3'
<1>1. ASSUME NEW a \in Collaboration!Account, Collaboration!reconnect(a) PROVE Moves
  BY <1>1, <1>a, <1>b DEF Collaboration!reconnect
<1>2. ASSUME NEW c \in Candidates, NEW draft \in Drafts, NEW typed \in SUBSET Typed, NEW cover \in BOOLEAN, NEW ai \in BOOLEAN,
             Collaboration!createCandidate(c, draft, typed, cover, ai)
      PROVE  Moves
  <2> DEFINE names == Collaboration!normalizeInstagramCollaborators(typed, s1.username)
             settings == [collaborators |-> names, cover |-> cover, ai |-> ai]
             k == [draft |-> draft, username |-> s1.username, settings |-> settings, status |-> "pending_approval"]
  <2>1. names \subseteq Names
    BY <1>2 DEF Collaboration!createCandidate, Collaboration!normalizeInstagramCollaborators
  <2>2. s1.username \in Names
    BY <1>a DEF Collaboration!Account
  <2>3. k \in Collaboration!InstagramCollaboratorCandidate
    <3> HIDE DEF names
    <3> QED BY <2>1, <2>2 DEF Collaboration!InstagramCollaboratorCandidate, Collaboration!InstagramPublishSettings
  <2>4. s2' = [s2 EXCEPT ![c] = k] /\ UNCHANGED <<s1, s3, s4>>
    BY <1>2 DEF Collaboration!createCandidate
  <2>5. k.status # "approved"
    OBVIOUS
  <2> HIDE DEF k
  <2> QED BY <1>a, <1>b, <2>3, <2>4, <2>5
<1>3. ASSUME NEW c \in Candidates, Collaboration!approveCandidate(c) PROVE Moves
  <2> DEFINE k == [s2[c] EXCEPT !.status = "approved"]
  <2>1. /\ s2[c] \in Collaboration!InstagramCollaboratorCandidate
        /\ s2' = [s2 EXCEPT ![c] = k] /\ s3' = s3 \cup {Binding(s2[c])} /\ UNCHANGED <<s1, s4>>
    BY <1>3, <1>a DEF Collaboration!approveCandidate, Collaboration!commitCandidateApproval
  <2>2. k \in Collaboration!InstagramCollaboratorCandidate /\ Binding(k) = Binding(s2[c])
        /\ Binding(k) \in Collaboration!InstagramPublishApprovalBinding
    BY <2>1 DEF Collaboration!InstagramCollaboratorCandidate, Collaboration!InstagramPublishApprovalBinding
  <2> HIDE DEF k
  <2> HIDE DEF Binding
  <2> QED BY <1>a, <1>b, <2>1, <2>2
<1>4. ASSUME NEW c \in Candidates, NEW draft \in Drafts, Collaboration!scheduleTarget(c, draft) PROVE Moves
  <2> DEFINE t == [draft |-> draft, settings |-> s2[c].settings, status |-> "queued"]
  <2>1. /\ s2[c] \in Collaboration!InstagramCollaboratorCandidate /\ s4 = Nothing /\ s2[c].status = "approved"
        /\ s2[c] # Nothing /\ s2[c].draft = draft /\ s4' = t /\ UNCHANGED <<s1, s2, s3>>
    BY <1>4, <1>a DEF Collaboration!scheduleTarget
  <2>2. t \in Collaboration!Target
    BY <2>1 DEF Collaboration!InstagramCollaboratorCandidate, Collaboration!Target
  <2>3. Binding(t) = Binding(s2[c])
    BY <2>1
  <2> HIDE DEF t, Binding
  <2> QED BY <1>a, <1>b, <2>1, <2>2, <2>3
<1>5. Moves
  BY <1>1, <1>2, <1>3, <1>4
<1>6. Collaboration!CollaboratorTypeOK'
  BY <1>5, <1>c DEF Collaboration!CollaboratorInv, Collaboration!CollaboratorTypeOK
<1>7. Collaboration!BoundToApproval'
  BY <1>5, <1>c DEF Collaboration!CollaboratorInv, Collaboration!BoundToApproval, Collaboration!PublishedSettingsWereApproved
<1>8. Collaboration!PollFollowsProof'
  BY <1>5, <1>c DEF Collaboration!CollaboratorInv, Collaboration!PollFollowsProof
<1>9. Collaboration!ReadsAreOfTheClaim' /\ Collaboration!ClaimIsNewest' /\ Collaboration!CompleteIsAccepted'
  BY <1>c DEF Collaboration!CollaboratorInv, Collaboration!ReadsAreOfTheClaim, Collaboration!ClaimIsNewest, Collaboration!CompleteIsAccepted
<1> QED BY <1>c, <1>6, <1>7, <1>8, <1>9 DEF Collaboration!CollaboratorInv

\* The container is made, the media published, and an invitation answered.
LEMMA CollaborationPublishes ==
  ASSUME Collaboration!CollaboratorInv,
         Collaboration!createOperation \/ Collaboration!finalizeOperation \/ \E n \in Names : Collaboration!answer(n)
  PROVE  Collaboration!CollaboratorInv' /\ s9' = s9
<1>a. /\ s1 \in Collaboration!Account /\ s4 \in Collaboration!Target \cup {Nothing}
      /\ s5 = Nothing \/ s5 \in [draft : Drafts, settings : Collaboration!InstagramPublishSettings, by : Names]
      /\ s6 \in [Names -> {"no", "pending", "accepted", "declined"}]
      /\ s7 \in Collaboration!CollaboratorInviteProof \cup {Nothing}
      /\ Nothing \notin Collaboration!Target
  BY CollaborationAssumption DEF Collaboration!CollaboratorInv, Collaboration!CollaboratorTypeOK
<1>b. UNCHANGED <<s1, s2, s3, s8, s9, s10>>
  BY DEF Collaboration!createOperation, Collaboration!finalizeOperation, Collaboration!answer
<1> DEFINE Kept(t) == /\ t \in Collaboration!Target
                      /\ [draft |-> t.draft, settings |-> t.settings] = [draft |-> s4.draft, settings |-> s4.settings]
<1>c. ASSUME NEW status \in {"published", "review"}, s4 # Nothing
      PROVE  Kept([s4 EXCEPT !.status = status]) /\ [s4 EXCEPT !.status = status].status = status
  BY <1>a, <1>c DEF Collaboration!Target
<1>1. CASE Collaboration!createOperation
  <2> DEFINE made == [draft |-> s4.draft, settings |-> s4.settings, by |-> s1.username]
  <2>1. /\ s4 # Nothing /\ s4.status = "queued" /\ s5 = Nothing /\ UNCHANGED <<s6, s7>>
        /\ \/ s4' = s4 /\ s5' = made /\ s1.username \notin s4.settings.collaborators
           \/ s4' = [s4 EXCEPT !.status = "review"] /\ s5' = s5
    BY <1>1 DEF Collaboration!createOperation, Collaboration!assertCollaboratorCredential,
         Collaboration!assertApprovedInstagramPublishSettings
  <2>2. s4 \in Collaboration!Target /\ s1.username \in Names
    BY <2>1, <1>a DEF Collaboration!Account
  <2>3. made \in [draft : Drafts, settings : Collaboration!InstagramPublishSettings, by : Names]
        /\ made.draft = s4.draft /\ made.settings = s4.settings /\ made.by = s1.username
    BY <2>2 DEF Collaboration!Target
  <2>4. s7 = Nothing
    BY <2>1 DEF Collaboration!CollaboratorInv, Collaboration!PollFollowsProof
  <2>5. Kept(s4') /\ s4' # Nothing
    BY <2>1, <2>2, <1>a, <1>c
  <2>6. Collaboration!CollaboratorTypeOK'
    <3> HIDE DEF made
    <3> QED BY <1>b, <2>1, <2>3, <2>5 DEF Collaboration!CollaboratorInv, Collaboration!CollaboratorTypeOK
  <2>7. Collaboration!BoundToApproval'
    <3> HIDE DEF made
    <3> QED BY <1>b, <2>1, <2>3, <2>5 DEF Collaboration!CollaboratorInv, Collaboration!BoundToApproval,
               Collaboration!PublishedSettingsWereApproved
  <2>8. Collaboration!PollFollowsProof' /\ Collaboration!ReadsAreOfTheClaim' /\ Collaboration!ClaimIsNewest'
        /\ Collaboration!CompleteIsAccepted'
    BY <1>b, <2>1, <2>4 DEF Collaboration!CollaboratorInv, Collaboration!PollFollowsProof, Collaboration!ReadsAreOfTheClaim,
         Collaboration!ClaimIsNewest, Collaboration!CompleteIsAccepted
  <2> QED BY <1>b, <2>6, <2>7, <2>8 DEF Collaboration!CollaboratorInv
<1>2. CASE Collaboration!finalizeOperation
  <2>1. /\ s5 # Nothing /\ s5' = s5 /\ s4.status = "queued"
        /\ \/ /\ s6' = [n \in Names |-> IF n \in s5.settings.collaborators THEN "pending" ELSE s6[n]]
              /\ s7' = Collaboration!collaboratorInviteProof(s5.settings) /\ s4' = [s4 EXCEPT !.status = "published"]
           \/ s4' = [s4 EXCEPT !.status = "review"] /\ UNCHANGED <<s6, s7>>
    BY <1>2 DEF Collaboration!finalizeOperation
  <2>2. s4 # Nothing /\ s7 = Nothing /\ s8 = Nothing /\ \A w \in Pollers : s10[w] = Nothing
    BY <2>1 DEF Collaboration!CollaboratorInv, Collaboration!PollFollowsProof, Collaboration!BoundToApproval
  <2>3. Kept(s4') /\ s4' # Nothing /\ (s7' # Nothing => s4'.status = "published")
    BY <2>1, <2>2, <1>a, <1>c
  <2>4. s6' \in [Names -> {"no", "pending", "accepted", "declined"}] /\ s7' \in Collaboration!CollaboratorInviteProof \cup {Nothing}
    BY <2>1, <1>a DEF Collaboration!collaboratorInviteProof, Collaboration!CollaboratorInviteProof, Collaboration!InstagramPublishSettings
  <2>5. Collaboration!CollaboratorTypeOK'
    BY <1>b, <2>1, <2>3, <2>4 DEF Collaboration!CollaboratorInv, Collaboration!CollaboratorTypeOK
  <2>6. Collaboration!BoundToApproval'
    BY <1>b, <2>1, <2>2, <2>3 DEF Collaboration!CollaboratorInv, Collaboration!BoundToApproval, Collaboration!PublishedSettingsWereApproved
  <2>7. Collaboration!PollFollowsProof' /\ Collaboration!ReadsAreOfTheClaim' /\ Collaboration!ClaimIsNewest'
        /\ Collaboration!CompleteIsAccepted'
    BY <1>b, <2>2, <2>3 DEF Collaboration!CollaboratorInv, Collaboration!PollFollowsProof, Collaboration!ReadsAreOfTheClaim,
         Collaboration!ClaimIsNewest, Collaboration!CompleteIsAccepted
  <2> QED BY <1>b, <2>5, <2>6, <2>7 DEF Collaboration!CollaboratorInv
<1>3. CASE \E n \in Names : Collaboration!answer(n)
  <2>1. /\ s6' \in [Names -> {"no", "pending", "accepted", "declined"}] /\ UNCHANGED <<s4, s5, s7>>
        /\ \A n \in Names : s6[n] = "accepted" => s6'[n] = "accepted"
    BY <1>3, <1>a DEF Collaboration!answer
  <2>2. Collaboration!CollaboratorTypeOK' /\ Collaboration!BoundToApproval' /\ Collaboration!PollFollowsProof'
        /\ Collaboration!ClaimIsNewest'
    BY <1>b, <2>1 DEF Collaboration!CollaboratorInv, Collaboration!CollaboratorTypeOK, Collaboration!BoundToApproval,
         Collaboration!PublishedSettingsWereApproved, Collaboration!PollFollowsProof, Collaboration!ClaimIsNewest
  <2>3. s7 # Nothing => s7.names \subseteq Names
    BY <1>a DEF Collaboration!CollaboratorInviteProof
  <2>4. Collaboration!ReadsAreOfTheClaim'
    BY <1>b, <2>1 DEF Collaboration!CollaboratorInv, Collaboration!ReadsAreOfTheClaim
  <2>5. Collaboration!CompleteIsAccepted'
    BY <1>b, <2>1, <2>3 DEF Collaboration!CollaboratorInv, Collaboration!CompleteIsAccepted, Collaboration!PollFollowsProof
  <2> QED BY <1>b, <2>2, <2>4, <2>5 DEF Collaboration!CollaboratorInv
<1> QED BY <1>1, <1>2, <1>3

\* A poll that is claimed or recorded is a poll.
LEMMA PollRow ==
  ASSUME NEW Status, NEW Count, NEW p \in [status : Status, attempts : Count, claim : Count, lease : BOOLEAN, ttl : BOOLEAN],
         NEW status \in Status, NEW attempts \in Count, NEW claim \in Count, NEW lease \in BOOLEAN
  PROVE  LET claimed == [p EXCEPT !.status = status, !.attempts = attempts, !.claim = claim, !.lease = lease]
             recorded == [p EXCEPT !.status = status, !.claim = claim, !.lease = lease] IN
           /\ claimed \in [status : Status, attempts : Count, claim : Count, lease : BOOLEAN, ttl : BOOLEAN]
           /\ claimed.status = status /\ claimed.attempts = attempts /\ claimed.claim = claim
           /\ recorded \in [status : Status, attempts : Count, claim : Count, lease : BOOLEAN, ttl : BOOLEAN]
           /\ recorded.status = status /\ recorded.attempts = p.attempts
  OBVIOUS

\* The invitations are followed: polls are opened, claimed, read and recorded, and a worker stops.
LEMMA CollaborationPolls ==
  ASSUME Collaboration!CollaboratorInv,
         \/ Collaboration!recoverMissingPolls \/ Collaboration!pollTimePasses
         \/ \E w \in Pollers : \/ Collaboration!claimDuePolls(w) \/ Collaboration!readCollaboratorStatuses(w)
                               \/ Collaboration!recordPollResult(w) \/ Collaboration!pollerStops(w)
  PROVE  Collaboration!CollaboratorInv' /\ Collaboration!StatusNeverOlder
<1> DEFINE PollOK(p) == p \in Collaboration!InstagramCollaboratorPoll \cup {Nothing}
           NoReads == \A n \in Names : s9[n].read = 0
<1>a. /\ s6 \in [Names -> {"no", "pending", "accepted", "declined"}]
      /\ s7 \in Collaboration!CollaboratorInviteProof \cup {Nothing}
      /\ PollOK(s8) /\ s9 \in [Names -> Collaboration!CollaboratorStatusSnapshot]
      /\ s10 \in [Pollers -> Collaboration!PollRead \cup {Nothing}]
      /\ Nothing \notin Collaboration!InstagramCollaboratorPoll /\ MaxAttempts \in Nat \ {0}
  BY CollaborationAssumption DEF Collaboration!CollaboratorInv, Collaboration!CollaboratorTypeOK
<1>b. UNCHANGED <<s1, s2, s3, s4, s5, s6, s7>>
  BY DEF Collaboration!recoverMissingPolls, Collaboration!pollTimePasses, Collaboration!claimDuePolls,
       Collaboration!readCollaboratorStatuses, Collaboration!recordPollResult, Collaboration!pollerStops
<1>c. Collaboration!BoundToApproval'
  BY <1>b DEF Collaboration!CollaboratorInv, Collaboration!BoundToApproval, Collaboration!PublishedSettingsWereApproved
<1>d. PollOK(s8') /\ s9' \in [Names -> Collaboration!CollaboratorStatusSnapshot]
      /\ s10' \in [Pollers -> Collaboration!PollRead \cup {Nothing}] => Collaboration!CollaboratorTypeOK'
  BY <1>b DEF Collaboration!CollaboratorInv, Collaboration!CollaboratorTypeOK
<1>e. \A n \in Names : s9[n].read \in Nat
  BY <1>a DEF Collaboration!CollaboratorStatusSnapshot
<1>f. s9' = s9 => Collaboration!StatusNeverOlder
  BY <1>e DEF Collaboration!StatusNeverOlder
<1>g. \A p \in Collaboration!InstagramCollaboratorPoll : p.attempts \in Nat /\ p.claim \in Nat
  BY <1>a DEF Collaboration!InstagramCollaboratorPoll
<1>h. \A p \in Collaboration!PollRead : p.claim \in Nat \ {0} /\ p.claim \in 1..MaxAttempts /\ p.seen \in [Names -> Collaboration!CollaboratorStatusSnapshot]
  BY <1>a DEF Collaboration!PollRead
<1>1. CASE Collaboration!recoverMissingPolls
  <2> DEFINE opened == [status |-> "pending", attempts |-> 0, claim |-> 0, lease |-> FALSE, ttl |-> TRUE]
  <2>1. s8 = Nothing /\ s7 # Nothing /\ s8' = opened /\ UNCHANGED <<s9, s10>>
    BY <1>1 DEF Collaboration!recoverMissingPolls
  <2>2. opened \in Collaboration!InstagramCollaboratorPoll
    BY <1>a DEF Collaboration!InstagramCollaboratorPoll
  <2>3. opened.status = "pending" /\ opened.attempts = 0
    OBVIOUS
  <2>4. NoReads /\ \A w \in Pollers : s10[w] = Nothing
    BY <2>1 DEF Collaboration!CollaboratorInv, Collaboration!ClaimIsNewest, Collaboration!PollFollowsProof
  <2> HIDE DEF opened
  <2>5. Collaboration!PollFollowsProof' /\ Collaboration!ReadsAreOfTheClaim' /\ Collaboration!ClaimIsNewest'
        /\ Collaboration!CompleteIsAccepted'
    BY <1>b, <2>1, <2>3, <2>4 DEF Collaboration!CollaboratorInv, Collaboration!PollFollowsProof,
         Collaboration!ReadsAreOfTheClaim, Collaboration!ClaimIsNewest, Collaboration!CompleteIsAccepted
  <2> QED BY <1>a, <1>c, <1>d, <1>f, <2>1, <2>2, <2>5 DEF Collaboration!CollaboratorInv
<1>2. CASE Collaboration!pollTimePasses
  <2>1. /\ s8 # Nothing /\ UNCHANGED <<s9, s10>>
        /\ s8' = [s8 EXCEPT !.lease = FALSE] \/ s8' = [s8 EXCEPT !.lease = FALSE, !.ttl = FALSE]
    BY <1>2 DEF Collaboration!pollTimePasses
  <2>2. /\ s8' \in Collaboration!InstagramCollaboratorPoll /\ s8'.status = s8.status /\ s8'.claim = s8.claim
        /\ s8'.attempts = s8.attempts
    BY <1>a, <2>1 DEF Collaboration!InstagramCollaboratorPoll
  <2>3. Collaboration!PollFollowsProof' /\ Collaboration!ReadsAreOfTheClaim' /\ Collaboration!ClaimIsNewest'
        /\ Collaboration!CompleteIsAccepted'
    BY <1>a, <1>b, <2>1, <2>2 DEF Collaboration!CollaboratorInv, Collaboration!PollFollowsProof,
         Collaboration!ReadsAreOfTheClaim, Collaboration!ClaimIsNewest, Collaboration!CompleteIsAccepted
  <2> QED BY <1>a, <1>c, <1>d, <1>f, <2>1, <2>2, <2>3 DEF Collaboration!CollaboratorInv
<1>3. ASSUME NEW w \in Pollers, Collaboration!claimDuePolls(w) PROVE Collaboration!CollaboratorInv' /\ s9' = s9
  <2> DEFINE next == Collaboration!nextRead
             p == [claim |-> next, read |-> "none", seen |-> s9]
             claimed == [s8 EXCEPT !.status = "processing", !.attempts = next, !.claim = next, !.lease = TRUE]
  <2>1. /\ s8 # Nothing /\ s8.attempts < MaxAttempts /\ s9' = s9 /\ s8' = claimed
        /\ s10' = [s10 EXCEPT ![w] = p]
    BY <1>3 DEF Collaboration!claimDuePolls
  <2>2. next \in 1..MaxAttempts /\ next \in Nat /\ next = s8.attempts + 1 /\ s8.attempts \in Nat
    BY <1>a, <1>g, <2>1 DEF Collaboration!nextRead
  <2> HIDE DEF next
  <2>3. /\ claimed \in Collaboration!InstagramCollaboratorPoll /\ claimed.status = "processing"
        /\ claimed.attempts = next /\ claimed.claim = next
    <3> DEFINE Status == {"pending", "processing", "complete", "unavailable", "expired"}
    <3>1. s8 \in [status : Status, attempts : 0..MaxAttempts, claim : 0..MaxAttempts, lease : BOOLEAN, ttl : BOOLEAN]
      BY <1>a, <2>1 DEF Collaboration!InstagramCollaboratorPoll
    <3>2. "processing" \in Status /\ next \in 0..MaxAttempts
      BY <2>2
    <3> HIDE DEF Status
    <3>3. /\ claimed \in [status : Status, attempts : 0..MaxAttempts, claim : 0..MaxAttempts, lease : BOOLEAN, ttl : BOOLEAN]
          /\ claimed.status = "processing" /\ claimed.attempts = next /\ claimed.claim = next
      BY <3>1, <3>2, PollRow
    <3> QED BY <3>3 DEF Status, Collaboration!InstagramCollaboratorPoll
  <2>4. p \in Collaboration!PollRead /\ p.claim = next /\ p.read = "none"
    BY <1>a, <2>2 DEF Collaboration!PollRead
  <2> HIDE DEF claimed, p
  <2>5. \A n \in Names : s9[n].read < next /\ s9[n].read <= next
    BY <1>e, <2>1, <2>2 DEF Collaboration!CollaboratorInv, Collaboration!ClaimIsNewest
  <2>6. Collaboration!PollFollowsProof'
    <3>1. ASSUME NEW v \in Pollers, s10'[v] # Nothing PROVE s8' # Nothing /\ s10'[v].claim <= next
      <4>1. CASE v = w
        BY <1>a, <2>1, <2>2, <2>3, <2>4, <4>1
      <4>2. CASE v # w
        <5>1. s10'[v] = s10[v] /\ s10[v].claim <= s8.attempts /\ s10[v] \in Collaboration!PollRead
          BY <1>a, <2>1, <3>1, <4>2 DEF Collaboration!CollaboratorInv, Collaboration!PollFollowsProof
        <5> QED BY <1>a, <1>h, <2>1, <2>2, <2>3, <5>1
      <4> QED BY <4>1, <4>2
    <3> QED BY <1>b, <2>1, <2>3, <3>1 DEF Collaboration!CollaboratorInv, Collaboration!PollFollowsProof
  <2>7. Collaboration!ReadsAreOfTheClaim'
    BY <1>a, <1>b, <2>1, <2>4 DEF Collaboration!CollaboratorInv, Collaboration!ReadsAreOfTheClaim
  <2>8. Collaboration!ClaimIsNewest' /\ Collaboration!CompleteIsAccepted'
    BY <1>a, <1>b, <2>1, <2>2, <2>3, <2>5 DEF Collaboration!CollaboratorInv, Collaboration!ClaimIsNewest, Collaboration!CompleteIsAccepted
  <2>9. s10' \in [Pollers -> Collaboration!PollRead \cup {Nothing}]
    BY <1>a, <2>1, <2>4
  <2> QED BY <1>a, <1>c, <1>d, <2>1, <2>3, <2>6, <2>7, <2>8, <2>9 DEF Collaboration!CollaboratorInv
<1>4. ASSUME NEW w \in Pollers, Collaboration!readCollaboratorStatuses(w) PROVE Collaboration!CollaboratorInv' /\ s9' = s9
  <2> DEFINE found == [n \in Names |-> IF s6[n] \in {"accepted", "pending"} THEN s6[n] ELSE "not_returned"]
             unavailable == [n \in Names |-> "unavailable"]
             seen(s) == [n \in Names |-> IF n \in s7.names THEN [status |-> s[n], read |-> s10[w].claim] ELSE s9[n]]
             Result(s, r) == [claim |-> s10[w].claim, read |-> r, seen |-> seen(s)]
  <2>1. /\ s10[w] # Nothing /\ UNCHANGED <<s8, s9>>
        /\ \E r \in {"complete", "retry", "stop"}, s \in {found, unavailable} : s10' = [s10 EXCEPT ![w] = Result(s, r)]
    BY <1>4 DEF Collaboration!readCollaboratorStatuses
  <2>2. PICK r \in {"complete", "retry", "stop"}, s \in {found, unavailable} : s10' = [s10 EXCEPT ![w] = Result(s, r)]
    BY <2>1
  <2>3. /\ s10[w] \in Collaboration!PollRead /\ s10[w].claim \in 1..MaxAttempts /\ s10[w].claim \in 0..MaxAttempts
        /\ s7 # Nothing /\ s8 # Nothing /\ s10[w].claim <= s8.attempts
    BY <1>a, <1>h, <2>1 DEF Collaboration!CollaboratorInv, Collaboration!PollFollowsProof
  <2>4. \A n \in Names : s[n] \in {"pending", "accepted", "not_returned", "unavailable"} /\ (s[n] = "accepted" => s6[n] = "accepted")
    BY <1>a
  <2> HIDE DEF found, unavailable
  <2>5. \A n \in Names : IF n \in s7.names
                         THEN seen(s)[n] = [status |-> s[n], read |-> s10[w].claim]
                         ELSE seen(s)[n] = s9[n]
    OBVIOUS
  <2>6. seen(s) \in [Names -> Collaboration!CollaboratorStatusSnapshot]
    <3>1. \A n \in Names : [status |-> s[n], read |-> s10[w].claim] \in Collaboration!CollaboratorStatusSnapshot
      BY <2>3, <2>4 DEF Collaboration!CollaboratorStatusSnapshot
    <3> QED BY <1>a, <3>1
  <2>7. \A n \in Names : IF n \in s7.names
                         THEN seen(s)[n].read = s10[w].claim /\ (seen(s)[n].status = "accepted" => s6[n] = "accepted")
                         ELSE seen(s)[n].read = 0
    <3>1. \A n \in Names : n \notin s7.names => s9[n].read = 0
      BY DEF Collaboration!CollaboratorInv, Collaboration!ClaimIsNewest
    <3> HIDE DEF seen
    <3>2. ASSUME NEW n \in Names, n \in s7.names
          PROVE  seen(s)[n].read = s10[w].claim /\ (seen(s)[n].status = "accepted" => s6[n] = "accepted")
      <4>1. seen(s)[n] = [status |-> s[n], read |-> s10[w].claim]
        BY <2>5, <3>2
      <4>2. seen(s)[n].read = s10[w].claim /\ seen(s)[n].status = s[n]
        BY <4>1
      <4> QED BY <2>4, <4>2
    <3>3. ASSUME NEW n \in Names, n \notin s7.names PROVE seen(s)[n].read = 0
      <4>1. seen(s)[n] = s9[n]
        BY <2>5, <3>3
      <4> QED BY <3>1, <3>3, <4>1
    <3> QED BY <3>2, <3>3
  <2> DEFINE seenNow == seen(s)
             result == [claim |-> s10[w].claim, read |-> r, seen |-> seenNow]
  <2>8. s10' = [s10 EXCEPT ![w] = result]
    BY <2>2
  <2> HIDE DEF seenNow
  <2>9. result \in Collaboration!PollRead /\ result.claim = s10[w].claim /\ result.seen = seenNow
    BY <2>3, <2>6 DEF Collaboration!PollRead, seenNow
  <2> HIDE DEF result
  <2>10. s10' \in [Pollers -> Collaboration!PollRead \cup {Nothing}]
    BY <1>a, <2>8, <2>9
  <2>11. Collaboration!PollFollowsProof'
    BY <1>a, <1>b, <2>1, <2>3, <2>8, <2>9 DEF Collaboration!CollaboratorInv, Collaboration!PollFollowsProof
  <2>12. Collaboration!ReadsAreOfTheClaim'
    <3>1. ASSUME NEW v \in Pollers, s10'[v] # Nothing, s10'[v].read # "none", NEW n \in Names
          PROVE  IF n \in s7.names
                 THEN s10'[v].seen[n].read = s10'[v].claim /\ (s10'[v].seen[n].status = "accepted" => s6[n] = "accepted")
                 ELSE s10'[v].seen[n].read = 0
      <4>1. CASE v = w
        BY <1>a, <2>7, <2>8, <2>9, <4>1 DEF seenNow
      <4>2. CASE v # w
        BY <1>a, <2>8, <3>1, <4>2 DEF Collaboration!CollaboratorInv, Collaboration!ReadsAreOfTheClaim
      <4> QED BY <4>1, <4>2
    <3> QED BY <1>b, <3>1 DEF Collaboration!ReadsAreOfTheClaim
  <2>13. Collaboration!ClaimIsNewest' /\ Collaboration!CompleteIsAccepted'
    BY <1>b, <2>1 DEF Collaboration!CollaboratorInv, Collaboration!ClaimIsNewest, Collaboration!CompleteIsAccepted
  <2> QED BY <1>a, <1>c, <1>d, <2>1, <2>10, <2>11, <2>12, <2>13 DEF Collaboration!CollaboratorInv
<1>5. ASSUME NEW w \in Pollers, s10' = [s10 EXCEPT ![w] = Nothing], UNCHANGED <<s8, s9>>
      PROVE  Collaboration!CollaboratorInv'
  <2>1. s10' \in [Pollers -> Collaboration!PollRead \cup {Nothing}] /\ \A v \in Pollers : s10'[v] # Nothing => s10'[v] = s10[v]
    BY <1>a, <1>5
  <2>2. Collaboration!PollFollowsProof' /\ Collaboration!ReadsAreOfTheClaim'
    BY <1>b, <1>5, <2>1 DEF Collaboration!CollaboratorInv, Collaboration!PollFollowsProof, Collaboration!ReadsAreOfTheClaim
  <2>3. Collaboration!ClaimIsNewest' /\ Collaboration!CompleteIsAccepted'
    BY <1>b, <1>5 DEF Collaboration!CollaboratorInv, Collaboration!ClaimIsNewest, Collaboration!CompleteIsAccepted
  <2> QED BY <1>a, <1>c, <1>d, <1>5, <2>1, <2>2, <2>3 DEF Collaboration!CollaboratorInv
<1>6. ASSUME NEW w \in Pollers, Collaboration!recordPollResult(w)
      PROVE  Collaboration!CollaboratorInv' /\ Collaboration!StatusNeverOlder
  <2> DEFINE p == s10[w]
             complete == Collaboration!decideInstagramCollaboratorPoll(p)
             expired == ~complete /\ (p.read = "stop" \/ s8.attempts >= MaxAttempts \/ ~s8.ttl)
             status == IF complete THEN "complete" ELSE IF expired THEN "expired" ELSE IF p.read = "complete" THEN "pending" ELSE "unavailable"
             recorded == [s8 EXCEPT !.status = status, !.claim = 0, !.lease = FALSE]
  <2>1. p # Nothing /\ p.read # "none" /\ s10' = [s10 EXCEPT ![w] = Nothing]
    BY <1>6 DEF Collaboration!recordPollResult
  <2>2. CASE ~ Collaboration!holdsPoll(p)
    <3>1. UNCHANGED <<s8, s9>>
      BY <1>6, <2>2 DEF Collaboration!recordPollResult
    <3> QED BY <1>5, <1>f, <2>1, <3>1
  <2>3. CASE Collaboration!holdsPoll(p)
    <3>1. s8' = recorded /\ s9' = p.seen
      BY <1>6, <2>3 DEF Collaboration!recordPollResult
    <3>2. /\ s8 # Nothing /\ s8 \in Collaboration!InstagramCollaboratorPoll /\ p \in Collaboration!PollRead
          /\ p.claim = s8.attempts /\ s8.claim = p.claim /\ s8.attempts \in Nat
          /\ \A n \in Names : s9[n].read < p.claim
          /\ s7 # Nothing
      BY <1>a, <1>g, <2>1, <2>3 DEF Collaboration!holdsPoll, Collaboration!CollaboratorInv, Collaboration!PollFollowsProof,
           Collaboration!ClaimIsNewest
    <3>3. status \in {"complete", "expired", "pending", "unavailable"} /\ (status = "complete" => complete)
      OBVIOUS
    <3> HIDE DEF status
    <3>4. /\ recorded \in Collaboration!InstagramCollaboratorPoll /\ recorded.attempts = s8.attempts
          /\ recorded.status = status
      <4> DEFINE Status == {"pending", "processing", "complete", "unavailable", "expired"}
      <4>1. s8 \in [status : Status, attempts : 0..MaxAttempts, claim : 0..MaxAttempts, lease : BOOLEAN, ttl : BOOLEAN]
        BY <3>2 DEF Collaboration!InstagramCollaboratorPoll
      <4>2. status \in Status /\ 0 \in 0..MaxAttempts
        BY <1>a, <3>3
      <4> HIDE DEF Status
      <4>3. /\ recorded \in [status : Status, attempts : 0..MaxAttempts, claim : 0..MaxAttempts, lease : BOOLEAN, ttl : BOOLEAN]
            /\ recorded.status = status /\ recorded.attempts = s8.attempts
        BY <4>1, <4>2, PollRow
      <4> QED BY <4>3 DEF Status, Collaboration!InstagramCollaboratorPoll
    <3> HIDE DEF recorded
    <3>5. /\ p.seen \in [Names -> Collaboration!CollaboratorStatusSnapshot]
          /\ \A n \in Names : IF n \in s7.names
                              THEN p.seen[n].read = p.claim /\ (p.seen[n].status = "accepted" => s6[n] = "accepted")
                              ELSE p.seen[n].read = 0
      BY <1>h, <2>1, <3>2 DEF Collaboration!CollaboratorInv, Collaboration!ReadsAreOfTheClaim
    <3>6. \A n \in Names : p.seen[n].read <= s8.attempts /\ p.seen[n].read \in Nat
      BY <3>2, <3>5
    <3>7. Collaboration!StatusNeverOlder
      <4>1. \A n \in Names : n \notin s7.names => s9[n].read = 0
        BY DEF Collaboration!CollaboratorInv, Collaboration!ClaimIsNewest
      <4> HIDE DEF p
      <4> QED BY <1>e, <3>1, <3>2, <3>5, <4>1 DEF Collaboration!StatusNeverOlder
    <3>8. \A v \in Pollers : s10'[v] # Nothing => s10'[v] = s10[v]
      BY <1>a, <2>1
    <3>9. Collaboration!PollFollowsProof'
      <4> HIDE DEF p
      <4> QED BY <1>a, <1>b, <3>1, <3>2, <3>4, <3>8 DEF Collaboration!CollaboratorInv, Collaboration!PollFollowsProof
    <3>10. Collaboration!ReadsAreOfTheClaim'
      BY <1>b, <3>8 DEF Collaboration!CollaboratorInv, Collaboration!ReadsAreOfTheClaim
    <3>11. Collaboration!ClaimIsNewest'
      <4>1. status # "processing"
        BY <3>3
      <4> HIDE DEF p
      <4> QED BY <1>a, <1>b, <3>1, <3>2, <3>4, <3>5, <3>6, <4>1 DEF Collaboration!CollaboratorInv, Collaboration!ClaimIsNewest
    <3>12. Collaboration!CompleteIsAccepted'
      <4>1. s7.names \subseteq Names
        BY <1>a, <3>2 DEF Collaboration!CollaboratorInviteProof
      <4>2. status = "complete" => \A n \in s7.names : p.seen[n].status = "accepted"
        BY <3>3 DEF Collaboration!decideInstagramCollaboratorPoll
      <4> HIDE DEF p
      <4> QED BY <1>b, <3>1, <3>4, <3>5, <4>1, <4>2 DEF Collaboration!CompleteIsAccepted
    <3>13. PollOK(s8') /\ s9' \in [Names -> Collaboration!CollaboratorStatusSnapshot]
           /\ s10' \in [Pollers -> Collaboration!PollRead \cup {Nothing}]
      BY <1>a, <2>1, <3>1, <3>4, <3>5
    <3> QED BY <1>c, <1>d, <3>7, <3>9, <3>10, <3>11, <3>12, <3>13 DEF Collaboration!CollaboratorInv
  <2> QED BY <2>2, <2>3
<1>7. ASSUME NEW w \in Pollers, Collaboration!pollerStops(w) PROVE Collaboration!CollaboratorInv' /\ s9' = s9
  BY <1>5, <1>7 DEF Collaboration!pollerStops
<1> QED BY <1>1, <1>2, <1>3, <1>4, <1>6, <1>7, <1>f

\* Every step keeps the invariant, and no status is replaced by an older read.
LEMMA CollaborationNext ==
  Collaboration!CollaboratorInv /\ Collaboration!CollaboratorNext
    => Collaboration!CollaboratorInv' /\ Collaboration!StatusNeverOlder
<1> SUFFICES ASSUME Collaboration!CollaboratorInv, Collaboration!CollaboratorNext
             PROVE  Collaboration!CollaboratorInv' /\ Collaboration!StatusNeverOlder
  OBVIOUS
<1>1. s9' = s9 => Collaboration!StatusNeverOlder
  <2>1. s9 \in [Names -> Collaboration!CollaboratorStatusSnapshot]
    BY DEF Collaboration!CollaboratorInv, Collaboration!CollaboratorTypeOK
  <2>2. \A n \in Names : s9[n].read \in Nat
    BY <2>1, CollaborationAssumption DEF Collaboration!CollaboratorStatusSnapshot
  <2> QED BY <2>2 DEF Collaboration!StatusNeverOlder
<1> QED BY <1>1, CollaborationPeople, CollaborationPublishes, CollaborationPolls DEF Collaboration!CollaboratorNext

-----------------------------------------------------------------------------
(* The components together. *)

\* The invariant of the component that Init chooses holds.
LEMMA InitInv == Init => Inv
<1> SUFFICES ASSUME Init PROVE Inv
  OBVIOUS
<1>1. CASE component = "facebook" /\ Publish!FacebookInit
  BY <1>1, Publish!FacebookInitIInv, ActorsAssumption DEF Inv
<1>2. CASE component = "youtube" /\ Publish!YouTubeInit
  BY <1>2, Publish!YouTubeInitIInv, ActorsAssumption DEF Inv
<1>3. CASE component = "collaborators" /\ Collaboration!CollaboratorInit
  BY <1>3, CollaborationInit DEF Inv
<1>4. CASE component = "first comment" /\ Comment!FirstCommentInit
  BY <1>4, CommentInit DEF Inv
<1>5. CASE component = "correction" /\ Correction!RemoteCorrectionInit
  BY <1>5, CorrectionInit DEF Inv
<1> QED BY <1>1, <1>2, <1>3, <1>4, <1>5 DEF Init

\* What the properties say is part of the invariant, or follows from it.
LEMMA InvImplies ==
  Inv => TypesOK /\ OnePostPerTarget /\ RecordsAreTrue /\ ReviewsAreResolvable /\ WritesArePermitted
<1>1. component = "facebook" /\ Inv =>
        Publish!FacebookTypeOK /\ Publish!AtMostOnePost /\ Publish!ProofIsLive /\ Publish!ReviewIsResolvable
  BY Publish!FacebookIInvImplies, ActorsAssumption DEF Inv
<1>2. component = "youtube" /\ Inv =>
        Publish!YouTubeTypeOK /\ Publish!AtMostOneVideo /\ Publish!SavedVideoIsLive /\ Publish!ReviewIsResolvable
  BY Publish!YouTubeIInvImplies, ActorsAssumption DEF Inv
<1>3. component = "collaborators" /\ Inv =>
        Collaboration!CollaboratorTypeOK /\ Collaboration!CompleteIsAccepted /\ Collaboration!PublishedSettingsWereApproved
  BY DEF Inv, Collaboration!CollaboratorInv, Collaboration!BoundToApproval
<1>4. component = "first comment" /\ Inv =>
        Comment!FirstCommentTypeOK /\ Comment!ProofMatchesPlatform /\ Comment!CommentedAsGranted
  BY CommentNext DEF Inv, Comment!FirstCommentInv
<1>5. component = "correction" /\ Inv =>
        /\ Correction!RemoteCorrectionTypeOK /\ Correction!ProofsAreChained /\ Correction!ResolvedHasOneProof
        /\ Correction!MutatedOnce
  BY DEF Inv, Correction!RemoteCorrectionInv, Correction!UnwrittenUntilFinalizing
<1> QED BY <1>1, <1>2, <1>3, <1>4, <1>5 DEF TypesOK, OnePostPerTarget, RecordsAreTrue, ReviewsAreResolvable, WritesArePermitted

\* A step of the component that runs keeps its invariant and moves nothing that is settled.
LEMMA NextInv == Inv /\ Next => Inv' /\ SettledStep
<1> SUFFICES ASSUME Inv, Next PROVE Inv' /\ SettledStep
  OBVIOUS
<1>1. CASE FacebookSteps
  <2>1. component = "facebook" /\ component' = "facebook" /\ Publish!FacebookIInv /\ Publish!FacebookNext
    BY <1>1 DEF FacebookSteps, Inv
  <2>2. Publish!FacebookIInv' /\ Publish!FacebookPublishedIsFinal
    BY <2>1, Publish!FacebookNextKeepsIInv, Publish!PublishedStepIsFinal, ActorsAssumption
  <2> QED BY <2>1, <2>2 DEF Inv, SettledStep
<1>2. CASE YouTubeSteps
  <2>1. component = "youtube" /\ component' = "youtube" /\ Publish!YouTubeIInv /\ Publish!YouTubeNext
    BY <1>2 DEF YouTubeSteps, Inv
  <2>2. Publish!YouTubeIInv' /\ Publish!SavedVideoStays
    BY <2>1, Publish!YouTubeNextKeepsIInv, Publish!SavedVideoStepStays, ActorsAssumption
  <2> QED BY <2>1, <2>2 DEF Inv, SettledStep
<1>3. CASE CollaborationSteps
  <2>1. component = "collaborators" /\ component' = "collaborators"
        /\ Collaboration!CollaboratorInv' /\ Collaboration!StatusNeverOlder
    BY <1>3, CollaborationNext DEF CollaborationSteps, Inv
  <2> QED BY <2>1 DEF Inv, SettledStep
<1>4. CASE FirstCommentSteps
  <2>1. component = "first comment" /\ component' = "first comment" /\ Comment!FirstCommentInv'
    BY <1>4, CommentNext DEF FirstCommentSteps, Inv
  <2> QED BY <2>1 DEF Inv, SettledStep
<1>5. CASE CorrectionSteps
  <2>1. component = "correction" /\ component' = "correction" /\ Correction!RemoteCorrectionInv'
    BY <1>5, CorrectionNext DEF CorrectionSteps, Inv
  <2> QED BY <2>1 DEF Inv, SettledStep
<1> QED BY <1>1, <1>2, <1>3, <1>4, <1>5 DEF Next

\* Where nothing changes every invariant stays.
LEMMA StutterInv == Inv /\ UNCHANGED vars => Inv'
<1> SUFFICES ASSUME Inv, UNCHANGED vars PROVE Inv'
  OBVIOUS
<1> USE DEF vars
<1>1. Publish!FacebookIInv => Publish!FacebookIInv'
  BY Publish!FacebookNextKeepsIInv, ActorsAssumption DEF Publish!vars
<1>2. Publish!YouTubeIInv => Publish!YouTubeIInv'
  BY Publish!YouTubeNextKeepsIInv, ActorsAssumption DEF Publish!vars
<1>3. Collaboration!CollaboratorInv => Collaboration!CollaboratorInv'
  BY DEF Collaboration!CollaboratorInv, Collaboration!CollaboratorTypeOK, Collaboration!BoundToApproval,
       Collaboration!PublishedSettingsWereApproved, Collaboration!PollFollowsProof, Collaboration!ReadsAreOfTheClaim,
       Collaboration!ClaimIsNewest, Collaboration!CompleteIsAccepted
<1>4. Comment!FirstCommentInv => Comment!FirstCommentInv'
  BY DEF Comment!FirstCommentInv, Comment!FirstCommentTypeOK, Comment!PermissionsAreCounted, Comment!Writers, Comment!Waiting,
       Comment!MayWrite
<1>5. Correction!RemoteCorrectionInv => Correction!RemoteCorrectionInv'
  <2>1. Correction!RemoteCorrectionInv => Correction!RemoteCorrectionTypeOK'
    BY DEF Correction!RemoteCorrectionInv, Correction!RemoteCorrectionTypeOK
  <2> QED BY <2>1, QuietKeeps DEF Quiet
<1> QED BY <1>1, <1>2, <1>3, <1>4, <1>5 DEF Inv

\* The state variables of every component of one post's life have their types, whatever their sets of runs, operators,
\* names, intents and corrections.
THEOREM PublishingTypes == Spec => []TypesOK
<1>1. Inv /\ [Next]_vars => Inv'
  BY NextInv, StutterInv
<1> QED BY <1>1, InitInv, InvImplies, PTL DEF Spec

\* At most one post or video of a target is live, after any number of runs, crashes, retries and operators.
THEOREM PublishingOnePost == Spec => []OnePostPerTarget
<1>1. Inv /\ [Next]_vars => Inv'
  BY NextInv, StutterInv
<1> QED BY <1>1, InitInv, InvImplies, PTL DEF Spec

\* What the store records of the platform is true of it: proofs, identifiers, the removal chain and complete polls.
THEOREM PublishingRecords == Spec => []RecordsAreTrue
<1>1. Inv /\ [Next]_vars => Inv'
  BY NextInv, StutterInv
<1> QED BY <1>1, InitInv, InvImplies, PTL DEF Spec

\* A target that waits for a person can be resolved by one.
THEOREM PublishingReviews == Spec => []ReviewsAreResolvable
<1>1. Inv /\ [Next]_vars => Inv'
  BY NextInv, StutterInv
<1> QED BY <1>1, InitInv, InvImplies, PTL DEF Spec

\* The platform is written to only with a person's permission, once for each.
THEOREM PublishingPermissions == Spec => []WritesArePermitted
<1>1. Inv /\ [Next]_vars => Inv'
  BY NextInv, StutterInv
<1> QED BY <1>1, InitInv, InvImplies, PTL DEF Spec

\* No late run moves what is settled.
THEOREM PublishingSettled == Spec => SettledPostsStay
<1>1. Inv /\ [Next]_vars => Inv'
  BY NextInv, StutterInv
<1>2. Inv /\ [Next]_vars => [SettledStep]_vars
  BY NextInv
<1> QED BY <1>1, <1>2, InitInv, PTL DEF Spec, SettledPostsStay
=============================================================================
