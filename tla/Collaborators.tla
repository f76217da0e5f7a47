---------------------------- MODULE Collaborators ----------------------------
(***************************************************************************)
(* Inviting Instagram collaborators: settings are prepared for one draft   *)
(* and the connected account, approved by a person, bound to the target,   *)
(* checked again when the container is made, and the invitations are       *)
(* followed by leased polls until all are accepted or the budget is spent. *)
(* Digests are the values they are digests of.                             *)
(***************************************************************************)
EXTENDS Naturals, FiniteSets

CONSTANTS Typed,        \* user names as a person types them
          Names,        \* Instagram accounts
          Normal,       \* the account a typed name means; a value outside Names when it is malformed
          Drafts, FormatOf,   \* drafts, and the format of each
          Candidates, Pollers, Nothing,
          MaxAttempts   \* reads that one poll may spend

VARIABLES account,      \* the connection: who publishes, through which login, probed or not
          candidates, approvals, target,
          container,    \* what Instagram was asked to create
          invites,      \* the provider's side of the invitations
          proof, poll, snapshots, pollers

collaboratorVars == <<account, candidates, approvals, target, container, invites, proof, poll, snapshots, pollers>>

instagramCollaboratorLimit == 3

Account == [username : Names, mode : {"instagram_login", "facebook_login"}, probed : BOOLEAN]

InstagramPublishSettings == [collaborators : SUBSET Names, cover : BOOLEAN, ai : BOOLEAN]

InstagramPublishApprovalBinding == [draft : Drafts, settings : InstagramPublishSettings]

InstagramCollaboratorCandidate == [draft : Drafts, username : Names, settings : InstagramPublishSettings,
                                   status : {"pending_approval", "approved"}]

Target == [draft : Drafts, settings : InstagramPublishSettings, status : {"queued", "published", "review"}]

CollaboratorInviteProof == [requestState : {"not_requested", "requested_unverified"}, names : SUBSET Names]

InstagramCollaboratorPoll == [status : {"pending", "processing", "complete", "unavailable", "expired"},
                              attempts : 0..MaxAttempts, claim : 0..MaxAttempts, lease : BOOLEAN, ttl : BOOLEAN]

\* A status, and the read that it comes from.
CollaboratorStatusSnapshot == [status : {"none", "pending", "accepted", "not_returned", "unavailable"}, read : 0..MaxAttempts]

PollRead == [claim : 1..MaxAttempts, read : {"none", "complete", "retry", "stop"}, seen : [Names -> CollaboratorStatusSnapshot]]

CollaboratorTypeOK ==
  /\ account \in Account /\ candidates \in [Candidates -> InstagramCollaboratorCandidate \cup {Nothing}]
  /\ approvals \subseteq InstagramPublishApprovalBinding
  /\ target \in Target \cup {Nothing}
  /\ container = Nothing \/ container \in [draft : Drafts, settings : InstagramPublishSettings, by : Names]
  /\ invites \in [Names -> {"no", "pending", "accepted", "declined"}]
  /\ proof \in CollaboratorInviteProof \cup {Nothing} /\ poll \in InstagramCollaboratorPoll \cup {Nothing}
  /\ snapshots \in [Names -> CollaboratorStatusSnapshot] /\ pollers \in [Pollers -> PollRead \cup {Nothing}]

CollaboratorInit ==
  /\ account \in [username : Names, mode : {"facebook_login"}, probed : {TRUE}]
  /\ candidates = [c \in Candidates |-> Nothing] /\ approvals = {}
  /\ target = Nothing /\ container = Nothing /\ proof = Nothing /\ poll = Nothing
  /\ invites = [n \in Names |-> "no"] /\ snapshots = [n \in Names |-> [status |-> "none", read |-> 0]]
  /\ pollers = [w \in Pollers |-> Nothing]

-----------------------------------------------------------------------------
(* Settings and what they are checked against. *)

Refused == {"refused"}   \* not a set of names

\* Malformed names, too many of them and the publisher's own are refused; spellings of one name are one invitation.
normalizeInstagramCollaborators(typed, publisher) ==
  LET names == {Normal[t] : t \in typed} IN
    IF Cardinality(typed) > instagramCollaboratorLimit \/ ~ (names \subseteq Names) \/ publisher \in names THEN Refused ELSE names

instagramCollaboratorCapability(a) == a.mode = "facebook_login" /\ a.probed

assertInstagramCollaboratorFormat(draft, names) == names # {} => FormatOf[draft] \in {"image", "carousel", "reel"}

assertInstagramReelCoverForDraft(draft, settings) == settings.cover => FormatOf[draft] = "reel"

\* A Story takes the disclosure choice and nothing else.
assertInstagramStorySettings(draft, settings) ==
  FormatOf[draft] = "story" => settings.collaborators = {} /\ ~settings.cover

assertApprovedInstagramPublishSettings(settings, publisher) == publisher \notin settings.collaborators

assertInstagramPublishApprovalBinding(binding, draft, settings) == binding.draft = draft /\ binding.settings = settings

NeedsApproval(settings) == settings.collaborators # {} \/ settings.cover \/ settings.ai

collaboratorInviteProof(settings) ==
  [requestState |-> IF settings.collaborators = {} THEN "not_requested" ELSE "requested_unverified", names |-> settings.collaborators]

-----------------------------------------------------------------------------
\* A person connects the account again: another user name, another login, or a probe that is no longer valid.
reconnect(a) ==
  /\ a # account /\ account' = a
  /\ UNCHANGED <<candidates, approvals, target, container, invites, proof, poll, snapshots, pollers>>

createCandidate(c, draft, typed, cover, ai) ==
  LET names == normalizeInstagramCollaborators(typed, account.username)
      settings == [collaborators |-> names, cover |-> cover, ai |-> ai] IN
    /\ candidates[c] = Nothing /\ names # Refused
    /\ (typed # {} => instagramCollaboratorCapability(account)) /\ assertInstagramReelCoverForDraft(draft, settings)
    /\ candidates' = [candidates EXCEPT ![c] =
         [draft |-> draft, username |-> account.username, settings |-> settings, status |-> "pending_approval"]]
    /\ UNCHANGED <<account, approvals, target, container, invites, proof, poll, snapshots, pollers>>

\* The approval of the settings, in the item and on the candidate in one transaction.
commitCandidateApproval(c) ==
  /\ candidates' = [candidates EXCEPT ![c].status = "approved"]
  /\ approvals' = approvals \cup {[draft |-> candidates[c].draft, settings |-> candidates[c].settings]}

\* A person approves what was prepared, when the draft, the publisher and the login are what they were then.
approveCandidate(c) ==
  LET k == candidates[c] IN
    /\ k # Nothing /\ k.status = "pending_approval"
    /\ (k.settings.collaborators # {} => instagramCollaboratorCapability(account)) /\ k.username = account.username
    /\ assertInstagramCollaboratorFormat(k.draft, k.settings.collaborators) /\ NeedsApproval(k.settings)
    /\ commitCandidateApproval(c)
    /\ UNCHANGED <<account, target, container, invites, proof, poll, snapshots, pollers>>

\* Mutant: the approved candidate is looked up by its item only.
scheduleAnyDraft(c, draft) ==
  /\ target = Nothing /\ candidates[c] # Nothing /\ candidates[c].status = "approved"
  /\ target' = [draft |-> draft, settings |-> candidates[c].settings, status |-> "queued"]
  /\ UNCHANGED <<account, candidates, approvals, container, invites, proof, poll, snapshots, pollers>>

\* The target takes its settings from the approved candidate of this draft; the binding is found among the item's approvals.
scheduleTarget(c, draft) ==
  LET k == candidates[c] IN
    /\ target = Nothing /\ k # Nothing /\ k.status = "approved" /\ k.draft = draft
    /\ \E b \in approvals : assertInstagramPublishApprovalBinding(b, draft, k.settings)
    /\ assertInstagramStorySettings(draft, k.settings)
    /\ target' = [draft |-> draft, settings |-> k.settings, status |-> "queued"]
    /\ UNCHANGED <<account, candidates, approvals, container, invites, proof, poll, snapshots, pollers>>

\* Mutant: the user name of the credential is not given to the check.
credentialOfAnyone(settings) == settings.collaborators # {} => instagramCollaboratorCapability(account)

\* The credential that publishes: its login, and its user name is none of the invited ones.
assertCollaboratorCredential(settings) ==
  /\ assertApprovedInstagramPublishSettings(settings, account.username)
  /\ settings.collaborators # {} => instagramCollaboratorCapability(account)

\* The worker makes the container: the credential's login and user name are checked now; a refusal leaves the target to a person.
createOperation ==
  /\ target # Nothing /\ target.status = "queued" /\ container = Nothing
  /\ IF assertCollaboratorCredential(target.settings)
       THEN /\ container' = [draft |-> target.draft, settings |-> target.settings, by |-> account.username]
            /\ UNCHANGED target
       ELSE target' = [target EXCEPT !.status = "review"] /\ UNCHANGED container
  /\ UNCHANGED <<account, candidates, approvals, invites, proof, poll, snapshots, pollers>>

\* The media is published and its invitations sent; the proof holds them.  A refusal or an unclear answer leaves no proof.
finalizeOperation ==
  /\ container # Nothing /\ target.status = "queued"
  /\ \/ /\ assertCollaboratorCredential(target.settings)
        /\ invites' = [n \in Names |-> IF n \in container.settings.collaborators THEN "pending" ELSE invites[n]]
        /\ proof' = collaboratorInviteProof(container.settings) /\ target' = [target EXCEPT !.status = "published"]
     \/ target' = [target EXCEPT !.status = "review"] /\ UNCHANGED <<invites, proof>>
  /\ UNCHANGED <<account, candidates, approvals, container, poll, snapshots, pollers>>

\* An invited account answers.
answer(n) ==
  /\ invites[n] = "pending" /\ \E s \in {"accepted", "declined"} : invites' = [invites EXCEPT ![n] = s]
  /\ UNCHANGED <<account, candidates, approvals, target, container, proof, poll, snapshots, pollers>>

-----------------------------------------------------------------------------
(* Following the invitations. *)

\* After the proof is saved, by the recovery if the worker stopped there: a poll for a published target with this proof.
recoverMissingPolls ==
  /\ poll = Nothing /\ proof # Nothing /\ proof.requestState = "requested_unverified"
  /\ target.status = "published" /\ target.settings.collaborators = proof.names
  /\ poll' = [status |-> "pending", attempts |-> 0, claim |-> 0, lease |-> FALSE, ttl |-> TRUE]
  /\ UNCHANGED <<account, candidates, approvals, target, container, invites, proof, snapshots, pollers>>

\* A lease runs out, or the poll's seven days do.
pollTimePasses ==
  /\ poll # Nothing /\ (poll.lease \/ poll.ttl)
  /\ poll' \in {[poll EXCEPT !.lease = FALSE], [poll EXCEPT !.lease = FALSE, !.ttl = FALSE]}
  /\ UNCHANGED <<account, candidates, approvals, target, container, invites, proof, snapshots, pollers>>

\* The number of the read that a claim of the poll is for.
nextRead == poll.attempts + 1

claimDuePolls(w) ==
  /\ pollers[w] = Nothing /\ poll # Nothing /\ poll.status \in {"pending", "processing", "unavailable"}
  /\ poll.ttl /\ poll.attempts < MaxAttempts /\ ~poll.lease
  /\ poll' = [poll EXCEPT !.status = "processing", !.attempts = nextRead, !.claim = nextRead, !.lease = TRUE]
  /\ pollers' = [pollers EXCEPT ![w] = [claim |-> nextRead, read |-> "none", seen |-> snapshots]]
  /\ UNCHANGED <<account, candidates, approvals, target, container, invites, proof, snapshots>>

\* A complete answer has one status for every invited name; any other answer says nothing about them.
readCollaboratorStatuses(w) ==
  LET p == pollers[w]
      found == [n \in Names |-> IF invites[n] \in {"accepted", "pending"} THEN invites[n] ELSE "not_returned"]
      unavailable == [n \in Names |-> "unavailable"]
      seen(s) == [n \in Names |-> IF n \in proof.names THEN [status |-> s[n], read |-> p.claim] ELSE snapshots[n]] IN
    /\ p # Nothing /\ p.read = "none"
    /\ \/ /\ instagramCollaboratorCapability(account)
          /\ pollers' = [pollers EXCEPT ![w] = [claim |-> p.claim, read |-> "complete", seen |-> seen(found)]]
       \/ \E r \in {"retry", "stop"} :
            pollers' = [pollers EXCEPT ![w] = [claim |-> p.claim, read |-> r, seen |-> seen(unavailable)]]
    /\ UNCHANGED <<account, candidates, approvals, target, container, invites, proof, poll, snapshots>>

\* Mutant: a complete read is a complete workflow.
decideByRead(p) == p.read = "complete"

\* The workflow is complete when every invitation is accepted, not when the read is.
decideInstagramCollaboratorPoll(p) == p.read = "complete" /\ \A n \in proof.names : p.seen[n].status = "accepted"

\* Mutant: the poll is being processed, by whichever claim.
isProcessing(p) == poll.status = "processing" /\ poll.lease

\* The claim is the current one and its lease is live.
holdsPoll(p) == poll.status = "processing" /\ poll.claim = p.claim /\ poll.lease

\* The statuses and the poll's state are written together, by the claim that read them; otherwise the read is lost.
recordPollResult(w) ==
  LET p == pollers[w]
      complete == decideInstagramCollaboratorPoll(p)
      expired == ~complete /\ (p.read = "stop" \/ poll.attempts >= MaxAttempts \/ ~poll.ttl)
      status == IF complete THEN "complete" ELSE IF expired THEN "expired" ELSE IF p.read = "complete" THEN "pending" ELSE "unavailable" IN
    /\ p # Nothing /\ p.read # "none" /\ pollers' = [pollers EXCEPT ![w] = Nothing]
    /\ IF holdsPoll(p) THEN poll' = [poll EXCEPT !.status = status, !.claim = 0, !.lease = FALSE] /\ snapshots' = p.seen
                       ELSE UNCHANGED <<poll, snapshots>>
    /\ UNCHANGED <<account, candidates, approvals, target, container, invites, proof>>

\* The worker stops.
pollerStops(w) ==
  /\ pollers[w] # Nothing /\ pollers' = [pollers EXCEPT ![w] = Nothing]
  /\ UNCHANGED <<account, candidates, approvals, target, container, invites, proof, poll, snapshots>>

CollaboratorNext ==
  \/ \E a \in Account : reconnect(a)
  \/ \E c \in Candidates : approveCandidate(c) \/ \E draft \in Drafts :
       \/ scheduleTarget(c, draft)
       \/ \E typed \in SUBSET Typed, cover \in BOOLEAN, ai \in BOOLEAN : createCandidate(c, draft, typed, cover, ai)
  \/ createOperation \/ finalizeOperation \/ recoverMissingPolls \/ pollTimePasses
  \/ \E n \in Names : answer(n)
  \/ \E w \in Pollers : claimDuePolls(w) \/ readCollaboratorStatuses(w) \/ recordPollResult(w) \/ pollerStops(w)

CollaboratorSpec == CollaboratorInit /\ [][CollaboratorNext]_collaboratorVars

-----------------------------------------------------------------------------
\* What Instagram is asked to publish was approved by a person for this very draft, and never invites the account that
\* publishes it, though the account may have been connected again since.
PublishedSettingsWereApproved ==
  container # Nothing =>
    /\ [draft |-> container.draft, settings |-> container.settings] \in approvals
    /\ container.by \notin container.settings.collaborators

\* A poll that is complete has every invitation accepted: a complete read is not a complete workflow.
CompleteIsAccepted == poll # Nothing /\ poll.status = "complete" => \A n \in proof.names : invites[n] = "accepted"

\* The statuses shown never go back to an older read, whichever of two workers finishes last.
StatusNeverOlder == \A n \in Names : snapshots'[n].read >= snapshots[n].read

-----------------------------------------------------------------------------
(* The inductive invariant behind these properties.                        *)

\* The target and the container carry what was approved.
BoundToApproval ==
  /\ target # Nothing => [draft |-> target.draft, settings |-> target.settings] \in approvals
  /\ container # Nothing => target # Nothing
  /\ PublishedSettingsWereApproved
  /\ \A c \in Candidates : candidates[c] # Nothing /\ candidates[c].status = "approved"
                             => [draft |-> candidates[c].draft, settings |-> candidates[c].settings] \in approvals

\* A poll follows a proof, of a target that is published for good.
PollFollowsProof ==
  /\ proof # Nothing => target # Nothing /\ target.status = "published"
  /\ poll # Nothing => proof # Nothing
  /\ \A w \in Pollers : pollers[w] # Nothing => poll # Nothing /\ pollers[w].claim <= poll.attempts

\* A worker that has read holds the statuses of its own claim, and a status seen as accepted stays true.
ReadsAreOfTheClaim ==
  \A w \in Pollers : pollers[w] # Nothing /\ pollers[w].read # "none" =>
    \A n \in Names :
      IF n \in proof.names
      THEN pollers[w].seen[n].read = pollers[w].claim /\ (pollers[w].seen[n].status = "accepted" => invites[n] = "accepted")
      ELSE pollers[w].seen[n].read = 0

\* Nothing that is stored comes from a claim after the current one.
ClaimIsNewest ==
  /\ \A n \in Names : proof = Nothing \/ n \notin proof.names => snapshots[n].read = 0
  /\ poll = Nothing => \A n \in Names : snapshots[n].read = 0
  /\ poll # Nothing /\ poll.status = "processing" =>
       poll.claim = poll.attempts /\ \A n \in Names : snapshots[n].read < poll.claim
  /\ poll # Nothing => \A n \in Names : snapshots[n].read <= poll.attempts

CollaboratorInv ==
  CollaboratorTypeOK /\ BoundToApproval /\ PollFollowsProof /\ ReadsAreOfTheClaim /\ ClaimIsNewest /\ CompleteIsAccepted
=============================================================================
