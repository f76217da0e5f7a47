---------------------------- MODULE ChannelAccess ----------------------------
(***************************************************************************)
(* Access to the social networks: OAuth flows that connect accounts, the   *)
(* encrypted credentials and the provider grants they come from, renewal,  *)
(* validation, disconnection, deauthorization and data deletion.           *)
(* A credential and the expiry stored with it are one number.  A flow and  *)
(* a call are used once, which bounds every version.                       *)
(***************************************************************************)
EXTENDS Naturals, FiniteSets

CONSTANTS Accounts, Grants,
          Flows,              \* OAuth connection states
          Calls,              \* requests of owners and worker jobs under way
          MaxRefreshAttempts, \* attempts of one renewal command (5 in the code)
          MaxErasureAttempts  \* attempts of one deletion command (10 in the code)

VARIABLES kinds,       \* how each account is connected
          accounts,    \* connected_accounts
          secrets,     \* encrypted_credentials: the stored tokens
          issued,      \* the credentials made so far
          grants, links,  \* provider_grants and their current account links
          flows, calls,
          renewals,    \* channel.credential-refresh commands: attempts left by account and credential
          validations, \* the version of each grant that has a validation command
          told,        \* grants the provider has already reported deauthorized
          deletion,    \* the data-deletion request, its scope and the worker inside it
          privateData, \* accounts whose private messages are stored
          overwritten  \* history: accounts an owner's request unblocked or saved over a change it had not read

accessVars == <<kinds, accounts, secrets, issued, grants, links, flows, calls, renewals, validations, told,
                deletion, privateData, overwritten>>

Kinds == {"instagram", "facebook", "instagram_facebook", "youtube"}

Meta(a) == kinds[a] # "youtube"

MaxCredential == Cardinality(Flows) + Cardinality(Calls)

CredentialNumbers == 0..MaxCredential

AccountStatus == {"none", "setup_required", "healthy", "expiring", "refresh_failed", "disconnected"}

ConnectedAccount == [status : AccountStatus, credential : CredentialNumbers]

ProviderGrantStatus ==
  {"none", "active", "expiring", "refresh_failed", "reauthorization_required", "deauthorized", "deletion_pending",
   "deleted", "superseded"}

ProviderGrant == [status : ProviderGrantStatus, version : Nat]

Tasks == Kinds \cup {"meta_messaging"}

FlowStages == {"idle", "started", "selecting", "saving", "done"}

OAuthConnectionState ==
  [pc : FlowStages, task : Tasks, account : Accounts, grant : Grants, seen : ConnectedAccount]

Operations == {"none", "check", "update", "disconnect", "refreshFacebook", "rotate", "renewal", "validation"}

Outcomes == {"healthy", "transient_failure", "review_required", "reauthorization_required"}

CallStages == {"idle", "read", "ready", "done"}

Call == [pc : CallStages, op : Operations, account : Accounts, seen : ConnectedAccount, next : ConnectedAccount,
         grant : Grants, version : Nat, verdict : Outcomes]

DeletionStatus == {"none", "pending", "completed", "needs_review"}

DeletionStages == {"idle", "scoped", "erased"}

ProviderDataDeletionRequest ==
  [status : DeletionStatus, grant : Grants, pc : DeletionStages, scope : SUBSET Accounts, attempts : 0..MaxErasureAttempts]

AccessTypeOK ==
  /\ kinds \in [Accounts -> Kinds] /\ accounts \in [Accounts -> ConnectedAccount]
  /\ secrets \subseteq 1..MaxCredential /\ issued \in 0..MaxCredential
  /\ grants \in [Grants -> ProviderGrant] /\ links \subseteq Accounts \X Grants
  /\ flows \in [Flows -> OAuthConnectionState] /\ calls \in [Calls -> Call]
  /\ renewals \in [Accounts -> [1..MaxCredential -> 0..MaxRefreshAttempts + 1]]
  /\ validations \in [Grants -> Nat] /\ told \subseteq Grants
  /\ deletion \in ProviderDataDeletionRequest
  /\ privateData \subseteq Accounts /\ overwritten \subseteq Accounts

NoAccess == [status |-> "none", credential |-> 0]

SomeAccount == CHOOSE a \in Accounts : TRUE
SomeGrant == CHOOSE g \in Grants : TRUE

IdleFlow == [pc |-> "idle", task |-> "instagram", account |-> SomeAccount, grant |-> SomeGrant, seen |-> NoAccess]

IdleCall == [pc |-> "idle", op |-> "none", account |-> SomeAccount, seen |-> NoAccess, next |-> NoAccess,
             grant |-> SomeGrant, version |-> 0, verdict |-> "healthy"]

AccessInit ==
  /\ kinds \in [Accounts -> Kinds]
  /\ accounts = [a \in Accounts |-> NoAccess] /\ secrets = {} /\ issued = 0
  /\ grants = [g \in Grants |-> [status |-> "none", version |-> 0]] /\ links = {}
  /\ flows = [f \in Flows |-> IdleFlow] /\ calls = [c \in Calls |-> IdleCall]
  /\ renewals = [a \in Accounts |-> [k \in 1..MaxCredential |-> MaxRefreshAttempts + 1]]
  /\ validations = [g \in Grants |-> 0] /\ told = {}
  /\ deletion = [status |-> "none", grant |-> SomeGrant, pc |-> "idle", scope |-> {}, attempts |-> 0]
  /\ privateData = {} /\ overwritten = {}

Usable(status) == status \in {"healthy", "expiring"}

-----------------------------------------------------------------------------
(* The account repository.                                                 *)

OpenGrant(status) == status \in {"active", "expiring", "refresh_failed", "reauthorization_required"}

currentGrantIds(a) == {g \in Grants : <<a, g>> \in links}

linkedAccounts(g) == {a \in Accounts : <<a, g>> \in links}

\* Mutant: a displaced grant keeps its state.
touchNothing(all, displaced, kept) == all

\* A grant that has lost its last account is history.
touchDisplacedGrants(all, displaced, kept) ==
  [g \in Grants |->
     IF g \in displaced /\ OpenGrant(all[g].status)
       THEN [status |-> IF \E a \in Accounts : <<a, g>> \in kept THEN all[g].status ELSE "superseded",
             version |-> all[g].version + 1]
       ELSE all[g]]

saveGrant(g) == [grants EXCEPT ![g] = [status |-> "active", version |-> @.version + 1]]

linkGrant(a, g) == (links \ {<<a, h>> : h \in Grants}) \cup {<<a, g>>}

unlinkGrant(a) == links \ {<<a, h>> : h \in Grants}

saveCredential(old) == (secrets \ {old}) \cup {issued + 1}

\* The transaction of a connection: the new credential and the grant, the old credential deleted.
saveConnection(a, g, seen) ==
  /\ issued' = issued + 1
  /\ secrets' = saveCredential(seen.credential)
  /\ accounts' = [accounts EXCEPT ![a] = [status |-> "healthy", credential |-> issued + 1]]
  /\ links' = linkGrant(a, g)
  /\ grants' = touchDisplacedGrants(saveGrant(g), currentGrantIds(a) \ {g}, linkGrant(a, g))
  /\ overwritten' = overwritten \ {a}

\* An owner's request saves the account as it read it, changed: there is no fence.
save(a, seen, record) ==
  /\ accounts' = [accounts EXCEPT ![a] = record]
  /\ overwritten' = IF accounts[a] = seen /\ (seen.status = "disconnected" => ~Usable(record.status))
                      THEN overwritten ELSE overwritten \cup {a}

grantStatus(status) == IF status = "healthy" THEN "active" ELSE status

\* Mutant: the row is updated by its id only.
refreshOfAnyCredential(a, seen) == TRUE

refreshFence(a, seen) ==
  /\ accounts[a].credential = seen.credential
  /\ accounts[a].status \notin {"disconnected", "setup_required"}

saveCredentialRefreshResult(a, status, rotated) ==
  /\ issued' = IF rotated THEN issued + 1 ELSE issued
  /\ secrets' = IF rotated THEN saveCredential(accounts[a].credential) ELSE secrets
  /\ accounts' = [accounts EXCEPT ![a] =
       [status |-> status, credential |-> IF rotated THEN issued + 1 ELSE @.credential]]
  /\ grants' = [g \in Grants |->
       IF g \in currentGrantIds(a) /\ OpenGrant(grants[g].status)
         THEN [status |-> grantStatus(status), version |-> grants[g].version + 1] ELSE grants[g]]

-----------------------------------------------------------------------------
(* OAuth.  A provider may refuse any one of the requests of an exchange.   *)

ExchangeSteps == {"short_token", "debug_token", "long_token", "permissions", "identity", "refresh_token", "contract"}

Said == {ExchangeSteps} \cup {ExchangeSteps \ {x} : x \in ExchangeSteps}

exchangeInstagram(said) == {"short_token", "long_token", "identity"} \subseteq said

exchangeYouTube(said) == {"short_token", "refresh_token", "identity"} \subseteq said

exchangeAndDiscoverFacebookPages(said) ==
  {"short_token", "debug_token", "long_token", "permissions", "identity"} \subseteq said

exchangeAndDiscoverInstagramAccounts(said) ==
  {"short_token", "debug_token", "long_token", "permissions", "identity"} \subseteq said

exchangeAndDiscover(said) == {"short_token", "debug_token", "long_token", "permissions", "identity"} \subseteq said

\* The messaging grant is proved against the live contract before it is stored.
probe(said) == {"permissions", "contract"} \subseteq said

createState(f, a, g, task) ==
  /\ flows[f].pc = "idle"
  /\ flows' = [flows EXCEPT ![f] = [@ EXCEPT !.pc = "started", !.task = task, !.account = a, !.grant = g]]
  /\ UNCHANGED <<kinds, accounts, secrets, issued, grants, links, calls, renewals, validations, told, deletion,
                 privateData, overwritten>>

startInstagram(f, a, g) == kinds[a] = "instagram" /\ createState(f, a, g, "instagram")

startYouTube(f, a, g) == kinds[a] = "youtube" /\ createState(f, a, g, "youtube")

startFacebook(f, a, g) == kinds[a] = "facebook" /\ createState(f, a, g, "facebook")

startInstagramFacebook(f, a, g) == kinds[a] = "instagram_facebook" /\ createState(f, a, g, "instagram_facebook")

startMetaMessaging(f, a, g) ==
  kinds[a] \in {"facebook", "instagram_facebook"} /\ createState(f, a, g, "meta_messaging")

\* The state is consumed by the first callback, whatever the provider says.
consumeState(f, task, next) ==
  /\ flows[f].pc = "started" /\ flows[f].task = task
  /\ flows' = [flows EXCEPT ![f] = IF next = "done" THEN [IdleFlow EXCEPT !.pc = "done"]
                                  ELSE [@ EXCEPT !.pc = next, !.seen = accounts[flows[f].account]]]
  /\ UNCHANGED <<kinds, accounts, secrets, issued, grants, links, calls, renewals, validations, told, deletion,
                 privateData, overwritten>>

callbackInstagram(f, said) == consumeState(f, "instagram", IF exchangeInstagram(said) THEN "saving" ELSE "done")

callbackYouTube(f, said) == consumeState(f, "youtube", IF exchangeYouTube(said) THEN "saving" ELSE "done")

callbackFacebook(f, said) ==
  consumeState(f, "facebook", IF exchangeAndDiscoverFacebookPages(said) THEN "selecting" ELSE "done")

callbackInstagramFacebook(f, said) ==
  consumeState(f, "instagram_facebook", IF exchangeAndDiscoverInstagramAccounts(said) THEN "selecting" ELSE "done")

\* Only accounts that are already connected can be enabled for messages.
callbackMetaMessaging(f, said) ==
  consumeState(f, "meta_messaging",
    IF exchangeAndDiscover(said) /\ accounts[flows[f].account].credential # 0 /\ accounts[flows[f].account].status # "disconnected"
      THEN "selecting" ELSE "done")

openSelection(f, task, next) ==
  /\ flows[f].pc = "selecting" /\ flows[f].task = task
  /\ flows' = [flows EXCEPT ![f] = IF next = "done" THEN [IdleFlow EXCEPT !.pc = "done"]
                                  ELSE [@ EXCEPT !.pc = next, !.seen = accounts[flows[f].account]]]
  /\ UNCHANGED <<kinds, accounts, secrets, issued, grants, links, calls, renewals, validations, told, deletion,
                 privateData, overwritten>>

completeFacebookSelection(f) == openSelection(f, "facebook", "saving")

completeInstagramFacebookSelection(f) == openSelection(f, "instagram_facebook", "saving")

completeMetaMessagingSelection(f, said) ==
  LET account == accounts[flows[f].account] IN
    openSelection(f, "meta_messaging",
      IF probe(said) /\ account.status \notin {"none", "disconnected"} /\ account.credential \in secrets
        THEN "saving" ELSE "selecting")

expireSelection(f) == flows[f].task \in Tasks /\ openSelection(f, flows[f].task, "done")

\* The discovery record is deleted and the accounts are stored in one transaction.
completeOAuthSelection(f) ==
  /\ flows[f].pc = "saving"
  /\ saveConnection(flows[f].account, flows[f].grant, flows[f].seen)
  /\ flows' = [flows EXCEPT ![f] = [IdleFlow EXCEPT !.pc = "done"]]
  /\ UNCHANGED <<kinds, calls, renewals, validations, told, deletion, privateData>>

-----------------------------------------------------------------------------
(* Requests of an owner on a connected account.                            *)

begin(c, a, op) ==
  /\ calls[c].pc = "idle" /\ accounts[a].status # "none"
  /\ calls' = [calls EXCEPT ![c] = [@ EXCEPT !.pc = "read", !.op = op, !.account = a, !.seen = accounts[a]]]
  /\ UNCHANGED <<kinds, accounts, secrets, issued, grants, links, flows, renewals, validations, told, deletion,
                 privateData, overwritten>>

AccountRest == <<kinds, secrets, issued, grants, links, flows, renewals, validations, told, deletion, privateData>>

Ends(c) == calls' = [calls EXCEPT ![c] = [IdleCall EXCEPT !.pc = "done"]]

\* An account entered by hand holds a reference to a secret outside the vault.
create(c, a) ==
  /\ calls[c].pc = "idle" /\ accounts[a].status = "none"
  /\ accounts' = [accounts EXCEPT ![a].status = "setup_required"]
  /\ calls' = [calls EXCEPT ![c] = [@ EXCEPT !.pc = "read", !.op = "check", !.account = a, !.seen = accounts'[a]]]
  /\ UNCHANGED <<overwritten>> /\ UNCHANGED AccountRest

\* Connection Doctor: a missing secret and an expired one block the account.
inspect(record, status) ==
  /\ status \in {"healthy", "expiring", "refresh_failed", "setup_required"}
  /\ record.credential # 0 /\ record.credential \notin secrets => status = "setup_required"

check(c, status) ==
  LET call == calls[c] IN
    /\ call.pc = "read" /\ call.op = "check" /\ call.seen.status # "disconnected"
    /\ inspect(call.seen, status)
    /\ calls' = [calls EXCEPT ![c].pc = "ready", ![c].next = [call.seen EXCEPT !.status = status]]
    /\ UNCHANGED <<accounts, overwritten>> /\ UNCHANGED AccountRest

saveCheck(c) ==
  /\ calls[c].pc = "ready" /\ calls[c].op = "check"
  /\ save(calls[c].account, calls[c].seen, calls[c].next)
  /\ Ends(c) /\ UNCHANGED AccountRest

\* The edited account is stored, then checked.
update(c) ==
  LET call == calls[c]
      edited == [call.seen EXCEPT !.status = IF @ = "disconnected" THEN "setup_required" ELSE @] IN
    /\ call.pc = "read" /\ call.op = "update"
    /\ save(call.account, call.seen, edited)
    /\ calls' = [calls EXCEPT ![c].op = "check", ![c].seen = edited]
    /\ UNCHANGED AccountRest

refreshFacebook(c, confirmed) ==
  LET call == calls[c] IN
    /\ call.pc = "read" /\ call.op = "refreshFacebook" /\ call.seen.credential # 0
    /\ save(call.account, call.seen, [call.seen EXCEPT !.status = IF confirmed THEN "healthy" ELSE "refresh_failed"])
    /\ Ends(c) /\ UNCHANGED AccountRest

\* The owner renews access: the provider answers, the fenced result is stored or dropped.
rotateOf(c, kind, renewed) ==
  LET call == calls[c] IN
    /\ call.pc = "read" /\ call.op = "rotate" /\ kinds[call.account] = kind /\ call.seen.credential \in secrets
    /\ Ends(c)
    /\ IF refreshFence(call.account, call.seen)
         THEN saveCredentialRefreshResult(call.account, IF renewed THEN "healthy" ELSE "refresh_failed", renewed)
         ELSE UNCHANGED <<accounts, secrets, issued, grants>>
    /\ UNCHANGED <<kinds, links, flows, renewals, validations, told, deletion, privateData, overwritten>>

refreshInstagram(c, renewed) == rotateOf(c, "instagram", renewed)

refreshYouTube(c, renewed) == rotateOf(c, "youtube", renewed)

\* First the account is blocked; then Google's grant is revoked and the credential deleted.
disconnect(c) ==
  LET call == calls[c]
      blocked == [call.seen EXCEPT !.status = "disconnected"] IN
    /\ call.pc = "read" /\ call.op = "disconnect"
    /\ save(call.account, call.seen, blocked)
    /\ calls' = [calls EXCEPT ![c].pc = "ready", ![c].seen = blocked]
    /\ UNCHANGED AccountRest

revokeYouTube(c, revoked) ==
  LET call == calls[c]
      a == call.account
      keep == kinds[a] = "youtube" /\ call.seen.credential # 0 /\ ~revoked IN
    /\ call.pc = "ready" /\ call.op = "disconnect"
    /\ save(a, call.seen, IF keep THEN call.seen ELSE [call.seen EXCEPT !.credential = 0])
    /\ secrets' = IF keep THEN secrets ELSE secrets \ {call.seen.credential}
    /\ links' = IF keep THEN links ELSE unlinkGrant(a)
    /\ grants' = IF keep THEN grants ELSE touchDisplacedGrants(grants, currentGrantIds(a), unlinkGrant(a))
    /\ Ends(c)
    /\ UNCHANGED <<kinds, issued, flows, renewals, validations, told, deletion, privateData>>

\* A request that finds nothing to do, or is refused by the provider or the vault, ends.
giveUp(c) ==
  /\ calls[c].pc \in {"read", "ready"}
  /\ Ends(c) /\ UNCHANGED <<accounts, overwritten>> /\ UNCHANGED AccountRest

-----------------------------------------------------------------------------
(* The worker: renewal of credentials, validation of grants.               *)

\* One command for each expiry; a failed one is not made again.
recoverCredentialRefreshes(a) ==
  LET k == accounts[a].credential IN
    /\ Usable(accounts[a].status) /\ k # 0 /\ kinds[a] \in {"instagram", "youtube"}
    /\ renewals[a][k] = MaxRefreshAttempts + 1
    /\ renewals' = [renewals EXCEPT ![a][k] = MaxRefreshAttempts]
    /\ UNCHANGED <<kinds, accounts, secrets, issued, grants, links, flows, calls, validations, told, deletion,
                   privateData, overwritten>>

\* The job checks its own copy of the credential before it asks the provider.
processCredentialRefreshJob(c, a, k) ==
  /\ calls[c].pc = "idle" /\ renewals[a][k] \in 1..MaxRefreshAttempts
  /\ IF accounts[a].credential = k /\ accounts[a].status \notin {"disconnected", "setup_required"}
       THEN /\ calls' = [calls EXCEPT ![c] = [@ EXCEPT !.pc = "read", !.op = "renewal", !.account = a, !.seen = accounts[a]]]
            /\ renewals' = [renewals EXCEPT ![a][k] = @ - 1]
       ELSE renewals' = [renewals EXCEPT ![a][k] = 0] /\ calls' = calls
  /\ UNCHANGED <<kinds, accounts, secrets, issued, grants, links, flows, validations, told, deletion, privateData,
                 overwritten>>

\* A temporary failure leaves attempts, a refusal or the last one does not.
recordFailure(c, retryable) ==
  LET call == calls[c]
      a == call.account
      again == retryable /\ renewals[a][call.seen.credential] > 0 IN
    /\ call.pc = "read" /\ call.op = "renewal"
    /\ IF refreshFence(a, call.seen)
         THEN saveCredentialRefreshResult(a, IF again THEN "expiring" ELSE "refresh_failed", FALSE)
         ELSE UNCHANGED <<accounts, secrets, issued, grants>>
    /\ renewals' = IF again THEN renewals ELSE [renewals EXCEPT ![a][call.seen.credential] = 0]
    /\ calls' = [calls EXCEPT ![c] = [IdleCall EXCEPT !.pc = IF again THEN "idle" ELSE "done"]]
    /\ UNCHANGED <<kinds, links, flows, validations, told, deletion, privateData, overwritten>>

renewed(c) ==
  LET call == calls[c] IN
    /\ call.pc = "read" /\ call.op = "renewal" /\ call.seen.credential \in secrets
    /\ IF refreshFence(call.account, call.seen)
         THEN saveCredentialRefreshResult(call.account, "healthy", TRUE)
         ELSE UNCHANGED <<accounts, secrets, issued, grants>>
    /\ renewals' = [renewals EXCEPT ![call.account][call.seen.credential] = 0]
    /\ Ends(c)
    /\ UNCHANGED <<kinds, links, flows, validations, told, deletion, privateData, overwritten>>

recoverProviderGrantValidations(g) ==
  /\ grants[g].status \in {"active", "expiring", "refresh_failed"}
  /\ \E a \in linkedAccounts(g) : accounts[a].credential # 0
  /\ validations' = [validations EXCEPT ![g] = grants[g].version] /\ validations' # validations
  /\ UNCHANGED <<kinds, accounts, secrets, issued, grants, links, flows, calls, renewals, told, deletion, privateData,
                 overwritten>>

openCredential(a) == accounts[a].credential \in secrets

validateInstagramLogin(said) == "identity" \in said

validateFacebookLoginAccount(said) == {"debug_token", "permissions", "identity"} \subseteq said

validateGoogleAccount(said) == {"refresh_token", "identity"} \subseteq said

\* Only Google's "invalid_grant" proves that access is gone; everything else needs a person, or time.
validateAccount(a, said, reached) ==
  IF accounts[a].status \in {"disconnected", "setup_required"} \/ ~openCredential(a) THEN "review_required"
  ELSE IF ~reached THEN "transient_failure"
  ELSE CASE kinds[a] = "instagram" -> IF validateInstagramLogin(said) THEN "healthy" ELSE "review_required"
         [] kinds[a] = "youtube"   -> IF validateGoogleAccount(said) THEN "healthy"
                                      ELSE IF "refresh_token" \notin said THEN "reauthorization_required"
                                      ELSE "review_required"
         [] OTHER                  -> IF validateFacebookLoginAccount(said) THEN "healthy" ELSE "review_required"

\* The first account that is not healthy decides.
processProviderGrantValidation(c, g, said, reached) ==
  LET verdicts == {validateAccount(a, said, reached) : a \in linkedAccounts(g)} IN
    /\ calls[c].pc = "idle" /\ validations[g] = grants[g].version
    /\ grants[g].status \in {"active", "expiring", "refresh_failed"}
    /\ \E verdict \in IF verdicts = {} THEN {"review_required"}
                      ELSE IF verdicts = {"healthy"} THEN verdicts ELSE verdicts \ {"healthy"} :
         calls' = [calls EXCEPT ![c] = [@ EXCEPT !.pc = "read", !.op = "validation", !.grant = g,
                                                 !.version = grants[g].version, !.verdict = verdict]]
    /\ UNCHANGED <<kinds, accounts, secrets, issued, grants, links, flows, renewals, validations, told, deletion,
                   privateData, overwritten>>

blockAccess(g, event) ==
  /\ grants' = [grants EXCEPT ![g] = IF @.status \in {"deleted", "superseded"} THEN @
                                     ELSE [status |-> event, version |-> @.version + 1]]
  /\ accounts' = [a \in Accounts |->
       IF a \in linkedAccounts(g) THEN [status |-> "disconnected", credential |-> 0] ELSE accounts[a]]
  /\ secrets' = secrets \ {accounts[a].credential : a \in linkedAccounts(g)}

\* Mutant: the result is stored for the grant as it is now.
recordAnyValidation(c) ==
  LET call == calls[c] IN
    /\ call.pc = "read" /\ call.op = "validation"
    /\ IF call.verdict = "reauthorization_required" THEN blockAccess(call.grant, call.verdict)
       ELSE /\ grants' = [grants EXCEPT ![call.grant] =
                 [status |-> IF call.verdict = "healthy" THEN "active" ELSE "refresh_failed", version |-> @.version + 1]]
            /\ UNCHANGED <<accounts, secrets>>
    /\ Ends(c)
    /\ UNCHANGED <<kinds, issued, links, flows, renewals, validations, told, deletion, privateData, overwritten>>

recordProviderGrantValidation(c) ==
  LET call == calls[c]
      current == grants[call.grant].version = call.version
                 /\ grants[call.grant].status \in {"active", "expiring", "refresh_failed"} IN
    /\ call.pc = "read" /\ call.op = "validation"
    /\ IF ~current THEN UNCHANGED <<grants, accounts, secrets>>
       ELSE IF call.verdict = "reauthorization_required" THEN blockAccess(call.grant, call.verdict)
       ELSE /\ grants' = [grants EXCEPT ![call.grant] =
                 [status |-> IF call.verdict = "healthy" THEN "active" ELSE "refresh_failed", version |-> @.version + 1]]
            /\ UNCHANGED <<accounts, secrets>>
    /\ Ends(c)
    /\ UNCHANGED <<kinds, issued, links, flows, renewals, validations, told, deletion, privateData, overwritten>>

-----------------------------------------------------------------------------
(* The provider takes access back, or a person asks for deletion.          *)

matchingGrants(g) == \E a \in Accounts : <<a, g>> \in links /\ Meta(a)

receiveMetaDeauthorization(g) ==
  /\ g \notin told /\ matchingGrants(g) /\ grants[g].status \notin {"deleted", "superseded"}
  /\ blockAccess(g, "deauthorized")
  /\ told' = told \cup {g}
  /\ UNCHANGED <<kinds, issued, links, flows, calls, renewals, validations, deletion, privateData, overwritten>>

\* A repeated request is answered with the request there is.
receiveMetaDataDeletion(g) ==
  /\ deletion.status = "none" /\ matchingGrants(g) /\ grants[g].status # "superseded"
  /\ blockAccess(g, "deletion_pending")
  /\ deletion' = [deletion EXCEPT !.status = "pending", !.grant = g]
  /\ UNCHANGED <<kinds, issued, links, flows, calls, renewals, validations, told, privateData, overwritten>>

DeletionRest == <<kinds, issued, links, flows, calls, renewals, validations, told, overwritten>>

getDataDeletionScope ==
  /\ deletion.status = "pending" /\ deletion.pc = "idle" /\ deletion.attempts < MaxErasureAttempts
  /\ deletion' = [deletion EXCEPT !.pc = "scoped", !.scope = linkedAccounts(deletion.grant), !.attempts = @ + 1]
  /\ UNCHANGED <<accounts, grants, secrets, privateData>> /\ UNCHANGED DeletionRest

\* Private messages are shredded before the rest.
processProviderDataDeletion ==
  /\ deletion.pc = "scoped"
  /\ privateData' = privateData \ deletion.scope
  /\ deletion' = [deletion EXCEPT !.pc = "erased"]
  /\ UNCHANGED <<accounts, grants, secrets>> /\ UNCHANGED DeletionRest

processDataDeletionScope ==
  /\ deletion.pc = "erased"
  /\ accounts' = [a \in Accounts |->
       IF a \in linkedAccounts(deletion.grant) THEN [status |-> "disconnected", credential |-> 0] ELSE accounts[a]]
  /\ grants' = [grants EXCEPT ![deletion.grant] = [status |-> "deleted", version |-> @.version + 1]]
  /\ deletion' = [deletion EXCEPT !.status = "completed", !.pc = "idle"]
  /\ UNCHANGED <<secrets, privateData>> /\ UNCHANGED DeletionRest

\* Mutant: a command whose attempts are used up is left as it is.
forgetDataDeletionScope ==
  /\ deletion.pc # "idle"
  /\ deletion' = [deletion EXCEPT !.pc = "idle"]
  /\ UNCHANGED <<accounts, grants, secrets, privateData>> /\ UNCHANGED DeletionRest

\* An error releases the command; the last attempt hands the request to an operator.
failDataDeletionScope ==
  /\ deletion.pc # "idle"
  /\ deletion' = [deletion EXCEPT !.pc = "idle",
                    !.status = IF deletion.attempts = MaxErasureAttempts THEN "needs_review" ELSE @]
  /\ UNCHANGED <<accounts, grants, secrets, privateData>> /\ UNCHANGED DeletionRest

\* Messages are fetched for an account that is enabled.
receiveMessages(a) ==
  /\ Usable(accounts[a].status) /\ Meta(a) /\ a \notin privateData
  /\ privateData' = privateData \cup {a}
  /\ UNCHANGED <<accounts, grants, secrets, deletion>> /\ UNCHANGED DeletionRest

-----------------------------------------------------------------------------
Connect(f) ==
  \/ \E a \in Accounts, g \in Grants :
       \/ startInstagram(f, a, g) \/ startYouTube(f, a, g) \/ startFacebook(f, a, g)
       \/ startInstagramFacebook(f, a, g) \/ startMetaMessaging(f, a, g)
  \/ \E said \in Said :
       \/ callbackInstagram(f, said) \/ callbackYouTube(f, said) \/ callbackFacebook(f, said)
       \/ callbackInstagramFacebook(f, said) \/ callbackMetaMessaging(f, said)
       \/ completeMetaMessagingSelection(f, said)
  \/ completeFacebookSelection(f) \/ completeInstagramFacebookSelection(f)
  \/ expireSelection(f) \/ completeOAuthSelection(f)

OwnerRequests(a) ==
  {"check", "update", "disconnect"}
    \cup (IF kinds[a] = "facebook" THEN {"refreshFacebook"} ELSE {})
    \cup (IF kinds[a] \in {"instagram", "youtube"} THEN {"rotate"} ELSE {})

Request(c) ==
  \/ \E a \in Accounts : create(c, a) \/ \E op \in OwnerRequests(a) : begin(c, a, op)
  \/ \E status \in {"healthy", "expiring", "refresh_failed", "setup_required"} : check(c, status)
  \/ saveCheck(c) \/ update(c) \/ disconnect(c) \/ giveUp(c)
  \/ \E yes \in BOOLEAN : refreshFacebook(c, yes) \/ refreshInstagram(c, yes) \/ refreshYouTube(c, yes) \/ revokeYouTube(c, yes)

Renew(c) ==
  \/ \E a \in Accounts, k \in 1..MaxCredential : processCredentialRefreshJob(c, a, k)
  \/ \E retryable \in BOOLEAN : recordFailure(c, retryable)
  \/ renewed(c) \/ recordProviderGrantValidation(c)
  \/ \E g \in Grants, said \in Said, reached \in BOOLEAN : processProviderGrantValidation(c, g, said, reached)

Erase == getDataDeletionScope \/ processProviderDataDeletion \/ processDataDeletionScope

Provider(g) == receiveMetaDeauthorization(g) \/ receiveMetaDataDeletion(g) \/ recoverProviderGrantValidations(g)

AccessNext ==
  \/ \E f \in Flows : Connect(f)
  \/ \E c \in Calls : Request(c) \/ Renew(c)
  \/ \E g \in Grants : Provider(g)
  \/ \E a \in Accounts : recoverCredentialRefreshes(a) \/ receiveMessages(a)
  \/ Erase \/ failDataDeletionScope

AccessSpec == AccessInit /\ [][AccessNext]_accessVars

\* The dispatcher claims the deletion command every second while it is pending.
AccessFairness == WF_accessVars(Erase)

AccessFairSpec == AccessSpec /\ AccessFairness

-----------------------------------------------------------------------------
\* The credential an account refers to is in the vault, whatever renewals, reconnections, disconnections
\* and callbacks overlap, unless an owner's request saved an old copy of it.
CredentialExists ==
  \A a \in Accounts : a \notin overwritten /\ accounts[a].credential # 0 => accounts[a].credential \in secrets

\* "becomes historical only after its last account is removed": an open grant has an account,
\* a superseded one has none.
SupersededIsUnlinked ==
  \A g \in Grants : /\ OpenGrant(grants[g].status) => linkedAccounts(g) # {}
                    /\ grants[g].status = "superseded" => linkedAccounts(g) = {}

\* A blocked account is used again only after a new consent: a late renewal or validation never unblocks it
\* (an owner's request that saves an old copy of the account can: overwritten).
StaysBlocked ==
  \A a \in Accounts :
    accounts[a].status = "disconnected" /\ Usable(accounts'[a].status)
      => a \in overwritten' \/ flows' # flows

\* A validation blocks only the access it examined: an account connected after it began keeps its credential.
ConsentOutlivesValidation ==
  \A c \in Calls :
    calls[c].op = "validation" /\ calls[c].pc = "read" /\ calls'[c].pc = "done"
    /\ grants[calls[c].grant].version # calls[c].version
      => accounts' = accounts

\* A data-deletion request is carried out or given to an operator.
DeletionEnds == deletion.status = "pending" ~> deletion.status \in {"completed", "needs_review"}

-----------------------------------------------------------------------------
(* The inductive invariant.                                                *)

\* What the proofs take for granted of the constants.
AccessConstants ==
  /\ IsFiniteSet(Flows) /\ IsFiniteSet(Calls) /\ Accounts # {} /\ Grants # {}
  /\ MaxRefreshAttempts \in Nat /\ MaxErasureAttempts \in Nat

\* A flow or a call makes at most one credential, at its end.
IssuedAtTheEnd ==
  issued <= Cardinality({f \in Flows : flows[f].pc = "done"}) + Cardinality({c \in Calls : calls[c].pc = "done"})

\* The account refers to the credential, or somebody holds a copy of the account that does.
Copy(a, k) ==
  \/ accounts[a].credential = k
  \/ \E f \in Flows : flows[f].account = a /\ flows[f].seen.credential = k
  \/ \E c \in Calls : calls[c].account = a /\ calls[c].seen.credential = k

\* A credential belongs to one account, in every copy, and was issued.
OneOwner ==
  \A a, b \in Accounts, k \in CredentialNumbers \ {0} : Copy(a, k) => k <= issued /\ (Copy(b, k) => a = b)

\* What has not begun holds no copy; what a check is about to save has the credential that it read.
CopiesBegin ==
  /\ \A f \in Flows : flows[f].pc = "idle" => flows[f].seen.credential = 0
  /\ \A c \in Calls : /\ calls[c].pc = "idle" => calls[c].seen.credential = 0
                      /\ calls[c].pc = "ready" /\ calls[c].op = "check" => calls[c].next.credential = calls[c].seen.credential

AccessInv == AccessTypeOK /\ IssuedAtTheEnd /\ OneOwner /\ CopiesBegin /\ CredentialExists /\ SupersededIsUnlinked
=============================================================================
