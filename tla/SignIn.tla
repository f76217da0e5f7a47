------------------------------- MODULE SignIn -------------------------------
(***************************************************************************)
(* Users, memberships, invitations and sessions of a workspace in session  *)
(* mode, and OpenID Connect sign-in.  A person is an email address; an     *)
(* active user without a role here belongs to another workspace.           *)
(* Every request runs between others: what it read may be old when it      *)
(* writes.  A row of PostgreSQL is written by one transaction at a time.   *)
(***************************************************************************)
EXTENDS Integers, Sequences, FiniteSets

CONSTANTS People, Founders, Legacy,  \* email addresses, the first owners, accounts that were disabled
          Subjects,                  \* identities at the OpenID provider
          Invites, LoginStates, Visits, Nobody,
          MaxSessions,               \* sessions kept for one user (10 in the code)
          MaxFailures,               \* failed sign-ins before a person is refused (5)
          MaxToken, MaxPassword      \* bounds of the exploration

VARIABLES users, identities, invitations, loginStates, sessions, issued, failures, visits,
          admitted                   \* history: who was admitted by which invitation and token

signInVars == <<users, identities, invitations, loginStates, sessions, issued, failures, visits, admitted>>

Role == {"owner", "manager", "creator", "viewer"}

UserStatus == {"none", "active", "disabled"}

AuthUser == [status : UserStatus, password : 0..MaxPassword, role : Role \cup {"none"}]

InvitationStatus == {"none", "pending", "overdue", "expired", "accepted", "revoked"}

WorkspaceInvitation == [email : People \cup {Nobody}, role : Role, status : InvitationStatus, token : 0..MaxToken]

AuthSession == [id : Nat, live : BOOLEAN, via : LoginStates \cup {Nobody}]

OidcLoginState == {"none", "open", "consumed", "expired"}

VisitStep == {"idle", "refused", "session", "changing", "changed", "owner", "counted", "accepting", "claims", "resolve",
              "link", "provision", "done"}

VisitKind == {"none", "login", "password", "role", "register", "accept", "oidc"}

Visit == [pc : VisitStep, op : VisitKind, person : People \cup {Nobody}, role : Role, session : Nat, invite : Invites \cup {Nobody}, token : Nat,
          state : LoginStates \cup {Nobody}, subject : Subjects \cup {Nobody}, count : Nat]

SignInTypeOK ==
  /\ users \in [People -> AuthUser] /\ identities \in [Subjects -> People \cup {Nobody}]
  /\ invitations \in [Invites -> WorkspaceInvitation] /\ loginStates \in [LoginStates -> OidcLoginState]
  /\ sessions \in [People -> Seq(AuthSession)]
  /\ issued \in Nat /\ failures \in [People -> 0..MaxFailures] /\ visits \in [Visits -> Visit]
  /\ admitted \subseteq Invites \X People \X (1..MaxToken)

Idle == [pc |-> "idle", op |-> "none", person |-> Nobody, role |-> "viewer", session |-> 0, invite |-> Nobody,
         token |-> 0, state |-> Nobody, subject |-> Nobody, count |-> 0]

\* The founders exist, the bootstrap owner among them, and are signed in.
onModuleInit ==
  /\ users = [p \in People |->
       [status |-> IF p \in Founders THEN "active" ELSE IF p \in Legacy THEN "disabled" ELSE "none",
        password |-> IF p \in Founders \cup Legacy THEN 1 ELSE 0, role |-> IF p \in Founders THEN "owner" ELSE "none"]]
  /\ sessions = [p \in People |-> IF p \in Founders THEN <<[id |-> 0, live |-> TRUE, via |-> Nobody]>> ELSE <<>>]

SignInInit ==
  /\ onModuleInit
  /\ identities = [s \in Subjects |-> Nobody]
  /\ invitations = [i \in Invites |-> [email |-> Nobody, role |-> "viewer", status |-> "none", token |-> 0]]
  /\ loginStates = [s \in LoginStates |-> "none"] /\ issued = 0 /\ failures = [p \in People |-> 0]
  /\ visits = [v \in Visits |-> Idle] /\ admitted = {}

-----------------------------------------------------------------------------
(* The repository's statements.                                            *)

activeOwners == {p \in People : users[p].status = "active" /\ users[p].role = "owner"}

createSession(p, state) ==
  LET all == Append(sessions[p], [id |-> issued + 1, live |-> TRUE, via |-> state]) IN
    [sessions EXCEPT ![p] = SubSeq(all, IF Len(all) > MaxSessions THEN Len(all) - MaxSessions + 1 ELSE 1, Len(all))]

revokeUserSessions(p, kept) ==
  [sessions EXCEPT ![p] = [n \in DOMAIN sessions[p] |->
    [sessions[p][n] EXCEPT !.live = @ /\ sessions[p][n].id = kept]]]

revokeSession(p, id) ==
  [sessions EXCEPT ![p] = [n \in DOMAIN sessions[p] |->
    [sessions[p][n] EXCEPT !.live = @ /\ sessions[p][n].id # id]]]

\* Mutant: the state is looked up, and marked later.
lookUpLoginState(s) == loginStates[s] = "open" /\ UNCHANGED loginStates

consumeOidcLoginState(s) == loginStates[s] = "open" /\ loginStates' = [loginStates EXCEPT ![s] = "consumed"]

linkOidcIdentity(s, p) == identities[s] \in {Nobody, p} /\ \A t \in Subjects \ {s} : identities[t] # p

createUserWithMembership(p, password, role) ==
  users' = [users EXCEPT ![p] = [status |-> "active", password |-> password, role |-> role]]

\* Mutant: the invitation that was read before the password was hashed is taken to be the current one.
acceptSeenInvitation(i, token) == invitations[i].status \notin {"none", "revoked"}

\* The transaction locks the invitation it finds by its token.
acceptWorkspaceInvitation(i, token) == invitations[i].status = "pending" /\ invitations[i].token = token

-----------------------------------------------------------------------------
(* Requests with a session: the guard reads the session and the role.      *)

To(v, record) == visits' = [visits EXCEPT ![v] = record]

Ends(v) == visits' = [visits EXCEPT ![v] = [Idle EXCEPT !.pc = "done"]]

canActivate(v, p, session) ==
  /\ visits[v].pc = "idle" /\ users[p].status = "active"
  /\ \E n \in DOMAIN sessions[p] : sessions[p][n].id = session /\ sessions[p][n].live

can(p) == users[p].role = "owner"

logout(v, p, session) ==
  /\ canActivate(v, p, session)
  /\ sessions' = revokeSession(p, session) /\ Ends(v)
  /\ UNCHANGED <<users, identities, invitations, loginStates, issued, failures, admitted>>

\* The current password has been verified; the new one is being hashed.
changePassword(v, p, session) ==
  /\ canActivate(v, p, session) /\ users[p].password \in 1..(MaxPassword - 1)
  /\ To(v, [Idle EXCEPT !.pc = "changing", !.op = "password", !.person = p, !.session = session])
  /\ UNCHANGED <<users, identities, invitations, loginStates, sessions, issued, failures, admitted>>

updatePassword(v) ==
  LET p == visits[v].person IN
    /\ visits[v].pc = "changing" /\ users[p].status = "active" /\ users[p].password < MaxPassword
    /\ users' = [users EXCEPT ![p].password = @ + 1]
    /\ To(v, [visits[v] EXCEPT !.pc = "changed"])
    /\ UNCHANGED <<identities, invitations, loginStates, sessions, issued, failures, admitted>>

revokeOthers(v) ==
  /\ visits[v].pc = "changed"
  /\ sessions' = revokeUserSessions(visits[v].person, visits[v].session) /\ Ends(v)
  /\ UNCHANGED <<users, identities, invitations, loginStates, issued, failures, admitted>>

updateRole(v, p, session, other, role) ==
  /\ canActivate(v, p, session) /\ can(p) /\ users[other].role # "none"
  /\ To(v, [Idle EXCEPT !.pc = "owner", !.op = "role", !.person = other, !.role = role])
  /\ UNCHANGED <<users, identities, invitations, loginStates, sessions, issued, failures, admitted>>

\* The member's row is locked and the owners are counted, in a transaction whose update comes later.
lockMember(v) ==
  LET p == visits[v].person IN
    /\ visits[v].pc = "owner"
    /\ \A w \in Visits : visits[w].pc = "counted" => visits[w].person # p
    /\ IF users[p].role = "owner" /\ visits[v].role # "owner" /\ Cardinality(activeOwners) <= 1
         THEN Ends(v) ELSE To(v, [visits[v] EXCEPT !.pc = "counted"])
    /\ UNCHANGED <<users, identities, invitations, loginStates, sessions, issued, failures, admitted>>

updateMembershipRole(v) ==
  /\ visits[v].pc = "counted"
  /\ users' = [users EXCEPT ![visits[v].person].role = visits[v].role] /\ Ends(v)
  /\ UNCHANGED <<identities, invitations, loginStates, sessions, issued, failures, admitted>>

createMember(v, p, session, other, role) ==
  /\ canActivate(v, p, session) /\ can(p) /\ users[other].status = "none"
  /\ createUserWithMembership(other, 1, role) /\ Ends(v)
  /\ UNCHANGED <<identities, invitations, loginStates, sessions, issued, failures, admitted>>

-----------------------------------------------------------------------------
(* Invitations.  Time passes between a pending and an overdue invitation.  *)

assertInvitationOwner(v, p, session) == canActivate(v, p, session) /\ can(p)

Invited == <<users, identities, loginStates, sessions, issued, failures, admitted>>

\* One pending invitation for an address: the index also counts one that is overdue, unless it is for this address.
createInvitation(v, p, session, i, other, role) ==
  /\ assertInvitationOwner(v, p, session) /\ invitations[i].status = "none" /\ users[other].role = "none"
  /\ \A j \in Invites : invitations[j].email = other => invitations[j].status # "pending"
  /\ invitations' = [j \in Invites |->
       IF j = i THEN [email |-> other, role |-> role, status |-> "pending", token |-> 1]
       ELSE IF invitations[j].email = other /\ invitations[j].status = "overdue"
              THEN [invitations[j] EXCEPT !.status = "expired"] ELSE invitations[j]]
  /\ Ends(v) /\ UNCHANGED Invited

revokeInvitation(v, p, session, i) ==
  /\ assertInvitationOwner(v, p, session) /\ invitations[i].status = "pending"
  /\ invitations' = [invitations EXCEPT ![i].status = "revoked"] /\ Ends(v) /\ UNCHANGED Invited

\* A new token; the index refuses a second pending invitation for the address.
resendInvitation(v, p, session, i) ==
  /\ assertInvitationOwner(v, p, session) /\ invitations[i].status \in {"pending", "overdue", "expired"}
  /\ invitations[i].token < MaxToken
  /\ \A j \in Invites \ {i} :
       invitations[j].email = invitations[i].email => invitations[j].status \notin {"pending", "overdue"}
  /\ invitations' = [invitations EXCEPT ![i].status = "pending", ![i].token = @ + 1]
  /\ Ends(v) /\ UNCHANGED Invited

invitationExpires(i) ==
  /\ invitations[i].status = "pending"
  /\ invitations' = [invitations EXCEPT ![i].status = "overdue"]
  /\ UNCHANGED <<visits>> /\ UNCHANGED Invited

activeInvitation(i, token) == invitations[i].status = "pending" /\ invitations[i].token = token

registerInvitation(v, i, token) ==
  /\ visits[v].pc = "idle" /\ activeInvitation(i, token) /\ users[invitations[i].email].status = "none"
  /\ To(v, [Idle EXCEPT !.pc = "accepting", !.op = "register", !.person = invitations[i].email, !.invite = i, !.token = token])
  /\ UNCHANGED <<invitations>> /\ UNCHANGED Invited

acceptInvitation(v, p, session, i, token) ==
  /\ canActivate(v, p, session) /\ activeInvitation(i, token)
  /\ To(v, [Idle EXCEPT !.pc = "accepting", !.op = "accept", !.person = p, !.invite = i, !.token = token])
  /\ UNCHANGED <<invitations>> /\ UNCHANGED Invited

\* The transaction: a new user, or the signed-in user whose address it is, becomes a member.
admit(v) ==
  LET i == visits[v].invite
      p == visits[v].person
      new == visits[v].op = "register" IN
    /\ visits[v].pc = "accepting" /\ acceptWorkspaceInvitation(i, visits[v].token)
    /\ p = invitations[i].email /\ users[p].role = "none"
    /\ users[p].status = IF new THEN "none" ELSE "active"
    /\ createUserWithMembership(p, IF new THEN 1 ELSE users[p].password, invitations[i].role)
    /\ invitations' = [invitations EXCEPT ![i].status = "accepted"]
    /\ admitted' = admitted \cup {<<i, p, visits[v].token>>}
    /\ IF new THEN To(v, [visits[v] EXCEPT !.pc = "session"]) ELSE Ends(v)
    /\ UNCHANGED <<identities, loginStates, sessions, issued, failures>>

-----------------------------------------------------------------------------
(* Sign-in with a password.  The count of failures is read before the      *)
(* password is verified and written after it.                              *)

verify(typed, stored) == stored # 0 /\ typed = stored

\* Mutant: one attempt too many is let through.
blockedLater(p) == failures[p] > MaxFailures

\* The attempt that reaches the limit blocks the next ones.
blocked(p) == failures[p] >= MaxFailures

login(v, p, typed) ==
  /\ visits[v].pc = "idle" /\ ~ blocked(p)
  /\ To(v, [Idle EXCEPT !.op = "login", !.person = p, !.count = failures[p],
              !.pc = IF users[p].status = "active" /\ verify(typed, users[p].password) THEN "session" ELSE "refused"])
  /\ UNCHANGED <<users, identities, invitations, loginStates, sessions, issued, failures, admitted>>

loginFails(v) ==
  /\ visits[v].pc = "refused"
  /\ failures' = [failures EXCEPT ![visits[v].person] = visits[v].count + 1] /\ Ends(v)
  /\ UNCHANGED <<users, identities, invitations, loginStates, sessions, issued, admitted>>

blockEnds(p) ==
  /\ failures[p] > 0 /\ failures' = [failures EXCEPT ![p] = 0]
  /\ UNCHANGED <<users, identities, invitations, loginStates, sessions, issued, visits, admitted>>

createSessionForUser(v) ==
  LET p == visits[v].person IN
    /\ visits[v].pc = "session"
    /\ sessions' = createSession(p, visits[v].state) /\ issued' = issued + 1
    /\ failures' = IF visits[v].op = "login" THEN [failures EXCEPT ![p] = 0] ELSE failures
    /\ Ends(v) /\ UNCHANGED <<users, identities, invitations, loginStates, admitted>>

-----------------------------------------------------------------------------
(* OpenID Connect.                                                         *)

start(s) ==
  /\ loginStates[s] = "none" /\ loginStates' = [loginStates EXCEPT ![s] = "open"]
  /\ UNCHANGED <<users, identities, invitations, sessions, issued, failures, visits, admitted>>

cancel(s) ==
  /\ loginStates[s] = "open" /\ \E end \in {"consumed", "expired"} : loginStates' = [loginStates EXCEPT ![s] = end]
  /\ UNCHANGED <<users, identities, invitations, sessions, issued, failures, visits, admitted>>

\* What the provider shows of itself and of the person.
Shown == {"discovery", "pkce", "client_method", "id_token", "signature", "nonce", "azp", "email", "userinfo"}

discovery(shown) == {"discovery", "pkce"} \subseteq shown

\* The claims of the ID token, or of the user-info endpoint where the token lacks a verified address.
claimsFrom(shown) == "email" \in shown \/ "userinfo" \in shown

authenticate(shown) ==
  discovery(shown) /\ {"client_method", "id_token", "signature", "nonce", "azp"} \subseteq shown /\ claimsFrom(shown)

enforcePolicy(domainAllowed, groupAllowed) == domainAllowed /\ groupAllowed

mappedRole(groups) == IF "owner" \in groups THEN "owner" ELSE IF "manager" \in groups THEN "manager"
                      ELSE IF "creator" \in groups THEN "creator" ELSE "viewer"

callback(v, s) ==
  /\ visits[v].pc = "idle" /\ consumeOidcLoginState(s)
  /\ To(v, [Idle EXCEPT !.pc = "claims", !.op = "oidc", !.state = s])
  /\ UNCHANGED <<users, identities, invitations, sessions, issued, failures, admitted>>

verifyClaims(v, subject, email, groups, shown, domainAllowed, groupAllowed) ==
  /\ visits[v].pc = "claims"
  /\ IF authenticate(shown) /\ enforcePolicy(domainAllowed, groupAllowed)
       THEN To(v, [visits[v] EXCEPT !.pc = "resolve", !.subject = subject, !.person = email, !.role = mappedRole(groups)])
       ELSE Ends(v)
  /\ UNCHANGED <<users, identities, invitations, loginStates, sessions, issued, failures, admitted>>

\* By the linked identity, else by the address, else a new user where that is allowed.
resolveUser(v, autoProvision) ==
  LET linked == identities[visits[v].subject]
      p == IF linked # Nobody THEN linked ELSE visits[v].person IN
    /\ visits[v].pc = "resolve"
    /\ IF users[p].status = "active" THEN To(v, [visits[v] EXCEPT !.pc = "link", !.person = p])
       ELSE IF users[p].status = "none" /\ autoProvision THEN To(v, [visits[v] EXCEPT !.pc = "provision"])
       ELSE Ends(v)
    /\ UNCHANGED <<users, identities, invitations, loginStates, sessions, issued, failures, admitted>>

link(v) ==
  /\ visits[v].pc = "link" /\ linkOidcIdentity(visits[v].subject, visits[v].person)
  /\ identities' = [identities EXCEPT ![visits[v].subject] = visits[v].person]
  /\ To(v, [visits[v] EXCEPT !.pc = "session"])
  /\ UNCHANGED <<users, invitations, loginStates, sessions, issued, failures, admitted>>

createOidcUserWithMembership(v) ==
  LET p == visits[v].person IN
    /\ visits[v].pc = "provision" /\ users[p].status = "none" /\ identities[visits[v].subject] = Nobody
    /\ createUserWithMembership(p, 0, visits[v].role)
    /\ identities' = [identities EXCEPT ![visits[v].subject] = p]
    /\ To(v, [visits[v] EXCEPT !.pc = "session"])
    /\ UNCHANGED <<invitations, loginStates, sessions, issued, failures, admitted>>

\* Any request may fail before it writes.
refuse(v) ==
  /\ visits[v].pc \notin {"idle", "done", "refused"} /\ Ends(v)
  /\ UNCHANGED <<users, identities, invitations, loginStates, sessions, issued, failures, admitted>>

-----------------------------------------------------------------------------
\* One role stands for those that may not manage the workspace.
GivenRoles == {"owner", "viewer"}

Manage(v, p, session) ==
  \/ logout(v, p, session) \/ changePassword(v, p, session)
  \/ \E other \in People, role \in GivenRoles :
       \/ updateRole(v, p, session, other, role) \/ createMember(v, p, session, other, role)
       \/ \E i \in Invites : createInvitation(v, p, session, i, other, role)
  \/ \E i \in Invites :
       \/ revokeInvitation(v, p, session, i) \/ resendInvitation(v, p, session, i)
       \/ \E token \in 1..MaxToken : acceptInvitation(v, p, session, i, token)

Serve(v) ==
  \/ updatePassword(v) \/ revokeOthers(v) \/ lockMember(v) \/ updateMembershipRole(v) \/ admit(v) \/ loginFails(v)
  \/ createSessionForUser(v) \/ link(v) \/ createOidcUserWithMembership(v) \/ refuse(v)
  \/ \E auto \in BOOLEAN : resolveUser(v, auto)
  \/ \E i \in Invites, token \in 1..MaxToken : registerInvitation(v, i, token)
  \/ \E p \in People, typed \in 1..MaxPassword : login(v, p, typed)
  \/ \E s \in LoginStates : callback(v, s)
  \/ \E subject \in Subjects, email \in People, groups \in {{}, {"owner"}}, shown \in {Shown, Shown \ {"nonce"}, Shown \ {"email"}},
        domainAllowed, groupAllowed \in BOOLEAN :
       verifyClaims(v, subject, email, groups, shown, domainAllowed, groupAllowed)

SignInNext ==
  \/ \E v \in Visits : Serve(v) \/ \E p \in People, session \in 0..issued : Manage(v, p, session)
  \/ \E i \in Invites : invitationExpires(i)
  \/ \E s \in LoginStates : start(s) \/ cancel(s)
  \/ \E p \in People : blockEnds(p)

SignInSpec == SignInInit /\ [][SignInNext]_signInVars

-----------------------------------------------------------------------------
\* An OpenID sign-in state brings one session at most, however often its callback is repeated.
LoginStateUsedOnce ==
  \A p, q \in People : \A m \in DOMAIN sessions[p], n \in DOMAIN sessions[q] :
    sessions[p][m].via # Nobody /\ sessions[p][m].via = sessions[q][n].via => p = q /\ m = n

\* "Resend rotates the token and invalidates the old link ... Revoke invalidates the current link": an invitation
\* admits the one person it was sent to, by its last link, and stays accepted.
InvitationAdmitsItsPerson ==
  \A a \in admitted : LET i == invitations[a[1]] IN i.status = "accepted" /\ i.email = a[2] /\ i.token = a[3]

\* "OriginPost refuses to remove the final active owner."
WorkspaceHasOwner == activeOwners # {}

-----------------------------------------------------------------------------
(* The inductive invariant.                                                *)

\* A request that waits between two steps names what the next one needs.
VisitsAreWhole ==
  \A v \in Visits :
    /\ visits[v].pc = "accepting" =>
         visits[v].invite \in Invites /\ visits[v].token \in 1..MaxToken /\ visits[v].person \in People
    /\ visits[v].pc \in {"resolve", "link", "provision"} => visits[v].subject \in Subjects /\ visits[v].person \in People
    /\ visits[v].pc = "refused" => visits[v].count < MaxFailures

\* A consumed sign-in state is with one request, or with the session it brought.
StatesAreHeldOnce ==
  /\ \A v \in Visits : visits[v].state # Nobody => loginStates[visits[v].state] = "consumed"
  /\ \A v, w \in Visits : visits[v].state = visits[w].state /\ visits[v].state # Nobody => v = w
  /\ \A p \in People : \A n \in DOMAIN sessions[p] : sessions[p][n].via # Nobody =>
       loginStates[sessions[p][n].via] = "consumed" /\ \A v \in Visits : visits[v].state # sessions[p][n].via

InvitationsAreAddressed == \A i \in Invites : invitations[i].status # "none" => invitations[i].email \in People

SignInInv ==
  /\ SignInTypeOK /\ VisitsAreWhole /\ InvitationsAreAddressed /\ StatesAreHeldOnce /\ LoginStateUsedOnce /\ InvitationAdmitsItsPerson
=============================================================================
