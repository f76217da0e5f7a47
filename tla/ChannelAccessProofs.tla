------------------------- MODULE ChannelAccessProofs -------------------------
(***************************************************************************)
(* Access to the social networks is sound for any number of accounts,      *)
(* grants, consents and requests.                                          *)
(*                                                                         *)
(* A save deletes the credential of the copy it was computed from, so      *)
(* CredentialExists needs that no two accounts ever refer to one           *)
(* credential, in the store or in somebody's copy (OneOwner), and that     *)
(* numbers are not used twice (IssuedAtTheEnd).                            *)
(***************************************************************************)
EXTENDS ChannelAccess, FiniteSetTheorems, TLAPS

(* Rows.  What the updates of a record keep, whatever the sets of its      *)
(* fields are.                                                             *)

\* An OAuth state begins and goes on.
LEMMA FlowRow ==
  ASSUME NEW Stage, NEW Task, NEW A, NEW G, NEW R,
         NEW q \in [pc : Stage, task : Task, account : A, grant : G, seen : R],
         NEW x \in Stage, NEW t \in Task, NEW a \in A, NEW g \in G, NEW r \in R
  PROVE  LET began == [q EXCEPT !.pc = x, !.task = t, !.account = a, !.grant = g]
             read  == [q EXCEPT !.pc = x, !.seen = r]
             ended == [q EXCEPT !.pc = x]
             Row   == [pc : Stage, task : Task, account : A, grant : G, seen : R] IN
           /\ began \in Row /\ began.pc = x /\ began.account = a /\ began.seen = q.seen
           /\ read \in Row /\ read.pc = x /\ read.account = q.account /\ read.seen = r
           /\ ended \in Row /\ ended.pc = x /\ ended.seen = q.seen
  OBVIOUS

\* A request or a job of the worker ends.
LEMMA CallEnded ==
  ASSUME NEW Stage, NEW Op, NEW A, NEW R, NEW G, NEW V, NEW O,
         NEW q \in [pc : Stage, op : Op, account : A, seen : R, next : R, grant : G, version : V, verdict : O], NEW x \in Stage
  PROVE  LET ended == [q EXCEPT !.pc = x]
             Row == [pc : Stage, op : Op, account : A, seen : R, next : R, grant : G, version : V, verdict : O] IN
           ended \in Row /\ ended.pc = x /\ ended.op = q.op /\ ended.seen = q.seen
  OBVIOUS

\* The numbers of credentials.
LEMMA Numbers == ASSUME AccessConstants PROVE MaxCredential \in Nat /\ CredentialNumbers = 0..MaxCredential
  BY FS_CardinalityType DEF AccessConstants, MaxCredential, CredentialNumbers

\* An account in another status, or without its credential.
LEMMA AccountRow ==
  ASSUME AccessConstants, NEW q \in ConnectedAccount, NEW x \in AccountStatus
  PROVE  /\ [q EXCEPT !.status = x] \in ConnectedAccount /\ [q EXCEPT !.status = x].status = x
         /\ [q EXCEPT !.status = x].credential = q.credential
         /\ [q EXCEPT !.credential = 0] \in ConnectedAccount /\ [q EXCEPT !.credential = 0].credential = 0
         /\ [q EXCEPT !.credential = 0].status = q.status
         /\ q.credential \in CredentialNumbers /\ q.status \in AccountStatus
         /\ \A k \in CredentialNumbers : [status |-> x, credential |-> k] \in ConnectedAccount
<1>1. 0 \in CredentialNumbers
  BY Numbers
<1> QED BY <1>1 DEF ConnectedAccount

\* A new record of an account.
LEMMA AccountMade ==
  ASSUME NEW x \in AccountStatus, NEW k \in CredentialNumbers
  PROVE  /\ [status |-> x, credential |-> k] \in ConnectedAccount
         /\ [status |-> x, credential |-> k].credential = k /\ [status |-> x, credential |-> k].status = x
  BY DEF ConnectedAccount

\* Nothing has begun.
LEMMA IdleRows ==
  ASSUME AccessConstants
  PROVE  /\ NoAccess \in ConnectedAccount /\ NoAccess.credential = 0
         /\ IdleFlow \in OAuthConnectionState /\ IdleFlow.pc = "idle" /\ IdleFlow.seen = NoAccess
         /\ IdleCall \in Call /\ IdleCall.pc = "idle" /\ IdleCall.seen = NoAccess
<1>1. 0 \in CredentialNumbers /\ "none" \in AccountStatus /\ "idle" \in FlowStages /\ "instagram" \in Tasks
      /\ "idle" \in CallStages /\ "none" \in Operations /\ "healthy" \in Outcomes
  BY Numbers DEF AccountStatus, FlowStages, Tasks, Kinds, CallStages, Operations, Outcomes
<1>2. SomeAccount \in Accounts /\ SomeGrant \in Grants
  BY DEF AccessConstants, SomeAccount, SomeGrant
<1>3. NoAccess \in ConnectedAccount /\ NoAccess.credential = 0
  BY <1>1 DEF NoAccess, ConnectedAccount
<1> HIDE DEF NoAccess
<1>4. IdleFlow \in OAuthConnectionState /\ IdleFlow.pc = "idle" /\ IdleFlow.seen = NoAccess
  BY <1>1, <1>2, <1>3 DEF IdleFlow, OAuthConnectionState
<1>5. IdleCall \in Call /\ IdleCall.pc = "idle" /\ IdleCall.seen = NoAccess
  BY <1>1, <1>2, <1>3 DEF IdleCall, Call
<1> QED BY <1>3, <1>4, <1>5

-----------------------------------------------------------------------------
(* Counting.                                                               *)

\* The number of rows that are done, when one row that is not moves.
LEMMA DoneRows ==
  ASSUME NEW S, IsFiniteSet(S), NEW M \in SUBSET S, NEW N \in SUBSET S, NEW r \in S \ M, \A x \in S \ {r} : x \in M <=> x \in N
  PROVE  /\ Cardinality(M) \in Nat /\ Cardinality(N) \in Nat /\ Cardinality(M) <= Cardinality(N)
         /\ r \in N => Cardinality(N) = Cardinality(M) + 1
         /\ Cardinality(N) <= Cardinality(S) /\ Cardinality(S) \in Nat
<1>1. IsFiniteSet(M) /\ IsFiniteSet(N) /\ Cardinality(N) <= Cardinality(S)
  BY FS_Subset
<1>2. Cardinality(M) \in Nat /\ Cardinality(N) \in Nat /\ Cardinality(S) \in Nat
  BY <1>1, FS_CardinalityType
<1>3. CASE r \in N
  <2>1. N = M \cup {r}
    BY <1>3
  <2>2. Cardinality(N) = Cardinality(M) + 1
    BY <1>1, <2>1, FS_AddElement
  <2> QED BY <1>1, <1>2, <2>2
<1>4. CASE r \notin N
  <2>1. N = M
    BY <1>4
  <2> QED BY <1>1, <1>2, <1>4, <2>1
<1> QED BY <1>3, <1>4

\* Rows that stay where they are.
LEMMA DoneCount ==
  ASSUME NEW S, IsFiniteSet(S), NEW M \in SUBSET S
  PROVE  Cardinality(M) \in Nat /\ Cardinality(M) <= Cardinality(S) /\ Cardinality(S) \in Nat
<1>1. IsFiniteSet(M) /\ Cardinality(M) <= Cardinality(S)
  BY FS_Subset
<1> QED BY <1>1, FS_CardinalityType

\* A flow that is not over moves, and may make a credential when it ends.
LEMMA FlowEnds ==
  ASSUME AccessConstants, AccessInv, NEW f \in Flows, flows[f].pc # "done", \A x \in Flows \ {f} : flows'[x] = flows[x], calls' = calls,
         issued' = issued \/ (issued' = issued + 1 /\ flows'[f].pc = "done")
  PROVE  IssuedAtTheEnd' /\ issued' \in CredentialNumbers
<1> DEFINE M == {x \in Flows : flows[x].pc = "done"}
           N == {x \in Flows : flows'[x].pc = "done"}
           K == {x \in Calls : calls[x].pc = "done"}
           m == Cardinality(M)
           n == Cardinality(N)
           k == Cardinality(K)
<1>a. f \notin M /\ (f \in N <=> flows'[f].pc = "done") /\ \A x \in Flows \ {f} : x \in M <=> x \in N
  OBVIOUS
<1>b. M \in SUBSET Flows /\ N \in SUBSET Flows /\ K \in SUBSET Calls
  OBVIOUS
<1>1. m \in Nat /\ n \in Nat /\ m <= n /\ (flows'[f].pc = "done" => n = m + 1) /\ n <= Cardinality(Flows) /\ Cardinality(Flows) \in Nat
  <2>1. IsFiniteSet(Flows)
    BY DEF AccessConstants
  <2> HIDE DEF M, N
  <2> QED BY <1>a, <1>b, <2>1, DoneRows
<1>2. k \in Nat /\ k <= Cardinality(Calls) /\ Cardinality(Calls) \in Nat
  <2> HIDE DEF K
  <2> QED BY <1>b, DoneCount DEF AccessConstants
<1>3. issued \in Nat /\ issued <= m + k
  BY Numbers DEF AccessInv, AccessTypeOK, IssuedAtTheEnd
<1> HIDE DEF m, n, k
<1>4. issued' <= n + k /\ issued' \in 0..Cardinality(Flows) + Cardinality(Calls)
  BY <1>1, <1>2, <1>3
<1> QED BY <1>4 DEF IssuedAtTheEnd, CredentialNumbers, MaxCredential, n, k

\* A call that is not over moves, and may make a credential when it ends.
LEMMA CallEnds ==
  ASSUME AccessConstants, AccessInv, NEW c \in Calls, calls[c].pc # "done", \A x \in Calls \ {c} : calls'[x] = calls[x], flows' = flows,
         issued' = issued \/ (issued' = issued + 1 /\ calls'[c].pc = "done")
  PROVE  IssuedAtTheEnd' /\ issued' \in CredentialNumbers
<1> DEFINE M == {x \in Calls : calls[x].pc = "done"}
           N == {x \in Calls : calls'[x].pc = "done"}
           K == {x \in Flows : flows[x].pc = "done"}
           m == Cardinality(M)
           n == Cardinality(N)
           k == Cardinality(K)
<1>a. c \notin M /\ (c \in N <=> calls'[c].pc = "done") /\ \A x \in Calls \ {c} : x \in M <=> x \in N
  OBVIOUS
<1>b. M \in SUBSET Calls /\ N \in SUBSET Calls /\ K \in SUBSET Flows
  OBVIOUS
<1>1. m \in Nat /\ n \in Nat /\ m <= n /\ (calls'[c].pc = "done" => n = m + 1) /\ n <= Cardinality(Calls) /\ Cardinality(Calls) \in Nat
  <2>1. IsFiniteSet(Calls)
    BY DEF AccessConstants
  <2> HIDE DEF M, N
  <2> QED BY <1>a, <1>b, <2>1, DoneRows
<1>2. k \in Nat /\ k <= Cardinality(Flows) /\ Cardinality(Flows) \in Nat
  <2> HIDE DEF K
  <2> QED BY <1>b, DoneCount DEF AccessConstants
<1>3. issued \in Nat /\ issued <= k + m
  BY Numbers DEF AccessInv, AccessTypeOK, IssuedAtTheEnd
<1> HIDE DEF m, n, k
<1>4. issued' <= k + n /\ issued' \in 0..Cardinality(Flows) + Cardinality(Calls)
  BY <1>1, <1>2, <1>3
<1> QED BY <1>4 DEF IssuedAtTheEnd, CredentialNumbers, MaxCredential, n, k

\* No step gives a copy to another account: what is read is the account's own copy, what is new was never used.
LEMMA OwnersStep ==
  ASSUME AccessConstants, AccessInv, NEW o \in Accounts, issued' = issued \/ issued' = issued + 1,
         \A a \in Accounts : \/ accounts'[a].credential = 0 \/ Copy(a, accounts'[a].credential)
                             \/ issued' = issued + 1 /\ a = o /\ accounts'[a].credential = issued + 1,
         \A f \in Flows : \/ flows'[f] = flows[f] \/ flows'[f].seen.credential = 0
                          \/ Copy(flows'[f].account, flows'[f].seen.credential),
         \A c \in Calls : \/ calls'[c] = calls[c] \/ calls'[c].seen.credential = 0
                          \/ Copy(calls'[c].account, calls'[c].seen.credential)
  PROVE  OneOwner'
<1>1. issued \in Nat /\ \A k \in CredentialNumbers : k \in Nat
  BY Numbers DEF AccessInv, AccessTypeOK
<1>2. \A a \in Accounts, k \in CredentialNumbers \ {0} :
        Copy(a, k)' => Copy(a, k) \/ (issued' = issued + 1 /\ a = o /\ k = issued + 1)
  BY DEF Copy
<1>3. \A a, b \in Accounts, k \in CredentialNumbers \ {0} : Copy(a, k) => k <= issued /\ (Copy(b, k) => a = b)
  BY DEF AccessInv, OneOwner
<1>4. \A a, b \in Accounts, k \in CredentialNumbers \ {0} : Copy(a, k)' => k <= issued' /\ (Copy(b, k)' => a = b)
  BY <1>1, <1>2, <1>3
<1> QED BY <1>4 DEF OneOwner

-----------------------------------------------------------------------------
(* The steps.                                                              *)

\* The invariant holds before anybody connects an account.
LEMMA AccessInitInv == AccessConstants /\ AccessInit => AccessInv
<1> SUFFICES ASSUME AccessConstants, AccessInit PROVE AccessInv
  OBVIOUS
<1>1. /\ \A f \in Flows : flows[f] = IdleFlow
      /\ \A c \in Calls : calls[c] = IdleCall
      /\ \A a \in Accounts : accounts[a] = NoAccess
  BY DEF AccessInit
<1>2. AccessTypeOK
  <2>1. /\ kinds \in [Accounts -> Kinds] /\ accounts \in [Accounts -> ConnectedAccount]
        /\ flows \in [Flows -> OAuthConnectionState] /\ calls \in [Calls -> Call]
    BY IdleRows DEF AccessInit
  <2>2. grants \in [Grants -> ProviderGrant]
    BY DEF AccessInit, ProviderGrant, ProviderGrantStatus
  <2>3. /\ secrets \subseteq 1..MaxCredential /\ issued \in CredentialNumbers /\ links \subseteq Accounts \X Grants
        /\ validations \in [Grants -> Nat] /\ told \subseteq Grants
        /\ privateData \subseteq Accounts /\ overwritten \subseteq Accounts
    BY Numbers DEF AccessInit
  <2>4. renewals \in [Accounts -> [1..MaxCredential -> 0..MaxRefreshAttempts + 1]]
    BY DEF AccessInit, AccessConstants
  <2>5. deletion \in ProviderDataDeletionRequest
    <3>1. SomeGrant \in Grants /\ 0 \in 0..MaxErasureAttempts /\ "none" \in DeletionStatus /\ "idle" \in DeletionStages
      BY DEF AccessConstants, SomeGrant, DeletionStatus, DeletionStages
    <3> QED BY <3>1 DEF AccessInit, ProviderDataDeletionRequest
  <2> QED BY <2>1, <2>2, <2>3, <2>4, <2>5 DEF AccessTypeOK, CredentialNumbers
<1>3. IssuedAtTheEnd
  <2> DEFINE M == {f \in Flows : flows[f].pc = "done"}
             N == {c \in Calls : calls[c].pc = "done"}
  <2>1. Cardinality(M) \in Nat /\ Cardinality(N) \in Nat
    <3>1. M \in SUBSET Flows /\ N \in SUBSET Calls /\ IsFiniteSet(Flows) /\ IsFiniteSet(Calls)
      BY DEF AccessConstants
    <3> HIDE DEF M, N
    <3> QED BY <3>1, DoneCount
  <2> HIDE DEF M, N
  <2>2. 0 <= Cardinality(M) + Cardinality(N)
    BY <2>1
  <2> QED BY <2>2 DEF IssuedAtTheEnd, AccessInit, M, N
<1>4. OneOwner /\ CopiesBegin /\ CredentialExists
  BY <1>1, IdleRows DEF OneOwner, Copy, CopiesBegin, CredentialExists
<1>5. SupersededIsUnlinked
  BY DEF AccessInit, SupersededIsUnlinked, OpenGrant
<1> QED BY <1>2, <1>3, <1>4, <1>5 DEF AccessInv

\* A connection goes on without touching the store.
LEMMA FlowMoves ==
  ASSUME AccessConstants, AccessInv, NEW f \in Flows, flows[f].pc # "done", NEW q \in OAuthConnectionState, q.pc # "idle",
         q.seen.credential = 0 \/ Copy(q.account, q.seen.credential), flows' = [flows EXCEPT ![f] = q],
         UNCHANGED <<kinds, accounts, secrets, issued, grants, links, calls, renewals, validations, told, deletion,
                     privateData, overwritten>>
  PROVE  AccessInv'
<1>1. flows \in [Flows -> OAuthConnectionState] /\ AccessTypeOK
  BY DEF AccessInv, AccessTypeOK
<1>2. flows' \in [Flows -> OAuthConnectionState] /\ flows'[f] = q /\ \A x \in Flows \ {f} : flows'[x] = flows[x]
  BY <1>1
<1>3. IssuedAtTheEnd'
  BY <1>2, FlowEnds
<1>4. OneOwner'
  <2>1. PICK o \in Accounts : TRUE
    BY DEF AccessConstants
  <2>2. \A a \in Accounts : Copy(a, accounts'[a].credential)
    BY DEF Copy
  <2> QED BY <1>2, <2>1, <2>2, OwnersStep
<1>5. AccessTypeOK'
  BY <1>1, <1>2 DEF AccessTypeOK, MaxCredential
<1>6. CopiesBegin'
  BY <1>2 DEF AccessInv, CopiesBegin
<1>7. CredentialExists' /\ SupersededIsUnlinked'
  BY DEF AccessInv, CredentialExists, SupersededIsUnlinked, linkedAccounts
<1> QED BY <1>3, <1>4, <1>5, <1>6, <1>7 DEF AccessInv

\* A consent is asked for.
LEMMA StateCreated ==
  ASSUME AccessConstants, AccessInv, NEW f \in Flows, NEW a \in Accounts, NEW g \in Grants, NEW task \in Tasks, createState(f, a, g, task)
  PROVE  AccessInv'
<1>1. flows[f] \in OAuthConnectionState /\ flows[f].pc = "idle" /\ flows[f].seen.credential = 0
  BY DEF AccessInv, AccessTypeOK, CopiesBegin, createState
<1>2. PICK x \in FlowStages : x = "started"
  BY DEF FlowStages
<1>3. PICK q : q = [flows[f] EXCEPT !.pc = x, !.task = task, !.account = a, !.grant = g]
  OBVIOUS
<1>4. q \in OAuthConnectionState /\ q.pc = x /\ q.seen = flows[f].seen
  BY <1>1, <1>3, FlowRow DEF OAuthConnectionState
<1>5. flows' = [flows EXCEPT ![f] = q]
  BY <1>2, <1>3 DEF createState
<1> QED BY <1>1, <1>2, <1>4, <1>5, FlowMoves DEF createState

\* The provider has answered, or a person has chosen: the flow ends, or goes on with the account as it is now.
LEMMA FlowAdvances ==
  ASSUME AccessConstants, AccessInv, NEW f \in Flows, NEW next \in {"selecting", "saving", "done"}, flows[f].pc # "done",
         flows' = [flows EXCEPT ![f] = IF next = "done" THEN [IdleFlow EXCEPT !.pc = "done"]
                                       ELSE [@ EXCEPT !.pc = next, !.seen = accounts[flows[f].account]]],
         UNCHANGED <<kinds, accounts, secrets, issued, grants, links, calls, renewals, validations, told, deletion,
                     privateData, overwritten>>
  PROVE  AccessInv'
<1>1. flows \in [Flows -> OAuthConnectionState] /\ flows[f] \in OAuthConnectionState /\ accounts \in [Accounts -> ConnectedAccount]
  BY DEF AccessInv, AccessTypeOK
<1>2. PICK x \in FlowStages : x = next /\ x # "idle"
  BY DEF FlowStages
<1>3. CASE next = "done"
  <2>1. PICK q : q = [IdleFlow EXCEPT !.pc = x]
    OBVIOUS
  <2>2. q \in OAuthConnectionState /\ q.pc = x /\ q.seen = NoAccess
    BY <2>1, FlowRow, IdleRows DEF OAuthConnectionState
  <2>3. flows' = [flows EXCEPT ![f] = q]
    BY <1>2, <1>3, <2>1
  <2> QED BY <1>2, <2>2, <2>3, IdleRows, FlowMoves
<1>4. CASE next # "done"
  <2>1. flows[f].account \in Accounts
    BY <1>1 DEF OAuthConnectionState
  <2>2. accounts[flows[f].account] \in ConnectedAccount
    BY <1>1, <2>1
  <2>3. PICK q : q = [flows[f] EXCEPT !.pc = x, !.seen = accounts[flows[f].account]]
    OBVIOUS
  <2>4. q \in OAuthConnectionState /\ q.pc = x /\ q.account = flows[f].account /\ q.seen = accounts[flows[f].account]
    BY <1>1, <2>2, <2>3, FlowRow DEF OAuthConnectionState
  <2>5. flows' = [flows EXCEPT ![f] = q]
    BY <1>1, <1>2, <1>4, <2>3
  <2>6. Copy(q.account, q.seen.credential)
    BY <2>4 DEF Copy
  <2> QED BY <1>2, <2>4, <2>5, <2>6, FlowMoves
<1> QED BY <1>3, <1>4

\* Every step of a connection but the last.
LEMMA ConnectKeeps ==
  ASSUME AccessConstants, AccessInv, NEW f \in Flows, Connect(f), ~completeOAuthSelection(f)
  PROVE  AccessInv'
<1>1. ASSUME NEW a \in Accounts, NEW g \in Grants,
             \/ startInstagram(f, a, g) \/ startYouTube(f, a, g) \/ startFacebook(f, a, g)
             \/ startInstagramFacebook(f, a, g) \/ startMetaMessaging(f, a, g)
      PROVE  AccessInv'
  <2>1. \E task \in Tasks : createState(f, a, g, task)
    BY <1>1 DEF startInstagram, startYouTube, startFacebook, startInstagramFacebook, startMetaMessaging, Tasks, Kinds
  <2> QED BY <2>1, StateCreated
<1>2. ASSUME NEW task, NEW next \in {"selecting", "saving", "done"}, consumeState(f, task, next) PROVE AccessInv'
  BY <1>2, FlowAdvances DEF consumeState
<1>3. ASSUME NEW task, NEW next \in {"selecting", "saving", "done"}, openSelection(f, task, next) PROVE AccessInv'
  BY <1>3, FlowAdvances DEF openSelection
<1>4. ASSUME NEW said \in Said,
             \/ callbackInstagram(f, said) \/ callbackYouTube(f, said) \/ callbackFacebook(f, said)
             \/ callbackInstagramFacebook(f, said) \/ callbackMetaMessaging(f, said)
      PROVE  AccessInv'
  <2> USE <1>2
  <2>1. CASE callbackInstagram(f, said)
    BY <2>1 DEF callbackInstagram
  <2>2. CASE callbackYouTube(f, said)
    BY <2>2 DEF callbackYouTube
  <2>3. CASE callbackFacebook(f, said)
    BY <2>3 DEF callbackFacebook
  <2>4. CASE callbackInstagramFacebook(f, said)
    BY <2>4 DEF callbackInstagramFacebook
  <2>5. CASE callbackMetaMessaging(f, said)
    BY <2>5 DEF callbackMetaMessaging
  <2> QED BY <1>4, <2>1, <2>2, <2>3, <2>4, <2>5
<1>5. ASSUME NEW said \in Said, completeMetaMessagingSelection(f, said) PROVE AccessInv'
  BY <1>3, <1>5 DEF completeMetaMessagingSelection
<1>6. CASE completeFacebookSelection(f) \/ completeInstagramFacebookSelection(f) \/ expireSelection(f)
  BY <1>3, <1>6 DEF completeFacebookSelection, completeInstagramFacebookSelection, expireSelection
<1> QED BY <1>1, <1>4, <1>5, <1>6 DEF Connect

\* The commands and requests that no copy depends on are well formed after a step of the store.
Bookkeeping ==
  /\ grants' \in [Grants -> ProviderGrant] /\ links' \subseteq Accounts \X Grants
  /\ renewals' \in [Accounts -> [1..MaxCredential -> 0..MaxRefreshAttempts + 1]]
  /\ validations' \in [Grants -> Nat] /\ told' \subseteq Grants
  /\ deletion' \in ProviderDataDeletionRequest
  /\ privateData' \subseteq Accounts /\ overwritten' \subseteq Accounts

\* What a step makes of the accounts: it drops a credential, uses one that a copy has, or gives o a new one.
Stores(o) ==
  /\ accounts' \in [Accounts -> ConnectedAccount]
  /\ \A a \in Accounts : \/ accounts'[a].credential = 0 \/ Copy(a, accounts'[a].credential)
                         \/ issued' = issued + 1 /\ a = o /\ accounts'[a].credential = issued + 1
  /\ \A k \in secrets' : k \in secrets \/ (issued' = issued + 1 /\ k = issued + 1)

\* A step of one flow or one call, of what it keeps.
LEMMA StoreStep ==
  ASSUME AccessConstants, AccessInv, NEW o \in Accounts, Stores(o), Bookkeeping, UNCHANGED kinds,
         issued' = issued \/ issued' = issued + 1, issued' \in CredentialNumbers, IssuedAtTheEnd',
         flows' \in [Flows -> OAuthConnectionState], calls' \in [Calls -> Call], CopiesBegin',
         \A f \in Flows : \/ flows'[f] = flows[f] \/ flows'[f].seen.credential = 0
                          \/ Copy(flows'[f].account, flows'[f].seen.credential),
         \A c \in Calls : \/ calls'[c] = calls[c] \/ calls'[c].seen.credential = 0
                          \/ Copy(calls'[c].account, calls'[c].seen.credential),
         CredentialExists', SupersededIsUnlinked'
  PROVE  AccessInv'
<1>1. OneOwner'
  BY OwnersStep DEF Stores
<1>2. secrets' \subseteq 1..MaxCredential
  <2>1. issued \in Nat /\ secrets \subseteq 1..MaxCredential /\ MaxCredential \in Nat
    BY Numbers DEF AccessInv, AccessTypeOK
  <2>2. issued' = issued + 1 => issued + 1 \in 1..MaxCredential
    BY <2>1, Numbers
  <2>3. \A k \in secrets' : k \in secrets \/ (issued' = issued + 1 /\ k = issued + 1)
    BY DEF Stores
  <2> QED BY <2>1, <2>2, <2>3
<1>3. kinds' \in [Accounts -> Kinds]
  BY DEF AccessInv, AccessTypeOK
<1>4. AccessTypeOK'
  BY <1>2, <1>3 DEF AccessTypeOK, Stores, Bookkeeping, CredentialNumbers, MaxCredential
<1> QED BY <1>1, <1>4 DEF AccessInv

\* A request or a job moves to q.
LEMMA CallMoves ==
  ASSUME AccessConstants, AccessInv, NEW c \in Calls, calls[c].pc # "done", NEW q \in Call, calls' = [calls EXCEPT ![c] = q],
         q.pc = "idle" => q.seen.credential = 0,
         q.pc = "ready" /\ q.op = "check" => q.next.credential = q.seen.credential,
         q.seen.credential = 0 \/ Copy(q.account, q.seen.credential),
         issued' = issued \/ (issued' = issued + 1 /\ q.pc = "done"),
         NEW o \in Accounts, Stores(o), Bookkeeping, UNCHANGED <<kinds, flows>>, CredentialExists', SupersededIsUnlinked'
  PROVE  AccessInv'
<1>1. calls \in [Calls -> Call] /\ flows \in [Flows -> OAuthConnectionState]
  BY DEF AccessInv, AccessTypeOK
<1>2. calls' \in [Calls -> Call] /\ calls'[c] = q /\ \A x \in Calls \ {c} : calls'[x] = calls[x]
  BY <1>1
<1>3. IssuedAtTheEnd' /\ issued' \in CredentialNumbers
  BY <1>2, CallEnds
<1>4. CopiesBegin'
  BY <1>2 DEF AccessInv, CopiesBegin
<1> QED BY <1>1, <1>2, <1>3, <1>4, StoreStep

\* A step of the store that no flow or call takes.
LEMMA StoreMoves ==
  ASSUME AccessConstants, AccessInv, NEW o \in Accounts, Stores(o), Bookkeeping, UNCHANGED <<kinds, flows, calls, issued>>,
         CredentialExists', SupersededIsUnlinked'
  PROVE  AccessInv'
<1>1. calls \in [Calls -> Call] /\ flows \in [Flows -> OAuthConnectionState] /\ issued \in CredentialNumbers
  BY DEF AccessInv, AccessTypeOK, CredentialNumbers
<1>2. IssuedAtTheEnd' /\ CopiesBegin'
  BY DEF AccessInv, IssuedAtTheEnd, CopiesBegin
<1> QED BY <1>1, <1>2, StoreStep

\* What a step leaves alone stays well formed.
LEMMA Kept ==
  ASSUME AccessInv
  PROVE  /\ UNCHANGED grants => grants' \in [Grants -> ProviderGrant]
         /\ UNCHANGED links => links' \subseteq Accounts \X Grants
         /\ UNCHANGED renewals => renewals' \in [Accounts -> [1..MaxCredential -> 0..MaxRefreshAttempts + 1]]
         /\ UNCHANGED validations => validations' \in [Grants -> Nat]
         /\ UNCHANGED told => told' \subseteq Grants
         /\ UNCHANGED deletion => deletion' \in ProviderDataDeletionRequest
         /\ UNCHANGED privateData => privateData' \subseteq Accounts
         /\ UNCHANGED overwritten => overwritten' \subseteq Accounts
         /\ UNCHANGED <<accounts, secrets>> => \A o \in Accounts : Stores(o)
         /\ UNCHANGED <<accounts, secrets, overwritten>> => CredentialExists'
         /\ UNCHANGED <<grants, links>> => SupersededIsUnlinked'
<1>1. AccessTypeOK /\ CredentialExists /\ SupersededIsUnlinked
  BY DEF AccessInv
<1>2. UNCHANGED <<accounts, secrets>> => \A o \in Accounts : Stores(o)
  BY <1>1 DEF AccessTypeOK, Stores, Copy
<1>3. UNCHANGED <<accounts, secrets, overwritten>> => CredentialExists'
  BY <1>1 DEF CredentialExists
<1>4. UNCHANGED <<grants, links>> => SupersededIsUnlinked'
  BY <1>1 DEF SupersededIsUnlinked, linkedAccounts
<1> QED BY <1>1, <1>2, <1>3, <1>4 DEF AccessTypeOK

\* The rows a request leaves behind.
LEMMA EndedCall ==
  ASSUME AccessConstants, NEW x \in CallStages
  PROVE  [IdleCall EXCEPT !.pc = x] \in Call /\ [IdleCall EXCEPT !.pc = x].pc = x /\ [IdleCall EXCEPT !.pc = x].seen.credential = 0
<1>1. IdleCall \in Call /\ IdleCall.seen = NoAccess /\ NoAccess.credential = 0
  BY IdleRows
<1>2. PICK q : q = IdleCall
  OBVIOUS
<1> QED BY <1>1, <1>2, CallEnded DEF Call

-----------------------------------------------------------------------------
(* Requests of an owner.                                                   *)

\* What a save without a fence does: the account is the record, and an overwritten one when it had changed.
LEMMA SaveStores ==
  ASSUME AccessConstants, AccessInv, NEW a \in Accounts, NEW seen \in ConnectedAccount, NEW record \in ConnectedAccount,
         Copy(a, seen.credential), record.credential \in {0, seen.credential}, save(a, seen, record),
         \/ secrets' = secrets
         \/ (secrets' = secrets \ {seen.credential} /\ record.credential = 0)
  PROVE  (\A o \in Accounts : Stores(o)) /\ CredentialExists' /\ overwritten' \subseteq Accounts
<1>1. accounts \in [Accounts -> ConnectedAccount] /\ overwritten \subseteq Accounts /\ secrets \subseteq 1..MaxCredential
  BY DEF AccessInv, AccessTypeOK
<1>2. accounts' \in [Accounts -> ConnectedAccount] /\ accounts'[a] = record /\ \A b \in Accounts \ {a} : accounts'[b] = accounts[b]
  BY <1>1 DEF save
<1>3. \A o \in Accounts : Stores(o)
  BY <1>2 DEF Stores, Copy
<1>4. overwritten \subseteq overwritten' /\ (a \in overwritten' \/ accounts[a] = seen) /\ overwritten' \subseteq Accounts
  BY <1>1 DEF save
<1>5. CredentialExists'
  <2> SUFFICES ASSUME NEW b \in Accounts, b \notin overwritten', accounts'[b].credential # 0
               PROVE  accounts'[b].credential \in secrets'
    BY DEF CredentialExists
  <2>1. CASE b = a
    <3>1. accounts[a].credential = seen.credential /\ a \notin overwritten /\ record.credential = seen.credential
      BY <1>2, <1>4, <2>1
    <3> QED BY <1>2, <2>1, <3>1 DEF AccessInv, CredentialExists
  <2>2. CASE b # a
    <3>1. accounts'[b] = accounts[b] /\ accounts[b].credential \in secrets
      BY <1>2, <1>4, <2>2 DEF AccessInv, CredentialExists
    <3>2. accounts[b].credential \in CredentialNumbers \ {0} /\ Copy(b, accounts[b].credential)
      BY <1>1, <1>2, <3>1 DEF ConnectedAccount, Copy
    <3>3. accounts[b].credential # seen.credential
      BY <2>2, <3>2 DEF AccessInv, OneOwner
    <3> QED BY <3>1, <3>3
  <2> QED BY <2>1, <2>2
<1> QED BY <1>3, <1>4, <1>5

\* A request that changes the account and nothing else.
LEMMA RequestMoves ==
  ASSUME AccessConstants, AccessInv, NEW c \in Calls, calls[c].pc # "done", NEW q \in Call, calls' = [calls EXCEPT ![c] = q],
         q.pc # "idle", q.pc = "ready" /\ q.op = "check" => q.next.credential = q.seen.credential,
         q.seen.credential = 0 \/ Copy(q.account, q.seen.credential),
         \A o \in Accounts : Stores(o), CredentialExists', overwritten' \subseteq Accounts, UNCHANGED AccountRest
  PROVE  AccessInv'
<1>1. PICK o \in Accounts : TRUE
  BY DEF AccessConstants
<1>2. Bookkeeping /\ SupersededIsUnlinked'
  BY Kept DEF Bookkeeping, AccountRest
<1> QED BY <1>1, <1>2, CallMoves DEF AccountRest

\* A call has a copy of the account it is about.
LEMMA CallIsTyped ==
  ASSUME AccessInv, NEW c \in Calls
  PROVE  /\ calls[c] \in Call /\ calls[c].account \in Accounts /\ calls[c].seen \in ConnectedAccount /\ calls[c].grant \in Grants
         /\ calls[c].next \in ConnectedAccount /\ calls[c].verdict \in Outcomes /\ calls[c].version \in Nat
         /\ Copy(calls[c].account, calls[c].seen.credential) /\ calls[c].pc \in CallStages
<1>1. calls[c] \in Call
  BY DEF AccessInv, AccessTypeOK
<1> QED BY <1>1 DEF Call, Copy

\* Stages, operations and states by name.
LEMMA Names ==
  /\ "read" \in CallStages /\ "ready" \in CallStages /\ "done" \in CallStages /\ "idle" \in CallStages
  /\ {"healthy", "expiring", "refresh_failed", "setup_required", "disconnected"} \subseteq AccountStatus
  /\ "check" \in Operations /\ "renewal" \in Operations /\ "validation" \in Operations
  BY DEF CallStages, AccountStatus, Operations

\* The account is entered, a request begins.
LEMMA BeginKeeps ==
  ASSUME AccessConstants, AccessInv, NEW c \in Calls, NEW a \in Accounts,
         create(c, a) \/ \E op \in OwnerRequests(a) : begin(c, a, op)
  PROVE  AccessInv'
<1>1. calls[c] \in Call /\ accounts \in [Accounts -> ConnectedAccount] /\ accounts[a] \in ConnectedAccount
  BY CallIsTyped DEF AccessInv, AccessTypeOK
<1>2. PICK x \in CallStages : x = "read"
  BY Names
<1>3. ASSUME NEW op \in Operations, NEW r \in ConnectedAccount, r.credential = accounts[a].credential, calls[c].pc = "idle",
             calls' = [calls EXCEPT ![c] = [@ EXCEPT !.pc = x, !.op = op, !.account = a, !.seen = r]],
             \A o \in Accounts : Stores(o), CredentialExists', UNCHANGED overwritten, UNCHANGED AccountRest
      PROVE  AccessInv'
  <2>1. PICK q : q = [calls[c] EXCEPT !.pc = x, !.op = op, !.account = a, !.seen = r]
    OBVIOUS
  <2>2. q \in Call /\ q.pc = x /\ q.account = a /\ q.seen = r
    BY <1>1, <2>1 DEF Call
  <2>3. calls' = [calls EXCEPT ![c] = q]
    BY <1>3, <2>1
  <2>4. Copy(q.account, q.seen.credential)
    BY <1>3, <2>2 DEF Copy
  <2> QED BY <1>2, <1>3, <2>2, <2>3, <2>4, Kept, RequestMoves
<1>4. CASE create(c, a)
  <2>1. PICK s \in AccountStatus : s = "setup_required"
    BY Names
  <2>2. [accounts[a] EXCEPT !.status = s] \in ConnectedAccount /\ [accounts[a] EXCEPT !.status = s].credential = accounts[a].credential
    BY <1>1, AccountRow
  <2>3. accounts' = [accounts EXCEPT ![a] = [accounts[a] EXCEPT !.status = s]]
    BY <1>1, <1>4, <2>1 DEF create, ConnectedAccount
  <2>4. accounts' \in [Accounts -> ConnectedAccount] /\ \A b \in Accounts : accounts'[b].credential = accounts[b].credential
    BY <1>1, <2>2, <2>3
  <2>5. \A o \in Accounts : Stores(o)
    BY <1>4, <2>4 DEF Stores, Copy, create, AccountRest
  <2>6. CredentialExists'
    BY <1>4, <2>4 DEF AccessInv, CredentialExists, create, AccountRest
  <2>7. PICK op \in Operations : op = "check"
    BY Names
  <2> QED BY <1>2, <1>3, <1>4, <2>4, <2>5, <2>6, <2>7 DEF create
<1>5. ASSUME NEW op \in OwnerRequests(a), begin(c, a, op) PROVE AccessInv'
  <2>1. op \in Operations
    BY DEF OwnerRequests, Operations
  <2>2. (\A o \in Accounts : Stores(o)) /\ CredentialExists' /\ UNCHANGED overwritten /\ UNCHANGED AccountRest
    BY <1>5, Kept DEF begin, AccountRest
  <2> QED BY <1>1, <1>2, <1>3, <1>5, <2>1, <2>2 DEF begin
<1> QED BY <1>4, <1>5

\* A request ends after it has changed the account, or nothing.
LEMMA RequestEnds ==
  ASSUME AccessConstants, AccessInv, NEW c \in Calls, calls[c].pc # "done", Ends(c),
         \A o \in Accounts : Stores(o), CredentialExists', overwritten' \subseteq Accounts, UNCHANGED AccountRest
  PROVE  AccessInv'
<1>1. PICK x \in CallStages : x = "done"
  BY Names
<1>2. PICK q : q = [IdleCall EXCEPT !.pc = x]
  OBVIOUS
<1>3. q \in Call /\ q.pc = x /\ q.seen.credential = 0
  BY <1>2, EndedCall
<1>4. calls' = [calls EXCEPT ![c] = q]
  BY <1>1, <1>2 DEF Ends
<1> QED BY <1>1, <1>3, <1>4, RequestMoves

\* The doctor's check, its save, the edit, the refresh of a Page, the block of a disconnection.
LEMMA RequestKeeps ==
  ASSUME AccessConstants, AccessInv, NEW c \in Calls,
         \/ \E status \in {"healthy", "expiring", "refresh_failed", "setup_required"} : check(c, status)
         \/ saveCheck(c) \/ update(c) \/ disconnect(c) \/ giveUp(c)
         \/ \E yes \in BOOLEAN : refreshFacebook(c, yes)
  PROVE  AccessInv'
<1>1. /\ calls[c] \in Call /\ calls[c].account \in Accounts /\ calls[c].seen \in ConnectedAccount
      /\ calls[c].next \in ConnectedAccount /\ Copy(calls[c].account, calls[c].seen.credential)
  BY CallIsTyped
<1>2. calls[c].pc = "ready" /\ calls[c].op = "check" => calls[c].next.credential = calls[c].seen.credential
  BY DEF AccessInv, CopiesBegin
<1>3. ASSUME NEW status \in {"healthy", "expiring", "refresh_failed", "setup_required"}, check(c, status) PROVE AccessInv'
  <2>1. PICK s \in AccountStatus : s = status
    BY Names
  <2>2. PICK r : r = [calls[c].seen EXCEPT !.status = s]
    OBVIOUS
  <2>3. r \in ConnectedAccount /\ r.credential = calls[c].seen.credential
    BY <1>1, <2>2, AccountRow
  <2>4. PICK x \in CallStages : x = "ready"
    BY Names
  <2>5. PICK q : q = [calls[c] EXCEPT !.pc = x, !.next = r]
    OBVIOUS
  <2>6. q \in Call /\ q.pc = x /\ q.seen = calls[c].seen /\ q.account = calls[c].account /\ q.next = r
    BY <1>1, <2>3, <2>5 DEF Call
  <2>7. calls' = [calls EXCEPT ![c] = q] /\ calls[c].pc = "read"
    BY <1>3, <2>1, <2>2, <2>4, <2>5 DEF check
  <2>8. (\A o \in Accounts : Stores(o)) /\ CredentialExists' /\ overwritten' \subseteq Accounts /\ UNCHANGED AccountRest
    BY <1>3, Kept DEF check, AccountRest
  <2> QED BY <1>1, <2>3, <2>4, <2>6, <2>7, <2>8, RequestMoves
<1>4. ASSUME NEW r \in ConnectedAccount, r.credential = calls[c].seen.credential, save(calls[c].account, calls[c].seen, r),
             UNCHANGED AccountRest
      PROVE  (\A o \in Accounts : Stores(o)) /\ CredentialExists' /\ overwritten' \subseteq Accounts
  BY <1>1, <1>4, SaveStores DEF AccountRest
<1>5. CASE saveCheck(c)
  BY <1>1, <1>2, <1>4, <1>5, RequestEnds DEF saveCheck
<1>6. CASE giveUp(c)
  BY <1>6, Kept, RequestEnds DEF giveUp, AccountRest
<1>7. ASSUME NEW yes \in BOOLEAN, refreshFacebook(c, yes) PROVE AccessInv'
  <2>1. PICK s \in AccountStatus : s = IF yes THEN "healthy" ELSE "refresh_failed"
    BY Names
  <2>2. PICK r : r = [calls[c].seen EXCEPT !.status = s]
    OBVIOUS
  <2>3. r \in ConnectedAccount /\ r.credential = calls[c].seen.credential
    BY <1>1, <2>2, AccountRow
  <2>4. save(calls[c].account, calls[c].seen, r) /\ calls[c].pc = "read" /\ Ends(c) /\ UNCHANGED AccountRest
    BY <1>7, <2>1, <2>2 DEF refreshFacebook
  <2> QED BY <1>4, <2>3, <2>4, RequestEnds
<1>8. CASE update(c)
  <2>1. PICK s \in AccountStatus : s = IF calls[c].seen.status = "disconnected" THEN "setup_required" ELSE calls[c].seen.status
    BY <1>1, Names, AccountRow
  <2>2. PICK r : r = [calls[c].seen EXCEPT !.status = s]
    OBVIOUS
  <2>3. r \in ConnectedAccount /\ r.credential = calls[c].seen.credential
    BY <1>1, <2>2, AccountRow
  <2>4. PICK op \in Operations : op = "check"
    BY Names
  <2>5. PICK q : q = [calls[c] EXCEPT !.op = op, !.seen = r]
    OBVIOUS
  <2>6. q \in Call /\ q.pc = calls[c].pc /\ q.seen = r /\ q.account = calls[c].account
    BY <1>1, <2>3, <2>5 DEF Call
  <2>7. /\ save(calls[c].account, calls[c].seen, r) /\ calls[c].pc = "read" /\ UNCHANGED AccountRest
        /\ calls' = [calls EXCEPT ![c] = q]
    <3>1. r = [calls[c].seen EXCEPT !.status = IF @ = "disconnected" THEN "setup_required" ELSE @]
      BY <1>1, <2>1, <2>2 DEF ConnectedAccount
    <3> QED BY <1>8, <2>4, <2>5, <3>1 DEF update
  <2> QED BY <1>1, <1>4, <2>3, <2>6, <2>7, RequestMoves
<1>9. CASE disconnect(c)
  <2>1. PICK s \in AccountStatus : s = "disconnected"
    BY Names
  <2>2. PICK r : r = [calls[c].seen EXCEPT !.status = s]
    OBVIOUS
  <2>3. r \in ConnectedAccount /\ r.credential = calls[c].seen.credential
    BY <1>1, <2>2, AccountRow
  <2>4. PICK x \in CallStages : x = "ready"
    BY Names
  <2>5. PICK q : q = [calls[c] EXCEPT !.pc = x, !.seen = r]
    OBVIOUS
  <2>6. q \in Call /\ q.pc = x /\ q.op = calls[c].op /\ q.seen = r /\ q.account = calls[c].account
    BY <1>1, <2>3, <2>5 DEF Call
  <2>7. /\ save(calls[c].account, calls[c].seen, r) /\ calls[c].pc = "read" /\ calls[c].op = "disconnect" /\ UNCHANGED AccountRest
        /\ calls' = [calls EXCEPT ![c] = q]
    BY <1>9, <2>1, <2>2, <2>4, <2>5 DEF disconnect
  <2> QED BY <1>1, <1>4, <2>3, <2>4, <2>6, <2>7, RequestMoves
<1> QED BY <1>3, <1>5, <1>6, <1>7, <1>8, <1>9

-----------------------------------------------------------------------------
(* Grants that lose their accounts, credentials that replace another.      *)

\* A grant in another state has a new version.
LEMMA GrantRow ==
  ASSUME NEW status \in ProviderGrantStatus, NEW q \in ProviderGrant
  PROVE  /\ [status |-> status, version |-> q.version + 1] \in ProviderGrant
         /\ [status |-> status, version |-> q.version + 1].status = status
  BY DEF ProviderGrant

\* Displaced grants are superseded when nobody is left, and only then.
LEMMA Displaced ==
  ASSUME NEW all \in [Grants -> ProviderGrant], NEW displaced, NEW kept \in SUBSET (Accounts \X Grants),
         \A g \in Grants \ displaced : /\ OpenGrant(all[g].status) => \E a \in Accounts : <<a, g>> \in kept
                                       /\ all[g].status = "superseded" => \A a \in Accounts : <<a, g>> \notin kept,
         \A g \in Grants : g \in displaced => all[g].status # "superseded",
         links' = kept, grants' = touchDisplacedGrants(all, displaced, kept)
  PROVE  SupersededIsUnlinked' /\ grants' \in [Grants -> ProviderGrant]
<1> SUFFICES ASSUME NEW g \in Grants
             PROVE  /\ OpenGrant(grants'[g].status) => \E a \in Accounts : <<a, g>> \in kept
                    /\ grants'[g].status = "superseded" => \A a \in Accounts : <<a, g>> \notin kept
                    /\ grants'[g] \in ProviderGrant
  BY DEF SupersededIsUnlinked, linkedAccounts, touchDisplacedGrants
<1>1. all[g] \in ProviderGrant /\ all[g].status \in ProviderGrantStatus
  BY DEF ProviderGrant
<1>2. ~OpenGrant("superseded") /\ "superseded" \in ProviderGrantStatus
  BY DEF OpenGrant, ProviderGrantStatus
<1>3. CASE g \in displaced /\ OpenGrant(all[g].status)
  <2> DEFINE s == IF \E a \in Accounts : <<a, g>> \in kept THEN all[g].status ELSE "superseded"
  <2>1. s \in ProviderGrantStatus
    BY <1>1, <1>2
  <2>2. grants'[g] = [status |-> s, version |-> all[g].version + 1]
    BY <1>3 DEF touchDisplacedGrants
  <2>3. grants'[g].status = s
    BY <2>2
  <2>4. grants'[g] \in ProviderGrant
    <3> HIDE DEF s
    <3> QED BY <1>1, <2>1, <2>2, GrantRow
  <2> QED BY <1>2, <1>3, <2>3, <2>4
<1>4. CASE ~(g \in displaced /\ OpenGrant(all[g].status))
  <2>1. grants'[g] = all[g]
    BY <1>4 DEF touchDisplacedGrants
  <2> QED BY <1>1, <1>4, <2>1
<1> QED BY <1>3, <1>4

\* An account that gives up its grants.
LEMMA Unlinked ==
  ASSUME AccessInv, NEW a \in Accounts, links' = unlinkGrant(a),
         grants' = touchDisplacedGrants(grants, currentGrantIds(a), unlinkGrant(a))
  PROVE  SupersededIsUnlinked' /\ grants' \in [Grants -> ProviderGrant] /\ links' \subseteq Accounts \X Grants
<1>1. grants \in [Grants -> ProviderGrant] /\ links \subseteq Accounts \X Grants /\ SupersededIsUnlinked
  BY DEF AccessInv, AccessTypeOK
<1>2. PICK kept \in SUBSET (Accounts \X Grants) : kept = unlinkGrant(a)
  BY <1>1 DEF unlinkGrant
<1>3. \A g \in Grants : g \notin currentGrantIds(a) => \A b \in Accounts : <<b, g>> \in links <=> <<b, g>> \in kept
  BY <1>2 DEF currentGrantIds, unlinkGrant
<1>4. \A g \in Grants \ currentGrantIds(a) :
        /\ OpenGrant(grants[g].status) => \E b \in Accounts : <<b, g>> \in kept
        /\ grants[g].status = "superseded" => \A b \in Accounts : <<b, g>> \notin kept
  BY <1>1, <1>3 DEF SupersededIsUnlinked, linkedAccounts
<1>5. \A g \in Grants : g \in currentGrantIds(a) => grants[g].status # "superseded"
  BY <1>1 DEF SupersededIsUnlinked, linkedAccounts, currentGrantIds
<1>6. PICK displaced : displaced = currentGrantIds(a)
  OBVIOUS
<1> QED BY <1>1, <1>2, <1>4, <1>5, <1>6, Displaced

\* An account that moves to grant g.
LEMMA Linked ==
  ASSUME AccessInv, NEW a \in Accounts, NEW g \in Grants, links' = linkGrant(a, g),
         grants' = touchDisplacedGrants(saveGrant(g), currentGrantIds(a) \ {g}, linkGrant(a, g))
  PROVE  SupersededIsUnlinked' /\ grants' \in [Grants -> ProviderGrant] /\ links' \subseteq Accounts \X Grants
<1>1. grants \in [Grants -> ProviderGrant] /\ links \subseteq Accounts \X Grants /\ SupersededIsUnlinked
  BY DEF AccessInv, AccessTypeOK
<1>2. PICK kept \in SUBSET (Accounts \X Grants) : kept = linkGrant(a, g)
  BY <1>1 DEF linkGrant
<1>3. /\ <<a, g>> \in kept
      /\ \A h \in Grants : h \notin currentGrantIds(a) /\ h # g => \A b \in Accounts : <<b, h>> \in links <=> <<b, h>> \in kept
  BY <1>2 DEF currentGrantIds, linkGrant
<1>4. PICK all \in [Grants -> ProviderGrant] : all = saveGrant(g)
  <2>1. [status |-> "active", version |-> grants[g].version + 1] \in ProviderGrant
    BY <1>1, GrantRow DEF ProviderGrantStatus
  <2> QED BY <1>1, <2>1 DEF saveGrant
<1>5. all[g].status = "active" /\ \A h \in Grants \ {g} : all[h] = grants[h]
  BY <1>1, <1>4 DEF saveGrant
<1>6. PICK displaced : displaced = currentGrantIds(a) \ {g}
  OBVIOUS
<1>7. \A h \in Grants \ displaced :
        /\ OpenGrant(all[h].status) => \E b \in Accounts : <<b, h>> \in kept
        /\ all[h].status = "superseded" => \A b \in Accounts : <<b, h>> \notin kept
  BY <1>1, <1>3, <1>5, <1>6 DEF SupersededIsUnlinked, linkedAccounts
<1>8. \A h \in Grants : h \in displaced => all[h].status # "superseded"
  BY <1>1, <1>5, <1>6 DEF SupersededIsUnlinked, linkedAccounts, currentGrantIds
<1> QED BY <1>2, <1>4, <1>6, <1>7, <1>8, Displaced

\* The second half of a disconnection.
LEMMA RevokeKeeps ==
  ASSUME AccessConstants, AccessInv, NEW c \in Calls, NEW revoked \in BOOLEAN, revokeYouTube(c, revoked)
  PROVE  AccessInv'
<1> DEFINE a == calls[c].account
           seen == calls[c].seen
           keep == kinds[a] = "youtube" /\ seen.credential # 0 /\ ~revoked
<1>1. a \in Accounts /\ seen \in ConnectedAccount /\ Copy(a, seen.credential) /\ calls[c].pc = "ready"
  BY CallIsTyped DEF revokeYouTube
<1>2. PICK q \in Call : q = [IdleCall EXCEPT !.pc = "done"] /\ q.pc = "done" /\ q.seen.credential = 0
  BY Names, EndedCall
<1>3. calls' = [calls EXCEPT ![c] = q] /\ UNCHANGED <<kinds, issued, flows, renewals, validations, told, deletion, privateData>>
  BY <1>2 DEF revokeYouTube, Ends
<1>4. PICK r \in ConnectedAccount : /\ r = (IF keep THEN seen ELSE [seen EXCEPT !.credential = 0])
                                    /\ r.credential = IF keep THEN seen.credential ELSE 0
  <2>1. PICK e : e = [seen EXCEPT !.credential = 0]
    OBVIOUS
  <2>2. e \in ConnectedAccount /\ e.credential = 0
    <3>1. "healthy" \in AccountStatus
      BY Names
    <3> HIDE DEF seen
    <3> QED BY <1>1, <2>1, <3>1, AccountRow
  <2> HIDE DEF seen, keep
  <2> QED BY <1>1, <2>1, <2>2
<1>5. save(a, seen, r) /\ secrets' = (IF keep THEN secrets ELSE secrets \ {seen.credential})
  BY <1>4 DEF revokeYouTube
<1>6. (\A o \in Accounts : Stores(o)) /\ CredentialExists' /\ overwritten' \subseteq Accounts
  <2> HIDE DEF a, seen, keep
  <2> QED BY <1>1, <1>4, <1>5, SaveStores
<1>7. SupersededIsUnlinked' /\ grants' \in [Grants -> ProviderGrant] /\ links' \subseteq Accounts \X Grants
  <2>1. CASE keep
    BY <2>1, Kept DEF revokeYouTube
  <2>2. CASE ~keep
    BY <1>1, <2>2, Unlinked DEF revokeYouTube
  <2> QED BY <2>1, <2>2
<1>8. Bookkeeping
  BY <1>3, <1>6, <1>7, Kept DEF Bookkeeping
<1> QED BY <1>1, <1>2, <1>3, <1>6, <1>7, <1>8, CallMoves

\* The end of a connection: a new credential replaces the one of the copy that the flow read.
LEMMA ConnectionSaved ==
  ASSUME AccessConstants, AccessInv, NEW f \in Flows, completeOAuthSelection(f)
  PROVE  AccessInv'
<1> DEFINE a == flows[f].account
           g == flows[f].grant
           seen == flows[f].seen
<1>1. flows \in [Flows -> OAuthConnectionState] /\ flows[f] \in OAuthConnectionState /\ accounts \in [Accounts -> ConnectedAccount]
      /\ calls \in [Calls -> Call]
  BY DEF AccessInv, AccessTypeOK
<1>2. a \in Accounts /\ g \in Grants /\ seen \in ConnectedAccount /\ Copy(a, seen.credential)
  BY <1>1 DEF OAuthConnectionState, Copy
<1>3. flows[f].pc = "saving" /\ saveConnection(a, g, seen) /\ flows' = [flows EXCEPT ![f] = [IdleFlow EXCEPT !.pc = "done"]]
      /\ UNCHANGED <<kinds, calls, renewals, validations, told, deletion, privateData>>
  BY DEF completeOAuthSelection
<1> HIDE DEF a, g, seen
<1>4. PICK q \in OAuthConnectionState : q = [IdleFlow EXCEPT !.pc = "done"] /\ q.pc = "done" /\ q.seen.credential = 0
  <2>1. PICK x \in FlowStages : x = "done"
    BY DEF FlowStages
  <2>2. PICK q : q = [IdleFlow EXCEPT !.pc = x]
    OBVIOUS
  <2>3. q \in OAuthConnectionState /\ q.pc = x /\ q.seen = NoAccess
    BY <2>2, FlowRow, IdleRows DEF OAuthConnectionState
  <2> QED BY <2>1, <2>2, <2>3, IdleRows
<1>5. flows' \in [Flows -> OAuthConnectionState] /\ flows'[f] = q /\ \A x \in Flows \ {f} : flows'[x] = flows[x]
  BY <1>1, <1>3, <1>4
<1>6. issued' = issued + 1
  BY <1>3 DEF saveConnection
<1>7. IssuedAtTheEnd' /\ issued' \in CredentialNumbers
  BY <1>3, <1>4, <1>5, <1>6, FlowEnds
<1>8. PICK r \in ConnectedAccount : r = [status |-> "healthy", credential |-> issued + 1] /\ r.credential = issued + 1
  <2>1. PICK x \in AccountStatus : x = "healthy"
    BY Names
  <2> QED BY <1>6, <1>7, <2>1, AccountMade
<1>9. accounts' \in [Accounts -> ConnectedAccount] /\ accounts'[a] = r /\ \A b \in Accounts \ {a} : accounts'[b] = accounts[b]
  BY <1>1, <1>2, <1>3, <1>8 DEF saveConnection
<1>10. secrets' = (secrets \ {seen.credential}) \cup {issued + 1} /\ overwritten' = overwritten \ {a}
  BY <1>3 DEF saveConnection, saveCredential
<1>11. Stores(a)
  BY <1>6, <1>8, <1>9, <1>10 DEF Stores, Copy
<1>12. SupersededIsUnlinked' /\ grants' \in [Grants -> ProviderGrant] /\ links' \subseteq Accounts \X Grants
  BY <1>2, <1>3, Linked DEF saveConnection
<1>13. CredentialExists'
  <2> SUFFICES ASSUME NEW b \in Accounts, b \notin overwritten', accounts'[b].credential # 0
               PROVE  accounts'[b].credential \in secrets'
    BY DEF CredentialExists
  <2>1. CASE b = a
    BY <1>8, <1>9, <1>10, <2>1
  <2>2. CASE b # a
    <3>1. accounts'[b] = accounts[b] /\ accounts[b].credential \in secrets
      BY <1>9, <1>10, <2>2 DEF AccessInv, CredentialExists
    <3>2. accounts[b].credential \in CredentialNumbers \ {0} /\ Copy(b, accounts[b].credential)
      BY <1>1, <3>1 DEF ConnectedAccount, Copy
    <3>3. accounts[b].credential # seen.credential
      BY <1>2, <2>2, <3>2 DEF AccessInv, OneOwner
    <3> QED BY <1>10, <3>1, <3>3
  <2> QED BY <2>1, <2>2
<1>14. Bookkeeping
  <2>1. overwritten' \subseteq Accounts
    BY <1>10 DEF AccessInv, AccessTypeOK
  <2> QED BY <1>3, <1>12, <2>1, Kept DEF Bookkeeping
<1>15. CopiesBegin'
  BY <1>3, <1>4, <1>5 DEF AccessInv, CopiesBegin
<1> QED BY <1>1, <1>2, <1>3, <1>4, <1>5, <1>6, <1>7, <1>11, <1>12, <1>13, <1>14, <1>15, StoreStep

\* The fenced result of a renewal, with a new credential or a new state.
LEMMA RenewalSaved ==
  ASSUME AccessConstants, AccessInv, NEW a \in Accounts, NEW status \in {"healthy", "expiring", "refresh_failed"},
         NEW rotated \in BOOLEAN, saveCredentialRefreshResult(a, status, rotated), UNCHANGED <<links, overwritten>>,
         issued' \in CredentialNumbers
  PROVE  Stores(a) /\ CredentialExists' /\ SupersededIsUnlinked' /\ grants' \in [Grants -> ProviderGrant]
<1>1. accounts \in [Accounts -> ConnectedAccount] /\ accounts[a] \in ConnectedAccount /\ grants \in [Grants -> ProviderGrant]
  BY DEF AccessInv, AccessTypeOK
<1>2. PICK k \in CredentialNumbers : k = IF rotated THEN issued + 1 ELSE accounts[a].credential
  BY <1>1 DEF ConnectedAccount, saveCredentialRefreshResult
<1>3. PICK s \in AccountStatus : s = status
  BY Names
<1>4. PICK r \in ConnectedAccount : r = [status |-> s, credential |-> k] /\ r.credential = k
  BY AccountMade
<1>5. accounts' \in [Accounts -> ConnectedAccount] /\ accounts'[a] = r /\ \A b \in Accounts \ {a} : accounts'[b] = accounts[b]
  BY <1>1, <1>2, <1>3, <1>4 DEF saveCredentialRefreshResult
<1>6. IF rotated THEN issued' = issued + 1 /\ secrets' = (secrets \ {accounts[a].credential}) \cup {issued + 1}
      ELSE issued' = issued /\ secrets' = secrets
  BY DEF saveCredentialRefreshResult, saveCredential
<1>7. Stores(a)
  BY <1>2, <1>4, <1>5, <1>6 DEF Stores, Copy
<1>8. CredentialExists'
  <2> SUFFICES ASSUME NEW b \in Accounts, b \notin overwritten', accounts'[b].credential # 0
               PROVE  accounts'[b].credential \in secrets'
    BY DEF CredentialExists
  <2>1. CASE b = a
    BY <1>2, <1>4, <1>5, <1>6, <2>1 DEF AccessInv, CredentialExists
  <2>2. CASE b # a
    <3>1. accounts'[b] = accounts[b] /\ accounts[b].credential \in secrets
      BY <1>5, <2>2 DEF AccessInv, CredentialExists
    <3>2. accounts[b].credential \in CredentialNumbers \ {0} /\ Copy(b, accounts[b].credential) /\ Copy(a, accounts[a].credential)
      BY <1>1, <3>1 DEF ConnectedAccount, Copy
    <3>3. accounts[b].credential # accounts[a].credential
      BY <2>2, <3>2 DEF AccessInv, OneOwner
    <3> QED BY <1>6, <3>1, <3>3
  <2> QED BY <2>1, <2>2
<1>9. SupersededIsUnlinked' /\ grants' \in [Grants -> ProviderGrant]
  <2>1. PICK t \in ProviderGrantStatus : t = grantStatus(status) /\ t # "superseded"
    BY DEF grantStatus, ProviderGrantStatus
  <2>2. \A g \in Grants : \/ grants'[g] = grants[g]
                          \/ /\ a \in linkedAccounts(g)
                             /\ grants'[g] = [status |-> t, version |-> grants[g].version + 1]
    BY <2>1 DEF saveCredentialRefreshResult, currentGrantIds, linkedAccounts
  <2>3. \A g \in Grants : grants'[g] \in ProviderGrant
    BY <1>1, <2>2, GrantRow
  <2>4. \A g \in Grants : grants'[g] = grants[g] \/ (a \in linkedAccounts(g) /\ grants'[g].status = t)
    <3>1. \A g \in Grants : [status |-> t, version |-> grants[g].version + 1].status = t
      OBVIOUS
    <3> QED BY <2>2, <3>1
  <2>5. SupersededIsUnlinked'
    BY <2>1, <2>4 DEF AccessInv, SupersededIsUnlinked, linkedAccounts
  <2>6. grants' = [g \in Grants |-> grants'[g]]
    BY DEF saveCredentialRefreshResult
  <2> QED BY <2>3, <2>5, <2>6
<1> QED BY <1>7, <1>8, <1>9

-----------------------------------------------------------------------------
(* The worker, the owner's renewal and the provider.                       *)

\* A renewal ends: the result is saved behind the fence, or dropped.
LEMMA RenewalEnds ==
  ASSUME AccessConstants, AccessInv, NEW c \in Calls, calls[c].pc # "done", NEW x \in {"idle", "done"},
         calls' = [calls EXCEPT ![c] = [IdleCall EXCEPT !.pc = x]],
         NEW a \in Accounts, NEW status \in {"healthy", "expiring", "refresh_failed"}, NEW rotated \in BOOLEAN,
         \/ saveCredentialRefreshResult(a, status, rotated) /\ (rotated => x = "done")
         \/ UNCHANGED <<accounts, secrets, issued, grants>>,
         renewals' \in [Accounts -> [1..MaxCredential -> 0..MaxRefreshAttempts + 1]],
         UNCHANGED <<kinds, links, flows, validations, told, deletion, privateData, overwritten>>
  PROVE  AccessInv'
<1>1. PICK q \in Call : q = [IdleCall EXCEPT !.pc = x] /\ q.pc = x /\ q.seen.credential = 0
  BY Names, EndedCall
<1>2. calls' = [calls EXCEPT ![c] = q] /\ calls'[c] = q /\ \A d \in Calls \ {c} : calls'[d] = calls[d]
  BY <1>1 DEF AccessInv, AccessTypeOK
<1>3. CASE saveCredentialRefreshResult(a, status, rotated) /\ (rotated => x = "done")
  <2>1. issued' = issued \/ (issued' = issued + 1 /\ q.pc = "done")
    BY <1>1, <1>3 DEF saveCredentialRefreshResult
  <2>2. issued' \in CredentialNumbers
    BY <1>2, <2>1, CallEnds
  <2>3. Stores(a) /\ CredentialExists' /\ SupersededIsUnlinked' /\ grants' \in [Grants -> ProviderGrant]
    BY <1>3, <2>2, RenewalSaved
  <2>4. Bookkeeping
    BY <2>3, Kept DEF Bookkeeping
  <2> QED BY <1>1, <1>2, <2>1, <2>3, <2>4, CallMoves
<1>4. CASE UNCHANGED <<accounts, secrets, issued, grants>>
  <2>1. Stores(a) /\ CredentialExists' /\ SupersededIsUnlinked' /\ Bookkeeping
    BY <1>4, Kept DEF Bookkeeping
  <2> QED BY <1>1, <1>2, <1>4, <2>1, CallMoves
<1> QED BY <1>3, <1>4

\* A command's attempts after a change of one of them.
LEMMA RenewalsStay ==
  ASSUME AccessConstants, AccessInv, NEW a, NEW k, NEW n \in 0..MaxRefreshAttempts + 1, renewals' = [renewals EXCEPT ![a][k] = n]
  PROVE  renewals' \in [Accounts -> [1..MaxCredential -> 0..MaxRefreshAttempts + 1]]
<1>1. renewals \in [Accounts -> [1..MaxCredential -> 0..MaxRefreshAttempts + 1]]
  BY DEF AccessInv, AccessTypeOK
<1>2. PICK K, N : K = 1..MaxCredential /\ N = 0..MaxRefreshAttempts + 1
  OBVIOUS
<1>3. renewals \in [Accounts -> [K -> N]] /\ n \in N
  BY <1>1, <1>2
<1>4. renewals' \in [Accounts -> [K -> N]]
  BY <1>3
<1> QED BY <1>2, <1>4

\* The owner's renewal and the worker's.
LEMMA RenewKeeps ==
  ASSUME AccessConstants, AccessInv, NEW c \in Calls,
         \/ \E yes \in BOOLEAN : refreshInstagram(c, yes) \/ refreshYouTube(c, yes)
         \/ \E retryable \in BOOLEAN : recordFailure(c, retryable)
         \/ renewed(c)
  PROVE  AccessInv'
<1>1. calls[c].account \in Accounts
  BY CallIsTyped
<1>2. ASSUME NEW kind, NEW yes \in BOOLEAN, rotateOf(c, kind, yes) PROVE AccessInv'
  <2>1. PICK status \in {"healthy", "expiring", "refresh_failed"} : status = IF yes THEN "healthy" ELSE "refresh_failed"
    OBVIOUS
  <2>2. PICK x \in {"idle", "done"} : x = "done"
    OBVIOUS
  <2>3. /\ calls[c].pc # "done" /\ calls' = [calls EXCEPT ![c] = [IdleCall EXCEPT !.pc = x]]
        /\ \/ saveCredentialRefreshResult(calls[c].account, status, yes)
           \/ UNCHANGED <<accounts, secrets, issued, grants>>
        /\ UNCHANGED <<kinds, links, flows, renewals, validations, told, deletion, privateData, overwritten>>
    BY <1>2, <2>1, <2>2 DEF rotateOf, Ends
  <2>4. renewals' \in [Accounts -> [1..MaxCredential -> 0..MaxRefreshAttempts + 1]]
    BY <2>3, Kept
  <2> QED BY <1>1, <2>2, <2>3, <2>4, RenewalEnds
<1>3. ASSUME NEW retryable \in BOOLEAN, recordFailure(c, retryable) PROVE AccessInv'
  <2> DEFINE again == retryable /\ renewals[calls[c].account][calls[c].seen.credential] > 0
  <2>1. PICK status \in {"healthy", "expiring", "refresh_failed"} : status = IF again THEN "expiring" ELSE "refresh_failed"
    OBVIOUS
  <2>2. PICK x \in {"idle", "done"} : x = IF again THEN "idle" ELSE "done"
    OBVIOUS
  <2>3. /\ calls[c].pc # "done" /\ calls' = [calls EXCEPT ![c] = [IdleCall EXCEPT !.pc = x]]
        /\ \/ saveCredentialRefreshResult(calls[c].account, status, FALSE)
           \/ UNCHANGED <<accounts, secrets, issued, grants>>
        /\ \/ UNCHANGED renewals
           \/ renewals' = [renewals EXCEPT ![calls[c].account][calls[c].seen.credential] = 0]
        /\ UNCHANGED <<kinds, links, flows, validations, told, deletion, privateData, overwritten>>
    BY <1>3, <2>1, <2>2 DEF recordFailure
  <2>4. renewals' \in [Accounts -> [1..MaxCredential -> 0..MaxRefreshAttempts + 1]]
    <3>1. 0 \in 0..MaxRefreshAttempts + 1
      BY DEF AccessConstants
    <3> QED BY <2>3, <3>1, Kept, RenewalsStay
  <2> QED BY <1>1, <2>3, <2>4, RenewalEnds
<1>4. CASE renewed(c)
  <2>1. PICK status \in {"healthy", "expiring", "refresh_failed"} : status = "healthy"
    OBVIOUS
  <2>2. PICK x \in {"idle", "done"} : x = "done"
    OBVIOUS
  <2>3. /\ calls[c].pc # "done" /\ calls' = [calls EXCEPT ![c] = [IdleCall EXCEPT !.pc = x]]
        /\ \/ saveCredentialRefreshResult(calls[c].account, status, TRUE)
           \/ UNCHANGED <<accounts, secrets, issued, grants>>
        /\ renewals' = [renewals EXCEPT ![calls[c].account][calls[c].seen.credential] = 0]
        /\ UNCHANGED <<kinds, links, flows, validations, told, deletion, privateData, overwritten>>
    BY <1>4, <2>1, <2>2 DEF renewed, Ends
  <2>4. renewals' \in [Accounts -> [1..MaxCredential -> 0..MaxRefreshAttempts + 1]]
    <3>1. 0 \in 0..MaxRefreshAttempts + 1
      BY DEF AccessConstants
    <3> QED BY <2>3, <3>1, RenewalsStay
  <2> QED BY <1>1, <2>2, <2>3, <2>4, RenewalEnds
<1> QED BY <1>2, <1>3, <1>4 DEF refreshInstagram, refreshYouTube

\* A job of the worker begins: its copy is the account as it is, or it has none.
LEMMA JobBegins ==
  ASSUME AccessConstants, AccessInv, NEW c \in Calls,
         \/ \E a \in Accounts, k \in 1..MaxCredential : processCredentialRefreshJob(c, a, k)
         \/ \E g \in Grants, said \in Said, reached \in BOOLEAN : processProviderGrantValidation(c, g, said, reached)
  PROVE  AccessInv'
<1>1. /\ calls[c] \in Call /\ calls[c].account \in Accounts /\ calls[c].seen \in ConnectedAccount
      /\ Copy(calls[c].account, calls[c].seen.credential)
      /\ accounts \in [Accounts -> ConnectedAccount] /\ grants \in [Grants -> ProviderGrant]
  BY CallIsTyped DEF AccessInv, AccessTypeOK
<1>2. PICK x \in CallStages : x = "read"
  BY Names
<1>3. ASSUME NEW a \in Accounts, NEW k \in 1..MaxCredential, processCredentialRefreshJob(c, a, k) PROVE AccessInv'
  <2>1. renewals' \in [Accounts -> [1..MaxCredential -> 0..MaxRefreshAttempts + 1]]
    <3>1. renewals[a][k] - 1 \in 0..MaxRefreshAttempts + 1 /\ 0 \in 0..MaxRefreshAttempts + 1
      <4>1. renewals[a][k] \in 1..MaxRefreshAttempts
        BY <1>3 DEF processCredentialRefreshJob
      <4> QED BY <4>1 DEF AccessConstants
    <3>2. \E n \in 0..MaxRefreshAttempts + 1 : renewals' = [renewals EXCEPT ![a][k] = n]
      BY <1>3, <3>1 DEF processCredentialRefreshJob
    <3> QED BY <3>2, RenewalsStay
  <2>2. /\ UNCHANGED <<kinds, accounts, secrets, issued, grants, links, flows, validations, told, deletion, privateData, overwritten>>
        /\ calls[c].pc = "idle"
    BY <1>3 DEF processCredentialRefreshJob
  <2>3. Stores(a) /\ CredentialExists' /\ SupersededIsUnlinked' /\ Bookkeeping
    BY <2>1, <2>2, Kept DEF Bookkeeping
  <2>4. CASE calls' = calls
    BY <2>2, <2>3, <2>4, StoreMoves
  <2>5. CASE calls' # calls
    <3>1. PICK op \in Operations : op = "renewal"
      BY Names
    <3>2. PICK q : q = [calls[c] EXCEPT !.pc = x, !.op = op, !.account = a, !.seen = accounts[a]]
      OBVIOUS
    <3>3. q \in Call /\ q.pc = x /\ q.account = a /\ q.seen = accounts[a]
      BY <1>1, <3>2 DEF Call
    <3>4. calls' = [calls EXCEPT ![c] = q]
      BY <1>2, <1>3, <2>5, <3>1, <3>2 DEF processCredentialRefreshJob
    <3>5. Copy(q.account, q.seen.credential)
      BY <3>3 DEF Copy
    <3> QED BY <1>2, <2>2, <2>3, <3>3, <3>4, <3>5, CallMoves
  <2> QED BY <2>4, <2>5
<1>4. ASSUME NEW g \in Grants, NEW said \in Said, NEW reached \in BOOLEAN, processProviderGrantValidation(c, g, said, reached)
      PROVE  AccessInv'
  <2>1. \A a \in Accounts : validateAccount(a, said, reached) \in Outcomes
    BY DEF validateAccount, Outcomes
  <2>2. PICK v \in Outcomes :
          calls' = [calls EXCEPT ![c] = [@ EXCEPT !.pc = "read", !.op = "validation", !.grant = g,
                                                  !.version = grants[g].version, !.verdict = v]]
    <3> DEFINE verdicts == {validateAccount(a, said, reached) : a \in linkedAccounts(g)}
    <3>1. verdicts \subseteq Outcomes /\ "review_required" \in Outcomes
      BY <2>1 DEF linkedAccounts, Outcomes
    <3>2. PICK v \in IF verdicts = {} THEN {"review_required"} ELSE IF verdicts = {"healthy"} THEN verdicts ELSE verdicts \ {"healthy"} :
            calls' = [calls EXCEPT ![c] = [@ EXCEPT !.pc = "read", !.op = "validation", !.grant = g,
                                                    !.version = grants[g].version, !.verdict = v]]
      BY <1>4 DEF processProviderGrantValidation
    <3> HIDE DEF verdicts
    <3> QED BY <3>1, <3>2
  <2>3. PICK op \in Operations : op = "validation"
    BY Names
  <2>4. PICK w \in Nat : w = grants[g].version
    BY <1>1 DEF ProviderGrant
  <2>5. PICK q : q = [calls[c] EXCEPT !.pc = x, !.op = op, !.grant = g, !.version = w, !.verdict = v]
    OBVIOUS
  <2>6. q \in Call /\ q.pc = x /\ q.account = calls[c].account /\ q.seen = calls[c].seen
    BY <1>1, <2>5 DEF Call
  <2>7. calls' = [calls EXCEPT ![c] = q]
    BY <1>2, <2>2, <2>3, <2>4, <2>5
  <2>8. /\ UNCHANGED <<kinds, accounts, secrets, issued, grants, links, flows, renewals, validations, told, deletion, privateData, overwritten>>
        /\ calls[c].pc = "idle"
    BY <1>4 DEF processProviderGrantValidation
  <2>9. (\A o \in Accounts : Stores(o)) /\ CredentialExists' /\ SupersededIsUnlinked' /\ Bookkeeping
    BY <2>8, Kept DEF Bookkeeping
  <2> QED BY <1>1, <1>2, <2>6, <2>7, <2>8, <2>9, CallMoves
<1> QED BY <1>3, <1>4

\* Access is blocked: the accounts of the grant lose their credentials, and no other account had them.
LEMMA Blocked ==
  ASSUME AccessConstants, AccessInv, NEW g \in Grants, NEW event \in ProviderGrantStatus, event # "superseded", blockAccess(g, event),
         OpenGrant(event) => OpenGrant(grants[g].status), UNCHANGED <<links, overwritten>>
  PROVE  (\A o \in Accounts : Stores(o)) /\ CredentialExists' /\ SupersededIsUnlinked' /\ grants' \in [Grants -> ProviderGrant]
<1>1. accounts \in [Accounts -> ConnectedAccount] /\ grants \in [Grants -> ProviderGrant] /\ grants[g] \in ProviderGrant
  BY DEF AccessInv, AccessTypeOK
<1>2. PICK r \in ConnectedAccount : r = [status |-> "disconnected", credential |-> 0] /\ r.credential = 0
  <2>1. PICK x \in AccountStatus : x = "disconnected"
    BY Names
  <2>2. PICK k \in CredentialNumbers : k = 0
    BY Numbers
  <2> QED BY <2>1, <2>2, AccountMade
<1>3. accounts' = [a \in Accounts |-> IF a \in linkedAccounts(g) THEN r ELSE accounts[a]]
  BY <1>2 DEF blockAccess
<1>4. accounts' \in [Accounts -> ConnectedAccount]
  BY <1>1, <1>3
<1>5. secrets' = secrets \ {accounts[a].credential : a \in linkedAccounts(g)}
  BY DEF blockAccess
<1>6. \A o \in Accounts : Stores(o)
  <2>1. \A a \in Accounts : accounts'[a].credential = 0 \/ Copy(a, accounts'[a].credential)
    BY <1>2, <1>3 DEF Copy
  <2> QED BY <1>4, <1>5, <2>1 DEF Stores
<1>7. CredentialExists'
  <2> SUFFICES ASSUME NEW b \in Accounts, b \notin overwritten, accounts'[b].credential # 0
               PROVE  accounts'[b].credential \in secrets'
    BY DEF CredentialExists
  <2>1. b \notin linkedAccounts(g) /\ accounts'[b] = accounts[b]
    BY <1>2, <1>3
  <2>2. accounts[b].credential \in secrets
    BY <2>1 DEF AccessInv, CredentialExists
  <2>3. accounts[b].credential \in CredentialNumbers \ {0} /\ Copy(b, accounts[b].credential)
    BY <1>1, <2>1 DEF ConnectedAccount, Copy
  <2>4. \A a \in linkedAccounts(g) : a \in Accounts /\ Copy(a, accounts[a].credential)
    BY DEF linkedAccounts, Copy
  <2>5. \A a \in linkedAccounts(g) : accounts[a].credential # accounts[b].credential
    BY <2>1, <2>3, <2>4 DEF AccessInv, OneOwner
  <2> QED BY <1>5, <2>1, <2>2, <2>5
<1>8. SupersededIsUnlinked' /\ grants' \in [Grants -> ProviderGrant]
  <2>1. PICK row : row = [status |-> event, version |-> grants[g].version + 1]
    OBVIOUS
  <2>2. row \in ProviderGrant /\ row.status = event
    BY <1>1, <2>1, GrantRow
  <2>3. grants' = [grants EXCEPT ![g] = IF grants[g].status \in {"deleted", "superseded"} THEN grants[g] ELSE row]
    BY <1>1, <2>1 DEF blockAccess
  <2>4. grants' \in [Grants -> ProviderGrant]
    BY <1>1, <2>2, <2>3
  <2>5. \A h \in Grants : grants'[h] = grants[h] \/ (h = g /\ grants'[h].status = event)
    BY <1>1, <2>2, <2>3
  <2>6. SupersededIsUnlinked'
    BY <2>5 DEF AccessInv, SupersededIsUnlinked, linkedAccounts
  <2> QED BY <2>4, <2>6
<1> QED BY <1>6, <1>7, <1>8

\* The result of a validation is stored, or dropped because the grant has changed.
LEMMA ValidationKeeps ==
  ASSUME AccessConstants, AccessInv, NEW c \in Calls, recordProviderGrantValidation(c)
  PROVE  AccessInv'
<1> DEFINE g == calls[c].grant
<1>1. g \in Grants /\ calls[c].verdict \in Outcomes /\ grants \in [Grants -> ProviderGrant] /\ calls[c].account \in Accounts
  BY CallIsTyped DEF AccessInv, AccessTypeOK
<1>2. PICK q \in Call : q = [IdleCall EXCEPT !.pc = "done"] /\ q.pc = "done" /\ q.seen.credential = 0
  BY Names, EndedCall
<1>3. /\ calls' = [calls EXCEPT ![c] = q] /\ calls[c].pc = "read"
      /\ UNCHANGED <<kinds, issued, links, flows, renewals, validations, told, deletion, privateData, overwritten>>
  BY <1>2 DEF recordProviderGrantValidation, Ends
<1>4. (\A o \in Accounts : Stores(o)) /\ CredentialExists' /\ SupersededIsUnlinked' /\ grants' \in [Grants -> ProviderGrant]
  <2>1. CASE UNCHANGED <<grants, accounts, secrets>>
    BY <1>3, <2>1, Kept
  <2>2. CASE ~UNCHANGED <<grants, accounts, secrets>> /\ calls[c].verdict = "reauthorization_required"
    <3>1. PICK event \in ProviderGrantStatus : event = "reauthorization_required"
      BY DEF ProviderGrantStatus
    <3>2. blockAccess(g, event) /\ OpenGrant(grants[g].status)
      BY <2>2, <3>1 DEF recordProviderGrantValidation, OpenGrant
    <3> QED BY <1>1, <1>3, <3>1, <3>2, Blocked
  <2>3. CASE ~UNCHANGED <<grants, accounts, secrets>> /\ calls[c].verdict # "reauthorization_required"
    <3>1. PICK t \in ProviderGrantStatus : t = (IF calls[c].verdict = "healthy" THEN "active" ELSE "refresh_failed") /\ t # "superseded"
      BY DEF ProviderGrantStatus
    <3>2. /\ grants' = [grants EXCEPT ![g] = [status |-> t, version |-> grants[g].version + 1]] /\ UNCHANGED <<accounts, secrets>>
          /\ OpenGrant(grants[g].status)
      BY <1>1, <2>3, <3>1 DEF recordProviderGrantValidation, OpenGrant
    <3>3. PICK row : row = [status |-> t, version |-> grants[g].version + 1]
      OBVIOUS
    <3>4. row \in ProviderGrant /\ row.status = t
      BY <1>1, <3>3, GrantRow
    <3>5. grants' \in [Grants -> ProviderGrant] /\ grants'[g] = row /\ \A h \in Grants \ {g} : grants'[h] = grants[h]
      BY <1>1, <3>2, <3>3, <3>4
    <3>6. SupersededIsUnlinked'
      BY <1>3, <3>1, <3>2, <3>4, <3>5 DEF AccessInv, SupersededIsUnlinked, linkedAccounts
    <3> QED BY <1>3, <3>2, <3>5, <3>6, Kept
  <2> QED BY <2>1, <2>2, <2>3
<1>5. Bookkeeping
  BY <1>3, <1>4, Kept DEF Bookkeeping
<1> QED BY <1>1, <1>2, <1>3, <1>4, <1>5, CallMoves

\* The provider reports a deauthorization or a request for deletion; the scheduler asks for a validation.
LEMMA ProviderKeeps ==
  ASSUME AccessConstants, AccessInv, NEW g \in Grants, Provider(g)
  PROVE  AccessInv'
<1>1. grants \in [Grants -> ProviderGrant] /\ deletion \in ProviderDataDeletionRequest /\ told \subseteq Grants
      /\ validations \in [Grants -> Nat]
  BY DEF AccessInv, AccessTypeOK
<1>2. PICK o \in Accounts : TRUE
  BY DEF AccessConstants
<1>3. CASE receiveMetaDeauthorization(g)
  <2>1. PICK event \in ProviderGrantStatus : event = "deauthorized"
    BY DEF ProviderGrantStatus
  <2>2. Stores(o) /\ CredentialExists' /\ SupersededIsUnlinked' /\ grants' \in [Grants -> ProviderGrant]
    BY <1>3, <2>1, Blocked DEF receiveMetaDeauthorization, OpenGrant
  <2>3. told' \subseteq Grants
    BY <1>1, <1>3 DEF receiveMetaDeauthorization
  <2>4. Bookkeeping
    BY <1>3, <2>2, <2>3, Kept DEF Bookkeeping, receiveMetaDeauthorization
  <2> QED BY <1>3, <2>2, <2>4, StoreMoves DEF receiveMetaDeauthorization
<1>4. CASE receiveMetaDataDeletion(g)
  <2>1. PICK event \in ProviderGrantStatus : event = "deletion_pending"
    BY DEF ProviderGrantStatus
  <2>2. Stores(o) /\ CredentialExists' /\ SupersededIsUnlinked' /\ grants' \in [Grants -> ProviderGrant]
    BY <1>4, <2>1, Blocked DEF receiveMetaDataDeletion, OpenGrant
  <2>3. deletion' \in ProviderDataDeletionRequest
    <3>1. PICK s \in DeletionStatus : s = "pending"
      BY DEF DeletionStatus
    <3>2. deletion' = [deletion EXCEPT !.status = s, !.grant = g]
      BY <1>4, <3>1 DEF receiveMetaDataDeletion
    <3> QED BY <1>1, <3>2 DEF ProviderDataDeletionRequest
  <2>4. Bookkeeping
    BY <1>4, <2>2, <2>3, Kept DEF Bookkeeping, receiveMetaDataDeletion
  <2> QED BY <1>4, <2>2, <2>4, StoreMoves DEF receiveMetaDataDeletion
<1>5. CASE recoverProviderGrantValidations(g)
  <2>1. validations' \in [Grants -> Nat]
    BY <1>1, <1>5 DEF recoverProviderGrantValidations, ProviderGrant
  <2>2. Stores(o) /\ CredentialExists' /\ SupersededIsUnlinked' /\ Bookkeeping
    BY <1>5, <2>1, Kept DEF Bookkeeping, recoverProviderGrantValidations
  <2> QED BY <1>5, <2>2, StoreMoves DEF recoverProviderGrantValidations
<1> QED BY <1>3, <1>4, <1>5 DEF Provider

\* The stages of a deletion, a renewal command for an expiry, messages of an account.
LEMMA ErasureKeeps ==
  ASSUME AccessConstants, AccessInv,
         \/ Erase \/ failDataDeletionScope
         \/ \E a \in Accounts : recoverCredentialRefreshes(a) \/ receiveMessages(a)
  PROVE  AccessInv'
<1>1. grants \in [Grants -> ProviderGrant] /\ deletion \in ProviderDataDeletionRequest /\ accounts \in [Accounts -> ConnectedAccount]
      /\ privateData \subseteq Accounts
  BY DEF AccessInv, AccessTypeOK
<1>2. PICK o \in Accounts : TRUE
  BY DEF AccessConstants
<1>3. /\ deletion.status \in DeletionStatus /\ deletion.grant \in Grants /\ deletion.pc \in DeletionStages
      /\ deletion.scope \in SUBSET Accounts /\ deletion.attempts \in 0..MaxErasureAttempts
  BY <1>1 DEF ProviderDataDeletionRequest
<1>4. "idle" \in DeletionStages /\ "scoped" \in DeletionStages /\ "erased" \in DeletionStages
      /\ "completed" \in DeletionStatus /\ "needs_review" \in DeletionStatus
  BY DEF DeletionStages, DeletionStatus
<1>5. ASSUME UNCHANGED <<accounts, grants, secrets>>, UNCHANGED DeletionRest, deletion' \in ProviderDataDeletionRequest,
             privateData' \subseteq Accounts
      PROVE  AccessInv'
  <2>1. Stores(o) /\ CredentialExists' /\ SupersededIsUnlinked' /\ Bookkeeping
    BY <1>5, Kept DEF Bookkeeping, DeletionRest
  <2> QED BY <1>5, <2>1, StoreMoves DEF DeletionRest
<1>6. CASE getDataDeletionScope
  <2>1. PICK n \in 0..MaxErasureAttempts : n = deletion.attempts + 1
    BY <1>3, <1>6 DEF AccessConstants, getDataDeletionScope
  <2>2. PICK x \in DeletionStages : x = "scoped"
    BY <1>4
  <2>3. PICK scope \in SUBSET Accounts : scope = linkedAccounts(deletion.grant)
    BY DEF linkedAccounts
  <2>4. deletion' = [deletion EXCEPT !.pc = x, !.scope = scope, !.attempts = n]
    BY <1>1, <1>6, <2>1, <2>2, <2>3 DEF getDataDeletionScope, ProviderDataDeletionRequest
  <2>5. deletion' \in ProviderDataDeletionRequest
    BY <1>1, <2>4 DEF ProviderDataDeletionRequest
  <2> QED BY <1>5, <1>6, <2>5, Kept DEF getDataDeletionScope
<1>7. CASE processProviderDataDeletion
  <2>1. PICK x \in DeletionStages : x = "erased"
    BY <1>4
  <2>2. deletion' = [deletion EXCEPT !.pc = x]
    BY <1>7, <2>1 DEF processProviderDataDeletion
  <2>3. deletion' \in ProviderDataDeletionRequest
    BY <1>1, <2>2 DEF ProviderDataDeletionRequest
  <2>4. privateData' \subseteq Accounts
    BY <1>1, <1>7 DEF processProviderDataDeletion
  <2> QED BY <1>5, <1>7, <2>3, <2>4 DEF processProviderDataDeletion
<1>8. CASE failDataDeletionScope
  <2>1. PICK x \in DeletionStages : x = "idle"
    BY <1>4
  <2>2. PICK s \in DeletionStatus : s = IF deletion.attempts = MaxErasureAttempts THEN "needs_review" ELSE deletion.status
    BY <1>3, <1>4
  <2>3. deletion' = [deletion EXCEPT !.pc = x, !.status = s]
    BY <1>1, <1>8, <2>1, <2>2 DEF failDataDeletionScope, ProviderDataDeletionRequest
  <2>4. deletion' \in ProviderDataDeletionRequest
    BY <1>1, <2>3 DEF ProviderDataDeletionRequest
  <2> QED BY <1>5, <1>8, <2>4, Kept DEF failDataDeletionScope
<1>9. ASSUME NEW a \in Accounts, receiveMessages(a) PROVE AccessInv'
  <2>1. privateData' \subseteq Accounts
    BY <1>1, <1>9 DEF receiveMessages
  <2> QED BY <1>5, <1>9, <2>1, Kept DEF receiveMessages
<1>10. CASE processDataDeletionScope
  <2>1. PICK r \in ConnectedAccount : r = [status |-> "disconnected", credential |-> 0] /\ r.credential = 0
    <3>1. PICK x \in AccountStatus : x = "disconnected"
      BY Names
    <3>2. PICK k \in CredentialNumbers : k = 0
      BY Numbers
    <3> QED BY <3>1, <3>2, AccountMade
  <2>2. accounts' = [a \in Accounts |-> IF a \in linkedAccounts(deletion.grant) THEN r ELSE accounts[a]] /\ UNCHANGED <<secrets, privateData>>
        /\ UNCHANGED DeletionRest
    BY <1>10, <2>1 DEF processDataDeletionScope
  <2>3. Stores(o)
    <3>1. accounts' \in [Accounts -> ConnectedAccount]
      BY <1>1, <2>2
    <3>2. \A a \in Accounts : accounts'[a].credential = 0 \/ Copy(a, accounts'[a].credential)
      BY <2>1, <2>2 DEF Copy
    <3> QED BY <2>2, <3>1, <3>2 DEF Stores
  <2>4. CredentialExists'
    BY <2>1, <2>2 DEF AccessInv, CredentialExists, DeletionRest
  <2>5. SupersededIsUnlinked' /\ grants' \in [Grants -> ProviderGrant]
    <3>1. PICK t \in ProviderGrantStatus : t = "deleted"
      BY DEF ProviderGrantStatus
    <3>2. PICK row : row = [status |-> t, version |-> grants[deletion.grant].version + 1]
      OBVIOUS
    <3>3. row \in ProviderGrant /\ row.status = t
      BY <1>1, <1>3, <3>2, GrantRow
    <3>4. grants' = [grants EXCEPT ![deletion.grant] = row]
      BY <1>1, <1>10, <3>1, <3>2 DEF processDataDeletionScope
    <3>5. grants' \in [Grants -> ProviderGrant] /\ \A h \in Grants : grants'[h] = grants[h] \/ grants'[h].status = t
      BY <1>1, <1>3, <3>3, <3>4
    <3>6. SupersededIsUnlinked'
      BY <2>2, <3>1, <3>5 DEF AccessInv, SupersededIsUnlinked, linkedAccounts, DeletionRest, OpenGrant
    <3> QED BY <3>5, <3>6
  <2>6. deletion' \in ProviderDataDeletionRequest
    <3>1. PICK x \in DeletionStages : x = "idle"
      BY <1>4
    <3>2. PICK s \in DeletionStatus : s = "completed"
      BY <1>4
    <3>3. deletion' = [deletion EXCEPT !.status = s, !.pc = x]
      BY <1>10, <3>1, <3>2 DEF processDataDeletionScope
    <3> QED BY <1>1, <3>3 DEF ProviderDataDeletionRequest
  <2>7. Bookkeeping
    BY <2>2, <2>5, <2>6, Kept DEF Bookkeeping, DeletionRest
  <2> QED BY <2>2, <2>3, <2>4, <2>5, <2>7, StoreMoves DEF DeletionRest
<1>11. ASSUME NEW a \in Accounts, recoverCredentialRefreshes(a) PROVE AccessInv'
  <2>1. renewals' \in [Accounts -> [1..MaxCredential -> 0..MaxRefreshAttempts + 1]]
    <3>1. PICK n \in 0..MaxRefreshAttempts + 1 : n = MaxRefreshAttempts
      BY DEF AccessConstants
    <3> QED BY <1>11, <3>1, RenewalsStay DEF recoverCredentialRefreshes
  <2>2. Stores(o) /\ CredentialExists' /\ SupersededIsUnlinked' /\ Bookkeeping
    BY <1>11, <2>1, Kept DEF Bookkeeping, recoverCredentialRefreshes
  <2> QED BY <1>11, <2>2, StoreMoves DEF recoverCredentialRefreshes
<1> QED BY <1>6, <1>7, <1>8, <1>9, <1>10, <1>11 DEF Erase

\* Every step keeps the invariant.
LEMMA AccessNextInv ==
  ASSUME AccessConstants, AccessInv, [AccessNext]_accessVars
  PROVE  AccessInv'
<1>1. CASE UNCHANGED accessVars
  <2>1. PICK o \in Accounts : TRUE
    BY DEF AccessConstants
  <2>2. Stores(o) /\ CredentialExists' /\ SupersededIsUnlinked' /\ Bookkeeping
    BY <1>1, Kept DEF Bookkeeping, accessVars
  <2> QED BY <1>1, <2>2, StoreMoves DEF accessVars
<1>2. ASSUME NEW f \in Flows, Connect(f) PROVE AccessInv'
  BY <1>2, ConnectKeeps, ConnectionSaved
<1>3. ASSUME NEW c \in Calls, Request(c) PROVE AccessInv'
  BY <1>3, BeginKeeps, RequestKeeps, RenewKeeps, RevokeKeeps DEF Request
<1>4. ASSUME NEW c \in Calls, Renew(c) PROVE AccessInv'
  BY <1>4, RenewKeeps, JobBegins, ValidationKeeps DEF Renew
<1>5. ASSUME NEW g \in Grants, Provider(g) PROVE AccessInv'
  BY <1>5, ProviderKeeps
<1>6. ASSUME \/ Erase \/ failDataDeletionScope
             \/ \E a \in Accounts : recoverCredentialRefreshes(a) \/ receiveMessages(a)
      PROVE  AccessInv'
  BY <1>6, ErasureKeeps
<1> QED BY <1>1, <1>2, <1>3, <1>4, <1>5, <1>6 DEF AccessNext

-----------------------------------------------------------------------------
(* What a step may never do.                                               *)

\* A save without a fence unblocks an account only on the record.
LEMMA SaveMarks ==
  ASSUME AccessInv, NEW a \in Accounts, NEW seen, NEW record, save(a, seen, record)
  PROVE  StaysBlocked
<1>1. accounts \in [Accounts -> ConnectedAccount]
  BY DEF AccessInv, AccessTypeOK
<1>2. accounts'[a] = record /\ \A b \in Accounts \ {a} : accounts'[b] = accounts[b]
  BY <1>1 DEF save
<1>3. a \in overwritten' \/ (accounts[a] = seen /\ (seen.status = "disconnected" => ~Usable(record.status)))
  BY DEF save
<1> QED BY <1>2, <1>3 DEF StaysBlocked, Usable

\* Only a consent, or an owner's request that is recorded as such, unblocks an account.
LEMMA BlockedStays ==
  ASSUME AccessConstants, AccessInv, AccessNext
  PROVE  StaysBlocked
<1>1. accounts \in [Accounts -> ConnectedAccount] /\ flows \in [Flows -> OAuthConnectionState]
  BY DEF AccessInv, AccessTypeOK
<1>2. ASSUME \A a \in Accounts : accounts'[a] = accounts[a] \/ ~Usable(accounts'[a].status) \/ accounts[a].status # "disconnected"
      PROVE  StaysBlocked
  BY <1>2 DEF StaysBlocked, Usable
<1>3. UNCHANGED accounts => StaysBlocked
  BY <1>2
<1>4. ASSUME NEW f \in Flows, Connect(f) PROVE StaysBlocked
  <2>1. CASE completeOAuthSelection(f)
    <3>1. flows[f].pc = "saving" /\ flows'[f] = [IdleFlow EXCEPT !.pc = "done"]
      BY <1>1, <2>1 DEF completeOAuthSelection
    <3>2. [IdleFlow EXCEPT !.pc = "done"].pc = "done"
      BY DEF IdleFlow
    <3>3. flows' # flows
      BY <3>1, <3>2
    <3> QED BY <3>3 DEF StaysBlocked
  <2>2. CASE ~completeOAuthSelection(f)
    BY <1>3, <1>4, <2>2 DEF Connect, startInstagram, startYouTube, startFacebook, startInstagramFacebook, startMetaMessaging,
       createState, callbackInstagram, callbackYouTube, callbackFacebook, callbackInstagramFacebook, callbackMetaMessaging,
       consumeState, completeMetaMessagingSelection, completeFacebookSelection, completeInstagramFacebookSelection,
       expireSelection, openSelection
  <2> QED BY <2>1, <2>2
<1>5. ASSUME NEW a \in Accounts, NEW seen, refreshFence(a, seen), NEW status, NEW rotated, saveCredentialRefreshResult(a, status, rotated)
      PROVE  StaysBlocked
  <2>1. \A b \in Accounts : accounts'[b] = accounts[b] \/ accounts[b].status # "disconnected"
    BY <1>1, <1>5 DEF saveCredentialRefreshResult, refreshFence
  <2> QED BY <1>2, <2>1
<1>6. ASSUME NEW g, NEW event, blockAccess(g, event) PROVE StaysBlocked
  BY <1>2, <1>6 DEF blockAccess, Usable
<1>7. ASSUME NEW c \in Calls, Request(c) \/ Renew(c) PROVE StaysBlocked
  <2>1. calls[c].account \in Accounts
    BY CallIsTyped
  <2>2. CASE \E a \in Accounts : create(c, a) \/ \E op \in OwnerRequests(a) : begin(c, a, op)
    <3>1. ASSUME NEW a \in Accounts, create(c, a) PROVE StaysBlocked
      BY <1>1, <1>2, <3>1 DEF create, Usable, ConnectedAccount
    <3> QED BY <1>3, <2>2, <3>1 DEF begin
  <2>3. CASE \/ \E status \in {"healthy", "expiring", "refresh_failed", "setup_required"} : check(c, status)
             \/ giveUp(c)
             \/ \E a \in Accounts, k \in 1..MaxCredential : processCredentialRefreshJob(c, a, k)
             \/ \E g \in Grants, said \in Said, reached \in BOOLEAN : processProviderGrantValidation(c, g, said, reached)
    BY <1>3, <2>3 DEF check, giveUp, processCredentialRefreshJob, processProviderGrantValidation
  <2>4. CASE saveCheck(c) \/ update(c) \/ disconnect(c) \/ \E yes \in BOOLEAN : refreshFacebook(c, yes) \/ revokeYouTube(c, yes)
    BY <2>1, <2>4, SaveMarks DEF saveCheck, update, disconnect, refreshFacebook, revokeYouTube
  <2>5. CASE \/ \E yes \in BOOLEAN : refreshInstagram(c, yes) \/ refreshYouTube(c, yes) \/ recordFailure(c, yes)
             \/ renewed(c)
    BY <1>3, <1>5, <2>1, <2>5 DEF refreshInstagram, refreshYouTube, rotateOf, recordFailure, renewed
  <2>6. CASE recordProviderGrantValidation(c)
    BY <1>3, <1>6, <2>6 DEF recordProviderGrantValidation
  <2> QED BY <1>7, <2>2, <2>3, <2>4, <2>5, <2>6 DEF Request, Renew
<1>8. ASSUME NEW g \in Grants, Provider(g) PROVE StaysBlocked
  BY <1>3, <1>6, <1>8 DEF Provider, receiveMetaDeauthorization, receiveMetaDataDeletion, recoverProviderGrantValidations
<1>9. CASE \/ Erase \/ failDataDeletionScope
           \/ \E a \in Accounts : recoverCredentialRefreshes(a) \/ receiveMessages(a)
  <2>1. CASE processDataDeletionScope
    BY <1>2, <2>1 DEF processDataDeletionScope, Usable
  <2> QED BY <1>3, <1>9, <2>1 DEF Erase, getDataDeletionScope, processProviderDataDeletion, failDataDeletionScope,
          recoverCredentialRefreshes, receiveMessages
<1> QED BY <1>4, <1>7, <1>8, <1>9 DEF AccessNext

\* A call moves only by its own steps, and ends a validation of an old version without touching an account.
LEMMA ConsentOutlives ==
  ASSUME AccessConstants, AccessInv, AccessNext
  PROVE  ConsentOutlivesValidation
<1> SUFFICES ASSUME NEW c \in Calls, calls[c].op = "validation", calls[c].pc = "read", calls'[c].pc = "done",
                    grants[calls[c].grant].version # calls[c].version
             PROVE  accounts' = accounts
  BY DEF ConsentOutlivesValidation
<1>1. calls \in [Calls -> Call]
  BY DEF AccessInv, AccessTypeOK
<1>2. calls' # calls
  OBVIOUS
<1>3. PICK d \in Calls : Request(d) \/ Renew(d)
  <2>1. ASSUME NEW f \in Flows, Connect(f) PROVE FALSE
    BY <1>2, <2>1 DEF Connect, startInstagram, startYouTube, startFacebook, startInstagramFacebook, startMetaMessaging,
       createState, callbackInstagram, callbackYouTube, callbackFacebook, callbackInstagramFacebook, callbackMetaMessaging,
       consumeState, completeMetaMessagingSelection, completeFacebookSelection, completeInstagramFacebookSelection,
       expireSelection, openSelection, completeOAuthSelection
  <2>2. ASSUME NEW g \in Grants, Provider(g) PROVE FALSE
    BY <1>2, <2>2 DEF Provider, receiveMetaDeauthorization, receiveMetaDataDeletion, recoverProviderGrantValidations
  <2>3. ASSUME \/ Erase \/ failDataDeletionScope
               \/ \E a \in Accounts : recoverCredentialRefreshes(a) \/ receiveMessages(a)
        PROVE  FALSE
    BY <1>2, <2>3 DEF Erase, getDataDeletionScope, processProviderDataDeletion, processDataDeletionScope,
       failDataDeletionScope, recoverCredentialRefreshes, receiveMessages, DeletionRest
  <2> QED BY <2>1, <2>2, <2>3 DEF AccessNext
<1>4. CASE d # c
  <2>1. calls'[c] = calls[c]
    BY <1>1, <1>3, <1>4 DEF Request, Renew, create, begin, check, saveCheck, update, disconnect, giveUp, refreshFacebook,
       refreshInstagram, refreshYouTube, rotateOf, revokeYouTube, processCredentialRefreshJob, recordFailure, renewed,
       recordProviderGrantValidation, processProviderGrantValidation, Ends
  <2> QED BY <2>1
<1>5. CASE d = c
  <2>1. giveUp(c) \/ recordProviderGrantValidation(c)
    BY <1>3, <1>5 DEF Request, Renew, create, begin, check, saveCheck, update, disconnect, refreshFacebook,
       refreshInstagram, refreshYouTube, rotateOf, revokeYouTube, processCredentialRefreshJob, recordFailure, renewed,
       processProviderGrantValidation
  <2> QED BY <2>1 DEF giveUp, recordProviderGrantValidation
<1> QED BY <1>4, <1>5

-----------------------------------------------------------------------------
\* In every state the credential of an account is in the vault unless an owner's request saved an old copy of the account,
\* an open grant has an account and a superseded one has none, for any number of accounts, grants, consents and requests.
THEOREM AccessSafety == ASSUME AccessConstants PROVE AccessSpec => [](AccessTypeOK /\ CredentialExists /\ SupersededIsUnlinked)
<1>1. AccessInit => AccessInv
  BY AccessInitInv
<1>2. AccessInv /\ [AccessNext]_accessVars => AccessInv'
  BY AccessNextInv
<1>3. AccessInv => AccessTypeOK /\ CredentialExists /\ SupersededIsUnlinked
  BY DEF AccessInv
<1> QED BY <1>1, <1>2, <1>3, PTL DEF AccessSpec

\* No late renewal or validation unblocks an account, and no validation of a grant as it was blocks what a newer consent connected.
THEOREM AccessWithdrawal ==
  ASSUME AccessConstants PROVE AccessSpec => [][StaysBlocked /\ ConsentOutlivesValidation]_accessVars
<1>1. AccessInit => AccessInv
  BY AccessInitInv
<1>2. AccessInv /\ [AccessNext]_accessVars => AccessInv'
  BY AccessNextInv
<1>3. AccessInv /\ [AccessNext]_accessVars => [StaysBlocked /\ ConsentOutlivesValidation]_accessVars
  BY BlockedStays, ConsentOutlives
<1> QED BY <1>1, <1>2, <1>3, PTL DEF AccessSpec
=============================================================================
