--------------------------- MODULE EngagementInbox ---------------------------
(***************************************************************************)
(* How the comments of one published post reach the inbox.  The platform   *)
(* sends notices, which are stored once each; executions of the worker     *)
(* claim a notice or sync a stale conversation, read the comments page by  *)
(* page and write them in one transaction.                                 *)
(***************************************************************************)
EXTENDS Naturals, FiniteSets

CONSTANTS Comments,       \* comments people write on the platform
          Verbs,          \* what notices tell: a subset of {"add", "hide", "remove"}
          PageOf,         \* the page of the provider's list a comment is on
          LastPage, MaxPages,
          Readers,        \* executions of the worker
          NoReader, NoNotice,
          MaxReceiptAttempts,  \* failures before a notice is given up
          MaxStops             \* bound on stopped executions

VARIABLES remote,         \* the comments on the platform
          stored,         \* engagement_comments
          conversation,   \* the engagement_threads row
          proofSaved,     \* the item holds the proof of the post
          receipts,       \* provider_webhook_receipts
          readers,        \* executions under way
          stops           \* executions that stopped

engagementInboxVars == <<remote, stored, conversation, proofSaved, receipts, readers, stops>>

EngagementCommentVisibility == {"visible", "hidden", "deleted"}
EngagementComment == EngagementCommentVisibility \cup {"none"}

Notices == Comments \X Verbs

\* unread: someone has not seen an incoming comment; synced: read within the
\* last fifteen minutes.
EngagementThread == [state : {"none", "open", "resolved"}, unread : BOOLEAN, synced : BOOLEAN]

ReceiptStatus == {"none", "pending", "processing", "processed", "failed"}

EngagementWebhookReceipt ==
  [status : ReceiptStatus, attempts : Nat, owner : Readers \cup {NoReader}, leased : BOOLEAN]

ReaderStages == {"idle", "claimed", "reading", "read", "complete", "failed"}
PagesRead == 0..LastPage

Reader ==
  [pc : ReaderStages, notice : Notices \cup {NoNotice}, page : PagesRead,
   found : SUBSET (Comments \X EngagementCommentVisibility)]

Idle == [pc |-> "idle", notice |-> NoNotice, page |-> 0, found |-> {}]

EngagementInboxTypeOK ==
  /\ remote \in [Comments -> EngagementComment] /\ stored \in [Comments -> EngagementComment]
  /\ conversation \in EngagementThread /\ proofSaved \in BOOLEAN
  /\ receipts \in [Notices -> EngagementWebhookReceipt] /\ readers \in [Readers -> Reader]
  /\ stops \in 0..MaxStops

EngagementInboxInit ==
  /\ remote = [c \in Comments |-> "none"] /\ stored = [c \in Comments |-> "none"]
  /\ conversation = [state |-> "none", unread |-> FALSE, synced |-> FALSE]
  /\ proofSaved = FALSE
  /\ receipts = [n \in Notices |-> [status |-> "none", attempts |-> 0, owner |-> NoReader, leased |-> FALSE]]
  /\ readers = [h \in Readers |-> Idle] /\ stops = 0

-----------------------------------------------------------------------------
(* The platform, and what its webhook stores.                              *)

PersonComments(c) ==
  /\ remote[c] = "none" /\ remote' = [remote EXCEPT ![c] = "visible"]
  /\ UNCHANGED <<stored, conversation, proofSaved, receipts, readers, stops>>

ModeratorHides(c) ==
  /\ remote[c] = "visible" /\ remote' = [remote EXCEPT ![c] = "hidden"]
  /\ UNCHANGED <<stored, conversation, proofSaved, receipts, readers, stops>>

PersonDeletes(c) ==
  /\ remote[c] \in {"visible", "hidden"} /\ remote' = [remote EXCEPT ![c] = "deleted"]
  /\ UNCHANGED <<stored, conversation, proofSaved, receipts, readers, stops>>

visibilityFor(verb) == CASE verb = "add" -> "visible" [] verb = "hide" -> "hidden" [] verb = "remove" -> "deleted"

\* A notice comes at any time after what it tells of, and may never come.
Notable(n) == CASE n[2] = "add" -> remote[n[1]] # "none"
                [] n[2] = "hide" -> remote[n[1]] \in {"hidden", "deleted"}
                [] n[2] = "remove" -> remote[n[1]] = "deleted"

\* The same payload is stored once.
recordWebhookReceipt(n) ==
  receipts' = [receipts EXCEPT ![n].status = IF @ = "none" THEN "pending" ELSE @]

receiveFacebook(n) ==
  /\ Notable(n) /\ receipts[n].status = "none"
  /\ recordWebhookReceipt(n)
  /\ UNCHANGED <<remote, stored, conversation, proofSaved, readers, stops>>

\* Instagram tells of new comments only.
receiveInstagram(n) ==
  /\ n[2] = "add" /\ Notable(n) /\ receipts[n].status = "none"
  /\ recordWebhookReceipt(n)
  /\ UNCHANGED <<remote, stored, conversation, proofSaved, readers, stops>>

ProofIsSaved ==
  /\ ~proofSaved /\ proofSaved' = TRUE
  /\ UNCHANGED <<remote, stored, conversation, receipts, readers, stops>>

-----------------------------------------------------------------------------
(* The store.                                                              *)

\* Comments replace what is stored of them; a new one reopens a conversation.
ingest(found, synced) ==
  LET new == {x \in found : stored[x[1]] = "none"}
      reopened == conversation.state = "resolved" /\ new # {}
  IN  /\ stored' = [c \in Comments |-> IF \E x \in found : x[1] = c
                                        THEN (CHOOSE x \in found : x[1] = c)[2] ELSE stored[c]]
      /\ conversation' = [state |-> IF reopened \/ conversation.state = "none" THEN "open" ELSE conversation.state,
                          unread |-> conversation.unread \/ new # {}, synced |-> synced]

\* Mutant: a conversation is synced again only if it never was.
neverSynced == conversation.state = "none" /\ proofSaved

listThreadsNeedingSync == conversation.state = "open" /\ ~conversation.synced

TimePasses ==
  /\ conversation.synced /\ conversation' = [conversation EXCEPT !.synced = FALSE]
  /\ UNCHANGED <<remote, stored, proofSaved, receipts, readers, stops>>

\* The version a person saw is still the stored one.
updateThread ==
  /\ conversation.state # "none"
  /\ \E to \in {"open", "resolved"} :
       conversation' = [conversation EXCEPT !.state = to]
  /\ UNCHANGED <<remote, stored, proofSaved, receipts, readers, stops>>

markRead ==
  /\ conversation.unread /\ conversation' = [conversation EXCEPT !.unread = FALSE]
  /\ UNCHANGED <<remote, stored, proofSaved, receipts, readers, stops>>

\* Mutant: a notice whose execution stopped is left alone.
ClaimablePending(n) == receipts[n].status = "pending"

Claimable(n) == \/ receipts[n].status = "pending"
                \/ receipts[n].status = "processing" /\ ~receipts[n].leased

claimWebhookReceipts(h, n) ==
  /\ Claimable(n)
  /\ receipts' = [receipts EXCEPT ![n] = [status |-> "processing", attempts |-> @.attempts + 1,
                                          owner |-> h, leased |-> TRUE]]

holds(h, n) == receipts[n].status = "processing" /\ receipts[n].owner = h

Released(n, status) ==
  [receipts EXCEPT ![n].status = status, ![n].owner = NoReader, ![n].leased = FALSE]

failWebhookReceipt(h, n) ==
  receipts' = IF holds(h, n)
                THEN Released(n, IF receipts[n].attempts >= MaxReceiptAttempts THEN "failed" ELSE "pending")
                ELSE receipts

completeWebhookReceipt(h, n) == receipts' = IF holds(h, n) THEN Released(n, "processed") ELSE receipts

ReceiptLeaseExpires(n) ==
  /\ receipts[n].leased /\ receipts' = [receipts EXCEPT ![n].leased = FALSE]
  /\ UNCHANGED <<remote, stored, conversation, proofSaved, readers, stops>>

-----------------------------------------------------------------------------
(* The worker.                                                             *)

ReaderTo(h, pc) == readers' = [readers EXCEPT ![h].pc = pc]
NoticeOf(h) == readers[h].notice

processReceipt(h, n) ==
  /\ readers[h].pc = "idle" /\ claimWebhookReceipts(h, n)
  /\ readers' = [readers EXCEPT ![h] = [Idle EXCEPT !.pc = "claimed", !.notice = n]]
  /\ UNCHANGED <<remote, stored, conversation, proofSaved, stops>>

\* A notice about a post without a proof is done.  One that hides or removes
\* a comment is applied at once, and the comments are read in any case.
applyNotice(h) ==
  LET n == NoticeOf(h) IN
  /\ readers[h].pc = "claimed"
  /\ IF ~proofSaved THEN ReaderTo(h, "complete") /\ UNCHANGED <<stored, conversation>>
     ELSE /\ ReaderTo(h, "reading")
          /\ IF n[2] = "add" THEN UNCHANGED <<stored, conversation>>
             ELSE ingest({<<n[1], visibilityFor(n[2])>>}, TRUE)
  /\ UNCHANGED <<remote, proofSaved, receipts, stops>>

\* Every fifteen minutes, and when a person asks for it.
reconcileStale(h) ==
  /\ readers[h].pc = "idle" /\ listThreadsNeedingSync
  /\ readers' = [readers EXCEPT ![h] = [Idle EXCEPT !.pc = "reading"]]
  /\ UNCHANGED <<remote, stored, conversation, proofSaved, receipts, stops>>

refreshProof(h) ==
  /\ readers[h].pc = "idle" /\ proofSaved
  /\ readers' = [readers EXCEPT ![h] = [Idle EXCEPT !.pc = "reading"]]
  /\ UNCHANGED <<remote, stored, conversation, proofSaved, receipts, stops>>

mapFacebookComment(c) == <<c, IF remote[c] = "hidden" THEN "hidden" ELSE "visible">>

Listed(p) == {c \in Comments : PageOf[c] = p /\ remote[c] \in {"visible", "hidden"}}

\* One page of the list, in the order of the pages; more than the limit fails.
readCommentEdge(h) ==
  LET p == readers[h].page + 1 IN
  /\ readers[h].pc = "reading"
  /\ IF p > MaxPages THEN ReaderTo(h, "failed")
     ELSE readers' = [readers EXCEPT ![h].page = p,
                                     ![h].found = @ \cup {mapFacebookComment(c) : c \in Listed(p)},
                                     ![h].pc = IF p = LastPage THEN "read" ELSE "reading"]
  /\ UNCHANGED <<remote, stored, conversation, proofSaved, receipts, stops>>

\* The provider did not answer; without the permission to read there is
\* nothing to do.
ReadFails(h) ==
  /\ readers[h].pc = "reading"
  /\ ReaderTo(h, "failed") \/ ReaderTo(h, "complete")
  /\ UNCHANGED <<remote, stored, conversation, proofSaved, receipts, stops>>

reconcile(h) ==
  /\ readers[h].pc = "read"
  /\ ingest(readers[h].found, TRUE)
  /\ ReaderTo(h, "complete")
  /\ UNCHANGED <<remote, proofSaved, receipts, stops>>

finishReceipt(h) ==
  /\ readers[h].pc \in {"complete", "failed"}
  /\ IF NoticeOf(h) = NoNotice THEN UNCHANGED receipts
     ELSE IF readers[h].pc = "complete" THEN completeWebhookReceipt(h, NoticeOf(h))
     ELSE failWebhookReceipt(h, NoticeOf(h))
  /\ readers' = [readers EXCEPT ![h] = Idle]
  /\ UNCHANGED <<remote, stored, conversation, proofSaved, stops>>

ReaderStops(h) ==
  /\ readers[h].pc # "idle" /\ stops < MaxStops
  /\ readers' = [readers EXCEPT ![h] = Idle] /\ stops' = stops + 1
  /\ UNCHANGED <<remote, stored, conversation, proofSaved, receipts>>

-----------------------------------------------------------------------------
ReaderSteps(h) == \/ \E n \in Notices : processReceipt(h, n)
                  \/ applyNotice(h) \/ reconcileStale(h) \/ readCommentEdge(h)
                  \/ reconcile(h) \/ finishReceipt(h)

EngagementInboxNext ==
  \/ \E c \in Comments : PersonComments(c) \/ ModeratorHides(c) \/ PersonDeletes(c)
  \/ \E n \in Notices : receiveFacebook(n) \/ receiveInstagram(n) \/ ReceiptLeaseExpires(n)
  \/ ProofIsSaved \/ TimePasses \/ updateThread \/ markRead
  \/ \E h \in Readers : ReaderSteps(h) \/ refreshProof(h) \/ ReadFails(h) \/ ReaderStops(h)

\* Executions run and leases and the sync interval end, because the worker's
\* schedulers fire again and again; reading the list succeeds now and then.
EngagementInboxFairness ==
  /\ \A h \in Readers : /\ WF_engagementInboxVars(applyNotice(h)) /\ SF_engagementInboxVars(readCommentEdge(h))
                        /\ WF_engagementInboxVars(reconcile(h)) /\ WF_engagementInboxVars(finishReceipt(h))
                        /\ SF_engagementInboxVars(reconcileStale(h))
  /\ \A n \in Notices : /\ WF_engagementInboxVars(ReceiptLeaseExpires(n))
                        /\ SF_engagementInboxVars(\E h \in Readers : processReceipt(h, n))
  /\ WF_engagementInboxVars(TimePasses)

EngagementInboxSpec == EngagementInboxInit /\ [][EngagementInboxNext]_engagementInboxVars
EngagementInboxFairSpec == EngagementInboxSpec /\ EngagementInboxFairness

-----------------------------------------------------------------------------
\* A notice that was stored is applied or given up, though executions stop and
\* leases run out while it is processed.
ReceiptSettles ==
  \A n \in Notices : receipts[n].status = "pending" ~> receipts[n].status \in {"processed", "failed"}

\* A comment on an open conversation is read sooner or later, though its
\* notice is lost, unless it is gone or the conversation is closed.
CommentArrives ==
  \A c \in Comments : remote[c] = "visible" /\ conversation.state = "open"
                        ~> stored[c] # "none" \/ remote[c] = "deleted" \/ conversation.state # "open"

-----------------------------------------------------------------------------
(* The inductive invariant.                                                *)

\* An execution that has claimed a notice knows which.
InboxInv ==
  /\ EngagementInboxTypeOK
  /\ \A h \in Readers : readers[h].pc = "claimed" => readers[h].notice \in Notices
=============================================================================
