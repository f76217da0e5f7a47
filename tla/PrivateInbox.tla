---------------------------- MODULE PrivateInbox ----------------------------
(***************************************************************************)
(* One account's private inbox: messages come in by synchronisation pages, *)
(* by the echo of a sent reply and by webhook receipts that workers lease; *)
(* people resolve and reopen the conversation; deletions by the provider,  *)
(* retention and the erasure of the account take content away.             *)
(***************************************************************************)
EXTENDS Naturals

CONSTANTS Msgs,           \* provider messages of the account
          Pages,          \* pages of the provider's list
          PageOf,         \* the page a message is on
          Syncers,        \* handlers of the worker
          MaxAttempts,    \* claims of a receipt before it fails (10 in the code)
          MaxVersion      \* bound: saves of the synchronisation state

VARIABLES provider,       \* what the provider holds
          messages,       \* stored messages
          conversation,   \* the stored conversation
          profile,        \* the customer's stored profile
          syncState,      \* cursor row of the account
          capable,        \* the account has the messaging capabilities
          receipts,       \* webhook receipts, one per event
          handlers        \* the worker's handlers

inboxVars == <<provider, messages, conversation, profile, syncState, capable, receipts, handlers>>

Availability == {"absent", "available", "deleted", "expired"}
DeliveryState == {"unknown", "sent", "delivered", "read"}
Message == [availability : Availability, delivery : DeliveryState]
\* Its version only tells a request whether its author saw this state.
Conversation == {"absent", "open", "resolved"}
SyncState == [exists : BOOLEAN, version : 0..MaxVersion, cursor : 1..Pages]

\* The durable receipt keeps routing data only: the type and the message.
Events == {"message", "message_deleted"} \X Msgs
WebhookReceipt == [status : {"none", "pending", "processing", "processed", "failed"},
                   attempts : 0..MaxAttempts, active : BOOLEAN]
NoReceipt == [status |-> "none", attempts |-> 0, active |-> FALSE]

\* What a page says about a message.
ObservationKind == {"none", "message", "read", "deleted"}

\* fence: the attempt under which a receipt was leased, 0 for a plain sync job.
Handler == [pc : {"idle", "claimed", "reading", "fetched", "finished", "erred"},
            event : Events, fence : 0..MaxAttempts,
            seen : SyncState, page : [Msgs -> ObservationKind]]

\* A message is the customer's or the brand's.
ProviderMessage == [state : {"none", "live", "deleted"}, incoming : BOOLEAN]

InboxTypeOK ==
  /\ provider \in [Msgs -> ProviderMessage]
  /\ messages \in [Msgs -> Message]
  /\ conversation \in Conversation
  /\ profile \in {"absent", "present", "redacted"}
  /\ syncState \in SyncState
  /\ capable \in BOOLEAN
  /\ receipts \in [Events -> WebhookReceipt]
  /\ handlers \in [Syncers -> Handler]

FreshSync == [exists |-> TRUE, version |-> 1, cursor |-> 1]
NoSync == [exists |-> FALSE, version |-> 0, cursor |-> 1]
NoMessage == [availability |-> "absent", delivery |-> "unknown"]
EmptyPage == [m \in Msgs |-> "none"]
IdleHandler == [pc |-> "idle", event |-> CHOOSE e \in Events : TRUE, fence |-> 0,
                seen |-> NoSync, page |-> EmptyPage]

InboxInit ==
  /\ provider = [m \in Msgs |-> [state |-> "none", incoming |-> FALSE]]
  /\ messages = [m \in Msgs |-> NoMessage]
  /\ conversation = "absent"
  /\ profile = "absent" /\ syncState = NoSync /\ capable = FALSE
  /\ receipts = [e \in Events |-> NoReceipt]
  /\ handlers = [h \in Syncers |-> IdleHandler]

-----------------------------------------------------------------------------
(* Domain rules and the store's transactions.                              *)

Incoming == {m \in Msgs : provider[m].incoming}

deliveryRank == [unknown |-> 0, sent |-> 1, delivered |-> 2, read |-> 3]

\* Mutant: the newest observation wins.
applyNewestObservation(message, kind) ==
  IF kind = "deleted" THEN [message EXCEPT !.availability = "deleted"]
  ELSE [message EXCEPT !.availability = "available"]

applyPrivateMessageObservation(message, kind) ==
  IF kind = "deleted" THEN [message EXCEPT !.availability = "deleted"]
  ELSE IF message.availability = "deleted" \/ kind # "read" THEN message
  ELSE [message EXCEPT !.delivery = IF deliveryRank["read"] >= deliveryRank[@] THEN "read" ELSE @]

mapMessage(m) ==
  [availability |-> "available", delivery |-> IF m \in Incoming THEN "delivered" ELSE "sent"]

\* A page is applied message by message; a known message only takes up the
\* deletion or the delivery state the page reports.
Ingest(page) ==
  LET new == {m \in Msgs : page[m] # "none" /\ messages[m].availability = "absent"} IN
  /\ messages' = [m \in Msgs |->
       IF page[m] = "none" THEN messages[m]
       ELSE applyPrivateMessageObservation(IF m \in new THEN mapMessage(m) ELSE messages[m], page[m])]
  /\ conversation' = IF conversation = "absent" \/ new \cap Incoming # {} THEN "open" ELSE conversation
  /\ profile' = IF \E m \in Incoming : page[m] # "none" THEN "present" ELSE profile

SyncIsFresh(seen) == syncState.exists => syncState.version = seen.version

NextCursor(c) == IF c < Pages THEN c + 1 ELSE 1

SaveSyncPage(seen, page) ==
  /\ SyncIsFresh(seen)
  /\ Ingest(page)
  /\ syncState' = IF syncState.exists
                    THEN [syncState EXCEPT !.version = @ + 1, !.cursor = NextCursor(seen.cursor)]
                    ELSE [FreshSync EXCEPT !.cursor = NextCursor(seen.cursor)]

\* A message the inbox does not know is left alone.
ApplyProviderMessageDeletion(m) ==
  messages' = [messages EXCEPT ![m] =
    IF @.availability = "absent" THEN @ ELSE applyPrivateMessageObservation(@, "deleted")]

RecordWebhookReceipt(e) ==
  /\ receipts[e].status = "none"
  /\ receipts' = [receipts EXCEPT ![e].status = "pending"]

Claimable(e) ==
  \/ receipts[e].status = "pending"
  \/ receipts[e].status = "processing" /\ ~receipts[e].active

HoldsReceipt(h) ==
  LET receipt == receipts[handlers[h].event] IN
  receipt.status = "processing" /\ receipt.active /\ receipt.attempts = handlers[h].fence

-----------------------------------------------------------------------------
(* The provider.                                                           *)

MessageArrives(m) ==
  /\ provider[m].state = "none"
  /\ \E incoming \in BOOLEAN : provider' = [provider EXCEPT ![m] = [state |-> "live", incoming |-> incoming]]
  /\ UNCHANGED <<messages, conversation, profile, syncState, capable, receipts, handlers>>

MessageIsDeleted(m) ==
  /\ provider[m].state = "live"
  /\ provider' = [provider EXCEPT ![m].state = "deleted"]
  /\ UNCHANGED <<messages, conversation, profile, syncState, capable, receipts, handlers>>

\* Deliveries are repeated and come in any order; a repeated one finds the
\* fingerprint of its event and changes nothing.
normalizeMetaPrivateWebhookEvent(e) ==
  /\ provider[e[2]].state = IF e[1] = "message" THEN "live" ELSE "deleted"
  /\ capable
  /\ RecordWebhookReceipt(e)
  /\ UNCHANGED <<provider, messages, conversation, profile, syncState, capable, handlers>>

-----------------------------------------------------------------------------
(* The worker.  A handler takes a sync job or leases a receipt.            *)

\* The page and the state it was read under are done with.
GoTo(h, label) ==
  handlers' = [handlers EXCEPT ![h].pc = label, ![h].seen = NoSync, ![h].page = EmptyPage]

StartSyncJob(h) ==
  /\ handlers[h].pc = "idle" /\ capable /\ syncState.exists
  /\ handlers' = [handlers EXCEPT ![h] = [IdleHandler EXCEPT !.pc = "reading", !.seen = syncState]]
  /\ UNCHANGED <<provider, messages, conversation, profile, syncState, capable, receipts>>

ClaimWebhookReceipt(h, e) ==
  /\ handlers[h].pc = "idle"
  /\ Claimable(e) /\ receipts[e].attempts < MaxAttempts
  /\ receipts' = [receipts EXCEPT ![e] = [status |-> "processing", attempts |-> @.attempts + 1, active |-> TRUE]]
  /\ handlers' = [handlers EXCEPT ![h] = [IdleHandler EXCEPT !.pc = "claimed", !.event = e,
                                                             !.fence = receipts[e].attempts + 1]]
  /\ UNCHANGED <<provider, messages, conversation, profile, syncState, capable>>

DeleteByReceipt(h) ==
  /\ handlers[h].pc = "claimed" /\ handlers[h].event[1] = "message_deleted"
  /\ ApplyProviderMessageDeletion(handlers[h].event[2])
  /\ GoTo(h, "finished")
  /\ UNCHANGED <<provider, conversation, profile, syncState, capable, receipts>>

\* Any other event synchronises the account; without a sync state it fails.
SyncByReceipt(h) ==
  /\ handlers[h].pc = "claimed" /\ handlers[h].event[1] # "message_deleted"
  /\ handlers' = [handlers EXCEPT ![h].pc = IF syncState.exists THEN "reading" ELSE "erred",
                                  ![h].seen = syncState]
  /\ UNCHANGED <<provider, messages, conversation, profile, syncState, capable, receipts>>

readConversation(m) ==
  IF provider[m].state = "none" THEN {"none"}
  ELSE IF provider[m].state = "live" THEN {"message", "read"}
  ELSE {"none", "deleted"}

\* The pages the connector may answer with for a cursor.
SyncPages(cursor) ==
  {page \in [Msgs -> ObservationKind] :
     \A m \in Msgs : page[m] \in IF PageOf[m] = cursor THEN readConversation(m) ELSE {"none"}}

FetchPage(h) ==
  /\ handlers[h].pc = "reading"
  /\ \E page \in SyncPages(handlers[h].seen.cursor) :
       handlers' = [handlers EXCEPT ![h].pc = "fetched", ![h].page = page]
  /\ UNCHANGED <<provider, messages, conversation, profile, syncState, capable, receipts>>

FetchFails(h) ==
  /\ handlers[h].pc = "reading"
  /\ GoTo(h, "erred")
  /\ UNCHANGED <<provider, messages, conversation, profile, syncState, capable, receipts>>

SavePage(h) ==
  /\ handlers[h].pc = "fetched"
  /\ SyncIsFresh(handlers[h].seen) => syncState.version < MaxVersion
  /\ IF SyncIsFresh(handlers[h].seen)
       THEN SaveSyncPage(handlers[h].seen, handlers[h].page) /\ GoTo(h, "finished")
       ELSE GoTo(h, "erred") /\ UNCHANGED <<messages, conversation, profile, syncState>>
  /\ UNCHANGED <<provider, capable, receipts>>

CompleteWebhookReceipt(h) ==
  /\ handlers[h].pc = "finished"
  /\ receipts' = IF handlers[h].fence > 0 /\ HoldsReceipt(h)
                   THEN [receipts EXCEPT ![handlers[h].event].status = "processed", ![handlers[h].event].active = FALSE]
                   ELSE receipts
  /\ handlers' = [handlers EXCEPT ![h] = IdleHandler]
  /\ UNCHANGED <<provider, messages, conversation, profile, syncState, capable>>

FailWebhookReceipt(h) ==
  /\ handlers[h].pc = "erred"
  /\ receipts' = IF handlers[h].fence > 0 /\ HoldsReceipt(h)
                   THEN [receipts EXCEPT ![handlers[h].event].status =
                                           IF handlers[h].fence >= MaxAttempts THEN "failed" ELSE "pending",
                                         ![handlers[h].event].active = FALSE]
                   ELSE receipts
  /\ handlers' = [handlers EXCEPT ![h] = IdleHandler]
  /\ UNCHANGED <<provider, messages, conversation, profile, syncState, capable>>

ReceiptLeaseExpires(e) ==
  /\ receipts[e].active
  /\ receipts' = [receipts EXCEPT ![e].active = FALSE]
  /\ UNCHANGED <<provider, messages, conversation, profile, syncState, capable, handlers>>

\* A reply the provider accepted shows up as an outgoing message at once.
IngestEcho(m) ==
  /\ m \notin Incoming /\ provider[m].state = "live" /\ conversation # "absent"
  /\ Ingest([EmptyPage EXCEPT ![m] = "message"])
  /\ UNCHANGED <<provider, syncState, capable, receipts, handlers>>

-----------------------------------------------------------------------------
(* People, retention and erasure.                                          *)

\* The request names the version its author saw.
UpdateConversation(state) ==
  /\ conversation \notin {"absent", state}
  /\ conversation' = state
  /\ UNCHANGED <<provider, messages, profile, syncState, capable, receipts, handlers>>

EnableCapabilities ==
  /\ ~capable
  /\ capable' = TRUE
  /\ UNCHANGED <<provider, messages, conversation, profile, syncState, receipts, handlers>>

InitializeSync ==
  /\ capable /\ ~syncState.exists
  /\ syncState' = FreshSync
  /\ UNCHANGED <<provider, messages, conversation, profile, capable, receipts, handlers>>

\* The first save failed and nobody else made the row: the capabilities go.
CompensateDemoCapabilities ==
  /\ capable /\ ~syncState.exists
  /\ capable' = FALSE
  /\ UNCHANGED <<provider, messages, conversation, profile, syncState, receipts, handlers>>

PurgeExpired ==
  /\ \E gone \in (SUBSET {m \in Msgs : messages[m].availability = "available"}) \ {{}} :
       messages' = [m \in Msgs |-> IF m \in gone THEN [messages[m] EXCEPT !.availability = "expired"] ELSE messages[m]]
  /\ profile' \in {profile, IF profile = "present" THEN "redacted" ELSE profile}
  /\ receipts' \in {receipts, [e \in Events |->
       IF receipts[e].status \in {"processed", "failed"} THEN NoReceipt ELSE receipts[e]]}
  /\ UNCHANGED <<provider, conversation, syncState, capable, handlers>>

EraseProviderData ==
  /\ syncState.exists
  /\ messages' = [m \in Msgs |-> IF messages[m].availability = "absent" THEN NoMessage
                                 ELSE [messages[m] EXCEPT !.availability = "expired"]]
  /\ conversation' = IF conversation = "absent" THEN conversation ELSE "resolved"
  /\ profile' = IF profile = "present" THEN "redacted" ELSE profile
  /\ receipts' = [e \in Events |-> NoReceipt]
  /\ syncState' = NoSync
  /\ capable' = FALSE
  /\ UNCHANGED <<provider, handlers>>

-----------------------------------------------------------------------------
InboxHandlerStep(h) ==
  \/ StartSyncJob(h) \/ (\E e \in Events : ClaimWebhookReceipt(h, e))
  \/ DeleteByReceipt(h) \/ SyncByReceipt(h) \/ FetchPage(h) \/ FetchFails(h) \/ SavePage(h)
  \/ CompleteWebhookReceipt(h) \/ FailWebhookReceipt(h)

InboxNext ==
  \/ \E m \in Msgs : MessageArrives(m) \/ MessageIsDeleted(m) \/ IngestEcho(m)
  \/ \E e \in Events : normalizeMetaPrivateWebhookEvent(e) \/ ReceiptLeaseExpires(e)
  \/ \E h \in Syncers : InboxHandlerStep(h)
  \/ \E state \in {"open", "resolved"} : UpdateConversation(state)
  \/ EnableCapabilities \/ InitializeSync \/ CompensateDemoCapabilities
  \/ PurgeExpired \/ EraseProviderData

InboxSpec == InboxInit /\ [][InboxNext]_inboxVars

-----------------------------------------------------------------------------
\* What was deleted by the provider, expired or was erased never shows its
\* content again, whatever page, echo or receipt is applied afterwards, and
\* no message forgets that it was read.
RemovedContentStays ==
  \A m \in Msgs :
    /\ messages[m].availability \in {"deleted", "expired"}
         => messages'[m].availability \in {"deleted", "expired"}
    /\ messages[m].delivery = "read" => messages'[m].delivery = "read"

-----------------------------------------------------------------------------
(* The inductive invariant.                                                *)

\* Nothing is known of the delivery of a message that is not stored.
AbsentIsUnknown == \A m \in Msgs : messages[m].availability = "absent" => messages[m].delivery = "unknown"

InboxInv == InboxTypeOK /\ AbsentIsUnknown
=============================================================================
