---------------------------- MODULE ShareCapture ----------------------------
(***************************************************************************)
(* A share from a phone: a receipt that lives for fifteen minutes, its file *)
(* in quarantine, and the requests that turn it into a library file, a     *)
(* content item, or both.  The ids of what is saved are made from the      *)
(* receipt and its text, so that a retry finds what an earlier one saved.  *)
(***************************************************************************)
EXTENDS Integers

CONSTANTS Requests, Texts, NoRequest,
          MaxReceiptVersion   \* bound of the exploration

VARIABLES receipt,
          late,      \* the fifteen minutes are over
          object,    \* the quarantined object is stored
          asset,     \* the library file and the choices it was saved with
          items,     \* the content items, by the text that makes their id
          requests,
          stopped    \* history: a request ended where it was

shareVars == <<receipt, late, object, asset, items, requests, stopped>>

ShareCaptureStatus == {"none", "receiving", "inspecting", "pending", "pending_review", "materializing", "converted", "rejected",
                       "failed", "expired"}

ShareCaptureMode == {"library", "content"}

ShareCaptureReceipt ==
  [status : ShareCaptureStatus, version : 0..MaxReceiptVersion, media : BOOLEAN,
   key : BOOLEAN,                                \* it names a quarantined object
   text : Texts, intent : ShareCaptureMode \cup {"none"},
   owner : Requests \cup {NoRequest}, live : BOOLEAN,
   savedAsset : BOOLEAN, savedItem : Texts \cup {"none"}]

Request == [pc : {"idle", "staging", "written", "inspected", "refused", "inspecting", "broken", "read", "revised", "claimed",
                  "stored", "saved", "converted", "removed"},
            op : {"none", "intake", "convert", "materialize", "cleanup"},
            version : 0..MaxReceiptVersion, text : Texts, intent : ShareCaptureMode \cup {"none"}]

ShareTypeOK ==
  /\ receipt \in ShareCaptureReceipt /\ late \in BOOLEAN /\ object \in BOOLEAN
  /\ asset \in ShareCaptureMode \cup {"none"} /\ items \subseteq Texts
  /\ requests \in [Requests -> Request] /\ stopped \in BOOLEAN

IdleRequest == [pc |-> "idle", op |-> "none", version |-> 0, text |-> CHOOSE t \in Texts : TRUE, intent |-> "none"]

ShareInit ==
  /\ receipt = [status |-> "none", version |-> 0, media |-> FALSE, key |-> FALSE, text |-> CHOOSE t \in Texts : TRUE,
                intent |-> "none", owner |-> NoRequest, live |-> FALSE, savedAsset |-> FALSE, savedItem |-> "none"]
  /\ late = FALSE /\ object = FALSE /\ asset = "none" /\ items = {}
  /\ requests = [q \in Requests |-> IdleRequest] /\ stopped = FALSE

-----------------------------------------------------------------------------
To(q, pc) == requests' = [requests EXCEPT ![q].pc = pc]

Ends(q) == requests' = [requests EXCEPT ![q] = IdleRequest]

Terminal == {"converted", "expired", "rejected", "failed"}

\* A row update that needs the version the request read, or changes nothing.
Fenced(q) == receipt.version = requests[q].version /\ receipt.version < MaxReceiptVersion

Bump(r, status) == [r EXCEPT !.version = @ + 1, !.status = status]

\* A shared text or link is pending at once; a file is received first.
intake(q, media, text) ==
  /\ receipt.status = "none"
  /\ receipt' = [receipt EXCEPT !.version = 1, !.status = IF media THEN "receiving" ELSE "pending", !.media = media, !.key = media,
                                !.text = text]
  /\ requests' = IF media THEN [requests EXCEPT ![q] = [IdleRequest EXCEPT !.pc = "staging", !.op = "intake", !.version = 1]]
                 ELSE requests
  /\ UNCHANGED <<late, object, asset, items, stopped>>

writeCaptured(q) ==
  /\ requests[q].pc = "staging" /\ object' = TRUE /\ To(q, "written")
  /\ UNCHANGED <<receipt, late, asset, items, stopped>>

\* Scanned and inspected; a refused file is removed at once.
stageShareCapture(q, accepted) ==
  /\ requests[q].pc = "written"
  /\ object' = (object /\ accepted) /\ To(q, IF accepted THEN "inspected" ELSE "refused")
  /\ UNCHANGED <<receipt, late, asset, items, stopped>>

\* Receiving, then inspecting, then for review or rejected: two updates, each by its version and within the time.
updateMedia(q) ==
  LET r == requests[q]
      rejects == r.pc = "refused"
      next == IF receipt.status = "receiving" THEN "inspecting" ELSE IF rejects THEN "rejected" ELSE "pending_review" IN
    /\ r.pc \in {"inspected", "refused"}
    /\ IF Fenced(q) /\ ~ late /\ receipt.status \in {"receiving", "inspecting"}
         THEN /\ receipt' = [Bump(receipt, next) EXCEPT !.key = ~ rejects]
              /\ IF next = "inspecting" THEN requests' = [requests EXCEPT ![q].version = @ + 1] ELSE Ends(q)
         ELSE UNCHANGED receipt /\ To(q, "broken")
    /\ UNCHANGED <<late, object, asset, items, stopped>>

markFailed == [Bump(receipt, IF receipt.media THEN "rejected" ELSE "failed") EXCEPT !.owner = NoRequest, !.live = FALSE]

\* The object is removed, then the receipt fails, if it is still at the version of this request.
intakeFails(q) ==
  /\ requests[q].op = "intake" /\ requests[q].pc \in {"staging", "written", "broken"}
  /\ object' = FALSE
  /\ receipt' = IF Fenced(q) /\ receipt.status \notin Terminal THEN markFailed ELSE receipt
  /\ Ends(q) /\ UNCHANGED <<late, asset, items, stopped>>

-----------------------------------------------------------------------------
(* Saving.                                                                 *)

getByTokenHash(q, op, text, intent) ==
  /\ requests[q].pc = "idle"
  /\ receipt.status \in (IF op = "convert" THEN {"pending"} ELSE {"pending_review", "materializing"})
  /\ ~ (late /\ ~ (receipt.status = "materializing" /\ receipt.live))
  /\ requests' = [requests EXCEPT ![q] = [pc |-> "read", op |-> op, version |-> receipt.version,
                                          text |-> IF receipt.status = "materializing" THEN receipt.text ELSE text, intent |-> intent]]
  /\ UNCHANGED <<receipt, late, object, asset, items, stopped>>

convert(q, text) == getByTokenHash(q, "convert", text, "none")

materialize(q, text, intent) == getByTokenHash(q, "materialize", text, intent)

\* The text the user changed is saved first.
revise(q) ==
  /\ requests[q].pc = "read"
  /\ IF requests[q].text = receipt.text THEN UNCHANGED receipt /\ To(q, "revised")
     ELSE IF Fenced(q) /\ ~ late /\ receipt.status \in {"pending", "pending_review"}
       THEN /\ receipt' = [Bump(receipt, receipt.status) EXCEPT !.text = requests[q].text]
            /\ requests' = [requests EXCEPT ![q].pc = "revised", ![q].version = @ + 1]
       ELSE UNCHANGED receipt /\ Ends(q)
  /\ UNCHANGED <<late, object, asset, items, stopped>>

\* Mutant: another tab's choices are claimed as well.
sameOrNewIntent(intent) == TRUE

sameIntent(intent) == receipt.intent \in {"none", intent}

claimMaterialization(q) ==
  LET r == requests[q] IN
    /\ r.pc = "revised" /\ r.op = "materialize"
    /\ IF /\ Fenced(q) /\ ~ late /\ sameIntent(r.intent)
          /\ receipt.status = "pending_review" \/ (receipt.status = "materializing" /\ ~ receipt.live)
         THEN /\ receipt' = [Bump(receipt, "materializing") EXCEPT !.intent = r.intent, !.owner = q, !.live = TRUE]
              /\ requests' = [requests EXCEPT ![q].pc = "claimed", ![q].version = @ + 1]
         ELSE UNCHANGED receipt /\ Ends(q)
    /\ UNCHANGED <<late, object, asset, items, stopped>>

\* The file is copied out of quarantine, verified, and saved; what an earlier request saved with the same choices is kept.
materializeShareCapture(q) ==
  LET r == requests[q] IN
    /\ r.pc = "claimed"
    /\ IF asset = r.intent \/ (asset = "none" /\ object)
         THEN asset' = r.intent /\ To(q, IF r.intent = "content" THEN "stored" ELSE "saved")
         ELSE UNCHANGED asset /\ Ends(q)
    /\ UNCHANGED <<receipt, late, object, items, stopped>>

\* The content item, with its source or draft, unless it is there.
createShareCaptureDraftContent(q) ==
  /\ requests[q].pc = "stored" \/ (requests[q].pc = "revised" /\ requests[q].op = "convert")
  /\ items' = items \cup {requests[q].text} /\ To(q, "saved")
  /\ UNCHANGED <<receipt, late, object, asset, stopped>>

\* Mutant: the claim is not asked for.
anyVersionConverts(q) == receipt.status \in {"pending", "materializing"}

convertible(q) ==
  /\ Fenced(q) /\ ~ late
  /\ IF requests[q].op = "convert" THEN receipt.status = "pending"
     ELSE receipt.status = "materializing" /\ receipt.owner = q /\ receipt.live

markConverted(q) ==
  LET r == requests[q] IN
    /\ r.pc = "saved"
    /\ IF convertible(q)
         THEN /\ receipt' = [Bump(receipt, "converted") EXCEPT !.owner = NoRequest, !.live = FALSE, !.savedAsset = (r.op = "materialize"),
                                                               !.savedItem = IF r.intent = "library" THEN "none" ELSE r.text]
              /\ IF r.op = "materialize" THEN To(q, "converted") ELSE Ends(q)
         ELSE UNCHANGED receipt /\ Ends(q)
    /\ UNCHANGED <<late, object, asset, items, stopped>>

-----------------------------------------------------------------------------
(* Time, cleanup and stops.                                                *)

timePasses == receipt.status # "none" /\ ~ late /\ late' = TRUE /\ UNCHANGED <<receipt, object, asset, items, requests, stopped>>

leaseExpires ==
  /\ receipt.live /\ receipt' = [receipt EXCEPT !.live = FALSE]
  /\ UNCHANGED <<late, object, asset, items, requests, stopped>>

expireDue ==
  /\ late /\ receipt.status \notin {"none", "converted", "expired"} /\ receipt.version < MaxReceiptVersion
  /\ ~ (receipt.status = "materializing" /\ receipt.live)
  /\ receipt' = [Bump(receipt, "expired") EXCEPT !.owner = NoRequest, !.live = FALSE]
  /\ UNCHANGED <<late, object, asset, items, requests, stopped>>

listQuarantineCleanup == receipt.status \in Terminal /\ receipt.key

cleanupDue(q) ==
  /\ requests[q].pc = "idle" /\ listQuarantineCleanup
  /\ requests' = [requests EXCEPT ![q] = [IdleRequest EXCEPT !.pc = "converted", !.op = "cleanup"]]
  /\ UNCHANGED <<receipt, late, object, asset, items, stopped>>

deleteCapturedObject(q) ==
  /\ requests[q].pc = "converted" /\ object' = FALSE /\ To(q, "removed")
  /\ UNCHANGED <<receipt, late, asset, items, stopped>>

\* Mutant: the key is cleared before the object is removed.
clearFirst(q) ==
  /\ requests[q].pc \in {"converted", "removed"}
  /\ receipt' = [receipt EXCEPT !.version = @ + 1, !.key = FALSE] /\ receipt.version < MaxReceiptVersion
  /\ Ends(q) /\ UNCHANGED <<late, object, asset, items, stopped>>

clearQuarantine(q) ==
  /\ requests[q].pc = "removed"
  /\ receipt' = IF listQuarantineCleanup /\ receipt.version < MaxReceiptVersion THEN [receipt EXCEPT !.version = @ + 1, !.key = FALSE] ELSE receipt
  /\ Ends(q) /\ UNCHANGED <<late, object, asset, items, stopped>>

stop(q) ==
  /\ requests[q].pc # "idle" /\ Ends(q) /\ stopped' = TRUE
  /\ UNCHANGED <<receipt, late, object, asset, items>>

ShareNext ==
  \/ timePasses \/ leaseExpires \/ expireDue
  \/ \E q \in Requests :
       \/ writeCaptured(q) \/ updateMedia(q) \/ intakeFails(q) \/ revise(q) \/ claimMaterialization(q)
       \/ materializeShareCapture(q) \/ createShareCaptureDraftContent(q) \/ markConverted(q)
       \/ cleanupDue(q) \/ deleteCapturedObject(q) \/ clearQuarantine(q) \/ stop(q)
       \/ \E yes \in BOOLEAN : stageShareCapture(q, yes) \/ \E t \in Texts : intake(q, yes, t)
       \/ \E t \in Texts : convert(q, t) \/ \E i \in ShareCaptureMode : materialize(q, t, i)

ShareSpec == ShareInit /\ [][ShareNext]_shareVars

-----------------------------------------------------------------------------
\* A converted receipt names what was saved: its text's content item, and the file saved with the choices it records,
\* whichever tab, retry or late worker finished it.
ConvertedIsSaved ==
  receipt.status = "converted" =>
    /\ receipt.savedItem # "none" => receipt.savedItem \in items /\ receipt.savedItem = receipt.text
    /\ receipt.savedAsset => asset = receipt.intent

\* The file of a receipt is saved with the choices that were claimed first; two tabs with different choices never both
\* save.
OneSetOfChoices == asset # "none" => asset = receipt.intent

\* A quarantined object that no receipt names any more is about to be removed by the request that stored it, unless
\* that request was stopped.
NoLostObject ==
  object /\ ~ receipt.key /\ ~ stopped =>
    \E q \in Requests : requests[q].op = "intake" /\ requests[q].pc \in {"staging", "written", "inspected", "broken"}

-----------------------------------------------------------------------------
(* The inductive invariant. *)

Staging == {"staging", "written", "inspected", "broken"}

Intaking == \E q \in Requests : requests[q].op = "intake" /\ requests[q].pc \in Staging

\* What a request read is still so at the version it read; what it claimed and saved stays so at any.
RequestFits(r) ==
  /\ r.version <= receipt.version
  /\ r.pc = "idle" => r.op = "none"
  /\ r.pc \in Staging \cup {"refused"} => r.op = "intake"
  /\ r.pc \in {"read", "revised", "claimed", "stored", "saved"} =>
       r.op \in {"convert", "materialize"} /\ (r.op = "convert" <=> r.intent = "none")
  /\ r.pc \in {"revised", "claimed", "stored", "saved"} /\ r.version = receipt.version => r.text = receipt.text
  /\ r.pc \in {"claimed", "stored"} => r.op = "materialize"
  /\ r.pc \in {"claimed", "stored", "saved"} /\ r.op = "materialize" => r.intent = receipt.intent
  /\ r.pc \in {"stored", "saved"} /\ r.op = "materialize" => asset = r.intent
  /\ r.pc = "saved" /\ r.intent # "library" => r.text \in items
  /\ r.pc \in {"converted", "removed"} => receipt.status \in Terminal

\* The one intake removes what it stored, and a request that removed the object clears the key of nothing else.
ObjectFits ==
  /\ \A q \in Requests, w \in Requests : requests[q].op = "intake" /\ requests[w].op = "intake" => q = w
  /\ \A q \in Requests : requests[q].pc = "refused" => ~ object
  /\ (\E q \in Requests : requests[q].pc = "removed") /\ object /\ ~ stopped => Intaking

NothingBefore == receipt.status = "none" => receipt.version = 0 /\ ~ object /\ \A q \in Requests : requests[q].pc = "idle"

ShareInv ==
  /\ ShareTypeOK /\ NothingBefore /\ ObjectFits /\ NoLostObject /\ ConvertedIsSaved /\ OneSetOfChoices
  /\ \A q \in Requests : RequestFits(requests[q])

\* Versions grow, the text belongs to a version, and what was claimed, saved and ended stays.
Onward ==
  /\ receipt.version <= receipt'.version /\ (receipt'.version = receipt.version => receipt'.text = receipt.text)
  /\ receipt.intent # "none" => receipt'.intent = receipt.intent
  /\ receipt.status \in Terminal => receipt'.status \in Terminal
  /\ asset # "none" => asset' = asset
  /\ items \subseteq items'
=============================================================================
