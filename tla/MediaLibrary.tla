---------------------------- MODULE MediaLibrary ----------------------------
(***************************************************************************)
(* Files of the library: upload, verification, generated and captured      *)
(* files, Trash and cleanup.  A record is saved with its next version or   *)
(* not at all; the objects of the store have no version, and every step    *)
(* that touches them runs between the steps of other requests.             *)
(* "declared" is the content whose hash and type the request named.        *)
(***************************************************************************)
EXTENDS Integers, FiniteSets

CONSTANTS Assets, Jobs,
          MaxMediaVersion   \* bound of the exploration

VARIABLES media,     \* records
          objects,   \* the store: the uploaded and the final object of an asset
          used,      \* assets that a draft refers to
          late,      \* what has run out for an asset: its upload lease, its time in Trash
          jobs,      \* requests and cleanup passes
          exposed    \* history: assets whose final object was deleted while another request was at work

mediaVars == <<media, objects, used, late, jobs, exposed>>

MediaStatus == {"none", "pending", "ready", "rejected", "expired", "trashed", "cleanup_failed", "deleted"}

Origins == {"upload", "generate", "materialize"}

MediaAsset == [status : MediaStatus, version : 0..MaxMediaVersion, before : MediaStatus, from : Origins]

Content == {"absent", "declared", "other", "infected"}

MediaMalwareScanResult == {"clean", "disabled", "infected", "unavailable"}

MediaInspectionResult == {"ready", "not_applicable", "failed", "unavailable"}

Operations == {"none", "complete", "generate", "materialize", "trash", "restore", "cleanup", "attach"}

Job == [pc : {"idle", "read", "found", "copied", "scanned", "verified", "refused", "rejected", "ready", "removed"},
        op : Operations, asset : Assets, seen : MediaAsset, content : Content, unused : BOOLEAN]

MediaTypeOK ==
  /\ media \in [Assets -> MediaAsset] /\ objects \in [Assets -> [upload : Content, final : Content]]
  /\ used \subseteq Assets /\ late \in [Assets -> SUBSET {"lease", "retention"}]
  /\ jobs \in [Jobs -> Job] /\ exposed \subseteq Assets

NoMedia == [status |-> "none", version |-> 0, before |-> "none", from |-> "upload"]

IdleJob == [pc |-> "idle", op |-> "none", asset |-> CHOOSE a \in Assets : TRUE, seen |-> NoMedia, content |-> "absent",
            unused |-> FALSE]

MediaInit ==
  /\ media = [a \in Assets |-> NoMedia]
  /\ objects = [a \in Assets |-> [upload |-> "absent", final |-> "absent"]]
  /\ used = {} /\ late = [a \in Assets |-> {}] /\ jobs = [j \in Jobs |-> IdleJob] /\ exposed = {}

-----------------------------------------------------------------------------
(* The record, the store, the scanner and the inspector.                   *)

\* Mutant: the row is updated by its id only.
saveAnyVersion(a, seen) == media[a].status # "none"

saveFence(a, seen) == media[a].version = seen.version

next(seen, status) == [seen EXCEPT !.status = status, !.version = @ + 1]

save(a, seen, status) ==
  /\ saveFence(a, seen) /\ seen.version < MaxMediaVersion
  /\ media' = [media EXCEPT ![a] = next(seen, status)]

\* What clamd's stream scan says of a stored object; an object that cannot be read is not scanned.
scan(content, answer) ==
  /\ content = "absent" => answer = "unavailable"
  /\ content = "infected" => answer \in {"infected", "unavailable"}
  /\ content \in {"declared", "other"} => answer \in {"clean", "disabled", "unavailable"}

malwareAccepted(answer) == answer \in {"clean", "disabled"}

\* The type found in the bytes is the declared one, within the limits of size, pixels, output and time.
inspect(content, answer) ==
  /\ answer \in MediaInspectionResult
  /\ content = "absent" => answer = "failed"

metadataAccepted(answer) == answer \in {"ready", "not_applicable"}

-----------------------------------------------------------------------------
(* Uploads.                                                                *)

Starts(j, a, op, pc) == jobs' = [jobs EXCEPT ![j] = [IdleJob EXCEPT !.pc = pc, !.op = op, !.asset = a, !.seen = media[a]]]

To(j, pc) == jobs' = [jobs EXCEPT ![j].pc = pc]

Ends(j) == jobs' = [jobs EXCEPT ![j] = IdleJob]

\* No other request is at work on the file of this one.
Alone(j) == \A k \in Jobs \ {j} : jobs[k].pc = "idle" \/ jobs[k].asset # jobs[j].asset

createUpload(a) ==
  /\ media[a].status = "none"
  /\ media' = [media EXCEPT ![a] = next(@, "pending")]
  /\ UNCHANGED <<objects, used, late, jobs, exposed>>

\* The browser's PUT, which may be repeated until the link expires.
put(a, content) ==
  /\ media[a].status # "none" /\ media[a].from = "upload" /\ "lease" \notin late[a] /\ content # "absent" /\ objects[a].upload # content
  /\ objects' = [objects EXCEPT ![a].upload = content]
  /\ UNCHANGED <<media, used, late, jobs, exposed>>

complete(j, a) ==
  /\ jobs[j].pc = "idle" /\ media[a].status = "pending" /\ media[a].from = "upload" /\ "lease" \notin late[a]
  /\ Starts(j, a, "complete", "read")
  /\ UNCHANGED <<media, objects, used, late, exposed>>

\* The upload is read to the end: its size, type and hash are those of the request.
readUpload(j) ==
  LET a == jobs[j].asset IN
    /\ jobs[j].pc = "read" /\ jobs[j].op = "complete"
    /\ IF objects[a].upload = "declared"
         THEN jobs' = [jobs EXCEPT ![j].pc = "found", ![j].content = objects[a].upload] ELSE To(j, "refused")
    /\ UNCHANGED <<media, objects, used, late, exposed>>

\* Mutant: the copy is made without CopySourceIfMatch.
finalizeWhatIsThere(j) ==
  LET a == jobs[j].asset IN
    /\ jobs[j].pc = "found" /\ jobs[j].op = "complete"
    /\ objects' = [objects EXCEPT ![a].final = objects[a].upload] /\ To(j, "copied")
    /\ UNCHANGED <<media, used, late, exposed>>

finalize(j) ==
  LET a == jobs[j].asset IN
    /\ jobs[j].pc = "found" /\ jobs[j].op = "complete"
    /\ IF objects[a].upload = jobs[j].content
         THEN objects' = [objects EXCEPT ![a].final = jobs[j].content] /\ To(j, "copied")
         ELSE UNCHANGED objects /\ To(j, "refused")
    /\ UNCHANGED <<media, used, late, exposed>>

scanFinalized(j, answer) ==
  /\ jobs[j].pc = "copied" /\ scan(objects[jobs[j].asset].final, answer)
  /\ To(j, IF malwareAccepted(answer) THEN "scanned" ELSE "refused")
  /\ UNCHANGED <<media, objects, used, late, exposed>>

inspectFinalized(j, answer) ==
  /\ jobs[j].pc = "scanned" /\ inspect(objects[jobs[j].asset].final, answer)
  /\ To(j, IF metadataAccepted(answer) THEN "verified" ELSE "refused")
  /\ UNCHANGED <<media, objects, used, late, exposed>>

\* A save that loses to another version is handled as a refusal; there it loses again and the request fails.
saveReady(j) ==
  LET a == jobs[j].asset IN
    /\ jobs[j].pc = "verified"
    /\ IF saveFence(a, jobs[j].seen) THEN save(a, jobs[j].seen, "ready") /\ To(j, "ready")
       ELSE UNCHANGED media /\ (IF jobs[j].op = "materialize" THEN Ends(j) ELSE To(j, "refused"))
    /\ UNCHANGED <<objects, used, late, exposed>>

\* Mutant: the key of the saved record is deleted, which is the final one by now.
deleteSavedKey(j) ==
  /\ jobs[j].pc = "ready"
  /\ objects' = IF jobs[j].op = "complete" THEN [objects EXCEPT ![jobs[j].asset].final = "absent"] ELSE objects
  /\ Ends(j) /\ UNCHANGED <<media, used, late, exposed>>

\* After the save the uploaded object is not needed; a crash here leaves it.
deleteUpload(j) ==
  /\ jobs[j].pc = "ready"
  /\ objects' = IF jobs[j].op = "complete" THEN [objects EXCEPT ![jobs[j].asset].upload = "absent"] ELSE objects
  /\ Ends(j) /\ UNCHANGED <<media, used, late, exposed>>

reject(j) ==
  LET a == jobs[j].asset IN
    /\ jobs[j].pc = "refused" /\ jobs[j].op \in {"complete", "generate"}
    /\ IF saveFence(a, jobs[j].seen) THEN save(a, jobs[j].seen, "rejected") /\ To(j, "rejected")
       ELSE UNCHANGED media /\ Ends(j)
    /\ UNCHANGED <<objects, used, late, exposed>>

deleteRejected(j) ==
  LET a == jobs[j].asset IN
    /\ jobs[j].pc = "rejected"
    /\ objects' = [objects EXCEPT ![a] = [upload |-> IF jobs[j].op = "complete" THEN "absent" ELSE @.upload, final |-> "absent"]]
    /\ exposed' = IF ~ Alone(j) \/ media[a].status # "rejected" THEN exposed \cup {a} ELSE exposed
    /\ Ends(j) /\ UNCHANGED <<media, used, late>>

-----------------------------------------------------------------------------
(* Generated and captured files: the identity of the file is given, and a  *)
(* retry continues with the pending record.                                *)

createGeneratedMedia(j, a, op) ==
  /\ jobs[j].pc = "idle" /\ op \in {"generate", "materialize"} /\ (media[a].status = "none" \/ (media[a].status = "pending" /\ media[a].from = op))
  /\ media' = IF media[a].status = "none" THEN [media EXCEPT ![a] = [next(@, "pending") EXCEPT !.from = op]] ELSE media
  /\ jobs' = [jobs EXCEPT ![j] = [IdleJob EXCEPT !.pc = "found", !.op = op, !.asset = a, !.seen = media'[a]]]
  /\ UNCHANGED <<objects, used, late, exposed>>

\* The bytes are hashed, or the captured object is, before they are stored.
writeGenerated(j) ==
  /\ jobs[j].pc = "found" /\ jobs[j].op \in {"generate", "materialize"}
  /\ objects' = [objects EXCEPT ![jobs[j].asset].final = "declared"] /\ To(j, "copied")
  /\ UNCHANGED <<media, used, late, exposed>>

\* A captured file that was refused: the record is read again; one that is ready meanwhile is kept.
materializeShareCapture(j) ==
  LET a == jobs[j].asset IN
    /\ jobs[j].pc = "refused" /\ jobs[j].op = "materialize"
    /\ CASE media[a].status = "ready" -> UNCHANGED media /\ Ends(j)
         [] media[a].status = "pending" -> save(a, media[a], "rejected") /\ To(j, "rejected")
         [] OTHER -> UNCHANGED media /\ To(j, "rejected")
    /\ UNCHANGED <<objects, used, late, exposed>>

-----------------------------------------------------------------------------
(* Trash and cleanup.                                                      *)

\* The drafts, published proofs, renders, templates and audio records that name the file.
references(a) == used \cap {a}

\* References are counted first, the record is saved later.
trash(j, a) ==
  /\ jobs[j].pc = "idle" /\ media[a].status \notin {"none", "deleted", "trashed", "cleanup_failed"}
  /\ jobs' = [jobs EXCEPT ![j] = [IdleJob EXCEPT !.pc = "read", !.op = "trash", !.asset = a, !.seen = media[a],
                                    !.unused = references(a) = {}]]
  /\ UNCHANGED <<media, objects, used, late, exposed>>

requestMediaTrash(j) ==
  LET a == jobs[j].asset
      seen == jobs[j].seen IN
    /\ jobs[j].pc = "read" /\ jobs[j].op = "trash" /\ jobs[j].unused
    /\ save(a, [seen EXCEPT !.before = seen.status], "trashed")
    /\ late' = [late EXCEPT ![a] = @ \ {"retention"}] /\ Ends(j)
    /\ UNCHANGED <<objects, used, exposed>>

restore(j, a) ==
  /\ jobs[j].pc = "idle" /\ media[a].status = "trashed" /\ "retention" \notin late[a]
  /\ Starts(j, a, "restore", "read")
  /\ UNCHANGED <<media, objects, used, late, exposed>>

restoreMediaFromTrash(j) ==
  LET a == jobs[j].asset
      seen == jobs[j].seen IN
    /\ jobs[j].pc = "read" /\ jobs[j].op = "restore"
    /\ save(a, [seen EXCEPT !.before = "none"], seen.before) /\ Ends(j)
    /\ exposed' = IF objects[a].final = "absent" THEN exposed \cup {a} ELSE exposed
    /\ UNCHANGED <<objects, used, late>>

timePasses(a) ==
  /\ \E what \in {"lease", "retention"} :
       /\ what \notin late[a] /\ media[a].status \in {"pending", "trashed"}
       /\ late' = [late EXCEPT ![a] = @ \cup {what}]
  /\ UNCHANGED <<media, objects, used, jobs, exposed>>

mediaCleanupReason(a) ==
  CASE media[a].status = "pending" /\ "lease" \in late[a] -> "upload-expired"
    [] media[a].status = "trashed" /\ "retention" \in late[a] -> "trash-retention-ended"
    [] media[a].status = "cleanup_failed" -> IF media[a].before = "none" THEN "upload-expired" ELSE "trash-retention-ended"
    [] OTHER -> "none"

\* The same condition as a query: it feeds the sweep, a hundred at a time, the oldest first.
listCleanupCandidates == {a \in Assets : mediaCleanupReason(a) # "none"}

cleanupDue(j, a) ==
  /\ jobs[j].pc = "idle" /\ a \in listCleanupCandidates
  /\ Starts(j, a, "cleanup", "read")
  /\ UNCHANGED <<media, objects, used, late, exposed>>

\* The object the record names: the uploaded one until the file was ready.
deleteObject(j) ==
  LET a == jobs[j].asset
      key == IF jobs[j].seen.before = "ready" \/ jobs[j].seen.from # "upload" THEN "final" ELSE "upload" IN
    /\ jobs[j].pc = "read" /\ jobs[j].op = "cleanup"
    /\ objects' = [objects EXCEPT ![a][key] = "absent"]
    /\ exposed' = IF key = "final" /\ (~ Alone(j) \/ media[a].version # jobs[j].seen.version) THEN exposed \cup {a} ELSE exposed
    /\ To(j, "removed") /\ UNCHANGED <<media, used, late>>

completeMediaCleanup(j) ==
  LET seen == jobs[j].seen IN
    /\ jobs[j].pc = "removed"
    /\ save(jobs[j].asset, seen, IF seen.before = "none" THEN "expired" ELSE "deleted") /\ Ends(j)
    /\ UNCHANGED <<objects, used, late, exposed>>

failMediaCleanup(j) ==
  /\ jobs[j].pc \in {"read", "removed"} /\ jobs[j].op = "cleanup"
  /\ IF saveFence(jobs[j].asset, jobs[j].seen) THEN save(jobs[j].asset, jobs[j].seen, "cleanup_failed") ELSE UNCHANGED media
  /\ Ends(j) /\ UNCHANGED <<objects, used, late, exposed>>

\* A draft names a file that is ready; the item is saved later.
attach(j, a) ==
  /\ jobs[j].pc = "idle" /\ media[a].status = "ready" /\ a \notin used
  /\ Starts(j, a, "attach", "read")
  /\ UNCHANGED <<media, objects, used, late, exposed>>

saveDraft(j) ==
  /\ jobs[j].pc = "read" /\ jobs[j].op = "attach"
  /\ used' = used \cup {jobs[j].asset} /\ Ends(j)
  /\ UNCHANGED <<media, objects, late, exposed>>

\* An error or a crash ends a request wherever it is; a save that lost its version does too.
fails(j) ==
  /\ jobs[j].pc # "idle" /\ Ends(j)
  /\ UNCHANGED <<media, objects, used, late, exposed>>

-----------------------------------------------------------------------------
MediaNext ==
  \/ \E a \in Assets :
       \/ createUpload(a) \/ timePasses(a) \/ \E content \in Content : put(a, content)
       \/ \E j \in Jobs :
            \/ complete(j, a) \/ trash(j, a) \/ restore(j, a) \/ cleanupDue(j, a) \/ attach(j, a)
            \/ \E op \in {"generate", "materialize"} : createGeneratedMedia(j, a, op)
  \/ \E j \in Jobs :
       \/ readUpload(j) \/ finalize(j) \/ saveReady(j) \/ deleteUpload(j) \/ reject(j) \/ deleteRejected(j)
       \/ writeGenerated(j) \/ materializeShareCapture(j) \/ requestMediaTrash(j) \/ restoreMediaFromTrash(j)
       \/ deleteObject(j) \/ completeMediaCleanup(j) \/ failMediaCleanup(j) \/ saveDraft(j) \/ fails(j)
       \/ \E answer \in MediaMalwareScanResult : scanFinalized(j, answer)
       \/ \E answer \in MediaInspectionResult : inspectFinalized(j, answer)

MediaSpec == MediaInit /\ [][MediaNext]_mediaVars

-----------------------------------------------------------------------------
\* What is delivered was scanned and is what the request declared: an upload that is replaced while it is being
\* verified never becomes the file of a ready record.
ReadyIsDeclared == \A a \in Assets : media[a].status = "ready" => objects[a].final \in {"declared", "absent"}

\* A ready record has its object, whatever verifications, retries, Trash and cleanup overlap (unless a cleanup or a
\* refused capture removed it under a request that had read the record: exposed).
ReadyKeepsObject ==
  \A a \in Assets : media[a].status = "ready" /\ a \notin exposed => objects[a].final # "absent"

\* A file that was refused, that expired or that was deleted does not come back.
EndedStaysEnded ==
  \A a \in Assets : media[a].status \in {"rejected", "expired", "deleted"} => media'[a].status \notin {"pending", "ready"}

-----------------------------------------------------------------------------
(* The inductive invariant. *)

\* A record nobody made has no version; a trashed one knows what it was; a final object is the declared content.
RecordFits(m, final, ex) ==
  /\ m.status = "none" => m.version = 0
  /\ m.status = "trashed" => m.before # "none"
  /\ m.before # "trashed"
  /\ final \in {"declared", "absent"}
  /\ m.status = "ready" => final # "absent" \/ ex

\* A request holds an older record, or the stored one, in the status it began with; what it verifies is stored, unless exposed.
JobFits(q, m, final, ex) ==
  /\ q.seen.version <= m.version /\ (q.seen.version = m.version => q.seen = m)
  /\ q.pc \in {"found", "copied", "scanned", "verified"} => q.op \in {"complete", "generate", "materialize"}
  /\ q.op \in {"complete", "generate", "materialize"} => q.seen.status = "pending"
  /\ q.op = "restore" => q.seen.status = "trashed"
  /\ q.op = "trash" => q.seen.status \notin {"none", "trashed"}
  /\ q.pc = "removed" => q.op = "cleanup"
  /\ q.op = "cleanup" => q.seen.status \in {"pending", "trashed", "cleanup_failed"}
  /\ q.pc = "found" /\ q.op = "complete" => q.content = "declared"
  /\ q.pc \in {"copied", "scanned", "verified"} => final # "absent" \/ ex

MediaInv ==
  /\ MediaTypeOK
  /\ \A a \in Assets : RecordFits(media[a], objects[a].final, a \in exposed)
  /\ \A j \in Jobs : jobs[j].pc # "idle" =>
       JobFits(jobs[j], media[jobs[j].asset], objects[jobs[j].asset].final, jobs[j].asset \in exposed)
=============================================================================
