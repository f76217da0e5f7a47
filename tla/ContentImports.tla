--------------------------- MODULE ContentImports ---------------------------
(***************************************************************************)
(* The public API of the automation gateway: a previewed import that is    *)
(* committed row by row under a claim that grows stale, and content that   *)
(* is created under an idempotency key.                                    *)
(***************************************************************************)
EXTENDS Naturals, FiniteSets

CONSTANTS Rows, InvalidRows, Callers, Bodies, Nothing

VARIABLES session, result,     \* the import session, the row results it was committed with
          items,               \* rows that have a content item
          caller,              \* commits in progress: rows left, results so far
          created, asked       \* idempotent create: the body on record, and callers between look-up and write

importVars == <<session, result, items, caller, created, asked>>

AutomationImportRowStatus == {"valid", "invalid", "created", "existing", "failed"}

ImportTypeOK ==
  /\ session \in [status : {"none", "staged", "processing", "committed", "failed"}, stale : BOOLEAN]
  /\ result \in [Rows -> AutomationImportRowStatus] /\ items \subseteq Rows
  /\ caller \in [Callers -> {Nothing} \cup [rows : [Rows -> AutomationImportRowStatus], left : SUBSET Rows, at : Rows \cup {Nothing}]]
  /\ created \in Bodies \cup {Nothing} /\ asked \in [Callers -> Bodies \cup {Nothing}]

\* A row is valid or carries its errors; a repeated reference is an error.
normalizeContentImportRow(r) == IF r \in InvalidRows THEN "invalid" ELSE "valid"

ImportInit ==
  /\ session = [status |-> "none", stale |-> FALSE] /\ result = [r \in Rows |-> "valid"] /\ items = {}
  /\ caller = [c \in Callers |-> Nothing] /\ created = Nothing /\ asked = [c \in Callers |-> Nothing]

\* The same source is the same session.
previewImport ==
  /\ session.status = "none" /\ session' = [session EXCEPT !.status = "staged"]
  /\ result' = [r \in Rows |-> normalizeContentImportRow(r)] /\ UNCHANGED <<items, caller, created, asked>>

\* Mutant: a session that failed may be committed again, and so may one that is committed.
claimableAgain == session.status # "none"

\* Staged, or taken long ago by a commit that did not end.
claimImportSession == session.status = "staged" \/ (session.status = "processing" /\ session.stale)

commitImport(c) ==
  /\ caller[c] = Nothing /\ claimImportSession
  /\ session' = [status |-> "processing", stale |-> FALSE] /\ caller' = [caller EXCEPT ![c] = [rows |-> result, left |-> Rows, at |-> Nothing]]
  /\ UNCHANGED <<result, items, created, asked>>

Answer(c, r, status) == caller' = [caller EXCEPT ![c].rows[r] = status, ![c].left = @ \ {r}, ![c].at = Nothing]

\* The row's item is looked up first.
lookUpRow(c) ==
  /\ caller[c] # Nothing /\ caller[c].at = Nothing
  /\ \E r \in caller[c].left :
       \/ result[r] = "invalid" /\ Answer(c, r, "invalid")
       \/ result[r] # "invalid" /\ r \in items /\ Answer(c, r, "existing")
       \/ result[r] # "invalid" /\ r \notin items /\ caller' = [caller EXCEPT ![c].at = r]
  /\ UNCHANGED <<session, result, items, created, asked>>

\* Then it is made; an item that another commit has made since, or any other error, fails the row.
createRow(c) ==
  /\ caller[c] # Nothing /\ caller[c].at # Nothing
  /\ \/ caller[c].at \notin items /\ items' = items \cup {caller[c].at} /\ Answer(c, caller[c].at, "created")
     \/ UNCHANGED items /\ Answer(c, caller[c].at, "failed")
  /\ UNCHANGED <<session, result, created, asked>>

\* The results are saved by whoever comes first while the session is processing; the later one reports a failure that finds nothing to mark.
completeImportSession(c) ==
  /\ caller[c] # Nothing /\ caller[c].left = {} /\ caller[c].at = Nothing /\ caller' = [caller EXCEPT ![c] = Nothing]
  /\ IF session.status = "processing" THEN session' = [session EXCEPT !.status = "committed"] /\ result' = caller[c].rows
                                      ELSE UNCHANGED <<session, result>>
  /\ UNCHANGED <<items, created, asked>>

\* An error outside a row's own handling.
failImportSession(c) ==
  /\ caller[c] # Nothing /\ caller' = [caller EXCEPT ![c] = Nothing]
  /\ session' = IF session.status = "processing" THEN [session EXCEPT !.status = "failed"] ELSE session
  /\ UNCHANGED <<result, items, created, asked>>

importGrowsStale == session.status = "processing" /\ ~session.stale /\ session' = [session EXCEPT !.stale = TRUE] /\ UNCHANGED <<result, items, caller, created, asked>>

callerStops(c) == caller[c] # Nothing /\ caller' = [caller EXCEPT ![c] = Nothing] /\ UNCHANGED <<session, result, items, created, asked>>

-----------------------------------------------------------------------------
\* An idempotency key that is on record answers with its item, or refuses another body.
publicCreate(c, b) ==
  /\ asked[c] = Nothing /\ created = Nothing /\ asked' = [asked EXCEPT ![c] = b] /\ UNCHANGED <<session, result, items, caller, created>>

\* The item's identity is made from the key: the second of two writers is refused by the store.
writePublicCreate(c) ==
  /\ asked[c] # Nothing /\ created' = (IF created = Nothing THEN asked[c] ELSE created) /\ asked' = [asked EXCEPT ![c] = Nothing]
  /\ UNCHANGED <<session, result, items, caller>>

ImportNext ==
  \/ previewImport \/ importGrowsStale
  \/ \E c \in Callers : commitImport(c) \/ lookUpRow(c) \/ createRow(c) \/ completeImportSession(c) \/ failImportSession(c) \/ callerStops(c)
                        \/ writePublicCreate(c) \/ \E b \in Bodies : publicCreate(c, b)

ImportSpec == ImportInit /\ [][ImportNext]_importVars

-----------------------------------------------------------------------------
\* A committed session is final: no second commit, whoever read it before, changes its results.
CommittedIsFinal ==
  session.status = "committed" => session'.status = "committed" /\ result' = result

\* Every row that is reported as created or existing has its item, and an invalid row never has one, whichever commit
\* stopped half way or was repeated.
ReportedRowsExist ==
  \A r \in Rows : (result[r] \in {"created", "existing"} => r \in items) /\ (r \in items => r \notin InvalidRows)

-----------------------------------------------------------------------------
(* The inductive invariant. *)

\* What a commit has noted so far is true of the items, and an invalid row has only its errors noted.
NotedRowsExist(noted) == \A r \in Rows : /\ noted[r] \in {"created", "existing"} => r \in items
                                         /\ r \in InvalidRows => noted[r] = "invalid"

CommitsAreTrue ==
  \A c \in Callers : caller[c] # Nothing => /\ session.status # "none" /\ NotedRowsExist(caller[c].rows)
                                            /\ caller[c].at \notin InvalidRows

PreviewIsKept == session.status # "none" => NotedRowsExist(result)

ImportInv == ImportTypeOK /\ ReportedRowsExist /\ CommitsAreTrue /\ PreviewIsKept
=============================================================================
