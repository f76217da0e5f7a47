----------------------------- MODULE BatchPlans -----------------------------
(***************************************************************************)
(* Batch operations: a plan of rows that a request prepares as content or  *)
(* approves and schedules, row by row with a checkpoint after each, while  *)
(* another request may take over a plan that has been quiet for too long   *)
(* and people edit the same content items.                                 *)
(***************************************************************************)
EXTENDS Naturals, FiniteSets

CONSTANTS Rows, Requests,
          MaxPlanVersion, MaxItemVersion   \* bounds of the exploration

VARIABLES plan, item,          \* the stored plan; the content item of each row
          request,
          approvedDrafts,      \* history: drafts whose approval was recorded, by row
          targets              \* history: schedules made, by row

batchVars == <<plan, item, request, approvedDrafts, targets>>

BatchRowStatus == {"invalid", "ready", "review_ready", "individual_review", "approved", "scheduled", "failed"}

BatchPlan ==
  [version : 1..MaxPlanVersion, status : {"ready", "processing", "review_ready", "partially_failed", "completed", "archived"},
   quiet : BOOLEAN, rows : [Rows -> BatchRowStatus], step : [Rows -> {"none", "prepare", "approval", "schedule"}],
   bulkApprovalEligible : SUBSET Rows,   \* rows whose risk allows approval in bulk
   draftId : SUBSET Rows]                \* rows that name the draft they were prepared as

\* What this module needs of a content item: its version, whether it exists, how often the row's draft is in it and was approved, and its targets.
Items == [version : 0..MaxItemVersion, drafts : 0..2, inReview : BOOLEAN, approved : BOOLEAN, targets : 0..2]

NoItem == [version |-> 0, drafts |-> 0, inReview |-> FALSE, approved |-> FALSE, targets |-> 0]

\* A request between two rows.
between(pc, mode, version, left) ==
  [pc |-> pc, mode |-> mode, version |-> version, left |-> left, row |-> CHOOSE r \in Rows : TRUE, copy |-> NoItem, result |-> "ready"]

Idle == between("idle", "commit", 1, {})

BatchRequest ==
  [pc : {"idle", "claim", "next", "create", "draft", "review", "approve", "schedule", "save", "finish"}, mode : {"commit", "approve"},
   version : 1..MaxPlanVersion, left : SUBSET Rows, row : Rows, copy : Items, result : BatchRowStatus]

BatchTypeOK ==
  /\ plan \in BatchPlan /\ item \in [Rows -> Items] /\ request \in [Requests -> BatchRequest]
  /\ approvedDrafts \in [Rows -> 0..2] /\ targets \in [Rows -> 0..2]

\* Rows are checked when the plan is made: each is ready or invalid, and a ready one may be approved in bulk or not.
BatchInit ==
  /\ plan \in [version : {1}, status : {"ready"}, quiet : {FALSE}, rows : [Rows -> {"ready", "invalid"}], step : {[r \in Rows |-> "none"]},
               bulkApprovalEligible : SUBSET Rows, draftId : {{}}]
  /\ \A r \in plan.bulkApprovalEligible : plan.rows[r] = "ready"
  /\ item = [r \in Rows |-> NoItem] /\ request = [q \in Requests |-> Idle]
  /\ approvedDrafts = [r \in Rows |-> 0] /\ targets = [r \in Rows |-> 0]

UnchangedItems == UNCHANGED <<item, approvedDrafts, targets>>

-----------------------------------------------------------------------------
(* The plan: every write names the version it replaces. *)

\* A person commits the plan, or approves rows of it; the plan they saw is the plan there is.
ask(q, mode, rows) ==
  /\ request[q].pc = "idle" /\ plan.status # "archived" /\ plan.status = "processing" => plan.quiet
  /\ request' = [request EXCEPT ![q] = between("claim", mode, plan.version, rows)]
  /\ UNCHANGED plan /\ UnchangedItems

\* Compare and set on the plan.
replace(version) == plan.version = version /\ version < MaxPlanVersion

claim(q) ==
  /\ request[q].pc = "claim"
  /\ IF replace(request[q].version)
       THEN /\ plan' = [plan EXCEPT !.version = plan.version + 1, !.status = "processing", !.quiet = FALSE]
            /\ request' = [request EXCEPT ![q] = [request[q] EXCEPT !.pc = "next", !.version = plan.version + 1]]
       ELSE UNCHANGED plan /\ request' = [request EXCEPT ![q] = Idle]
  /\ UnchangedItems

\* Rows that a run leaves alone: invalid ones, those done, those that failed in a later step.
Skipped(q, r) ==
  request[q].mode = "commit" /\ (plan.rows[r] \in {"invalid", "review_ready", "individual_review", "approved", "scheduled"}
                                 \/ (plan.rows[r] = "failed" /\ plan.step[r] # "prepare"))

\* A row is taken up: its item is read.
takes(q, r, pc, result) ==
  request' = [request EXCEPT ![q] = [pc |-> pc, mode |-> request[q].mode, version |-> request[q].version, left |-> request[q].left \ {r},
                                     row |-> r, copy |-> item[r], result |-> result]]

\* The next row: it is prepared, or approved unless it needs a person or was never prepared.
nextRow(q) ==
  /\ request[q].pc = "next"
  /\ \/ request[q].left = {} /\ request' = [request EXCEPT ![q] = [request[q] EXCEPT !.pc = "finish"]]
     \/ \E r \in request[q].left : Skipped(q, r) /\ request' = [request EXCEPT ![q] = [request[q] EXCEPT !.left = request[q].left \ {r}]]
     \/ \E r \in request[q].left :
          /\ ~Skipped(q, r)
          /\ IF request[q].mode = "commit" THEN takes(q, r, "create", "failed")
             ELSE IF r \notin plan.bulkApprovalEligible \/ plan.rows[r] = "individual_review" THEN takes(q, r, "save", "individual_review")
             ELSE IF r \notin plan.draftId THEN takes(q, r, "save", "failed")
             ELSE takes(q, r, "approve", "failed")
  /\ UNCHANGED plan /\ UnchangedItems

\* The request goes on without a write.
keeps(q, then, result) ==
  UNCHANGED item /\ request' = [request EXCEPT ![q] = [request[q] EXCEPT !.pc = then, !.result = result]]

\* Mutant: the item is written without its version.
editsAnyVersion(q, next, then, result) ==
  LET k == request[q] IN
    /\ item[k.row].version < MaxItemVersion
    /\ item' = [item EXCEPT ![k.row] = [next EXCEPT !.version = item[k.row].version + 1]]
    /\ request' = [request EXCEPT ![q] = [k EXCEPT !.pc = then, !.copy = item'[k.row], !.result = result]]

\* The version that was read: a conflict fails the row.
edits(q, next, then, result) ==
  LET k == request[q] IN
    IF item[k.row].version = k.copy.version /\ k.copy.version < MaxItemVersion
      THEN /\ item' = [item EXCEPT ![k.row] = [next EXCEPT !.version = k.copy.version + 1]]
           /\ request' = [request EXCEPT ![q] = [k EXCEPT !.pc = then, !.copy = item'[k.row], !.result = result]]
      ELSE keeps(q, "save", "failed")

\* The item of the row has an identity of its own; it is made when it is not there.
createItem(q) ==
  /\ request[q].pc = "create"
  /\ IF request[q].copy.version = 0 THEN edits(q, NoItem, "draft", "ready") ELSE keeps(q, "draft", "ready")
  /\ UNCHANGED <<plan, approvedDrafts, targets>>

\* The exact draft of the row, once.
addDraft(q) ==
  LET k == request[q] IN
    /\ k.pc = "draft"
    /\ IF k.copy.drafts = 0 THEN edits(q, [k.copy EXCEPT !.drafts = 1, !.approved = FALSE], "review", "ready") ELSE keeps(q, "review", "ready")
    /\ UNCHANGED <<plan, approvedDrafts, targets>>

\* To review, unless the item has come that far before.
toReview(q) ==
  LET k == request[q]
      done == IF k.row \in plan.bulkApprovalEligible THEN "review_ready" ELSE "individual_review" IN
    /\ k.pc = "review"
    /\ IF k.copy.inReview THEN keeps(q, "save", done) ELSE edits(q, [k.copy EXCEPT !.inReview = TRUE], "save", done)
    /\ UNCHANGED <<plan, approvedDrafts, targets>>

\* The approval of the prepared draft, unless it is on record.
approveRow(q) ==
  LET k == request[q] IN
    /\ k.pc = "approve"
    /\ IF k.copy.drafts = 0 THEN keeps(q, "save", "failed") /\ UNCHANGED approvedDrafts
       ELSE IF k.copy.approved THEN keeps(q, "schedule", "approved") /\ UNCHANGED approvedDrafts
       ELSE /\ edits(q, [k.copy EXCEPT !.approved = TRUE], "schedule", "approved")
            /\ approvedDrafts' = IF item' # item /\ approvedDrafts[k.row] < 2 THEN [approvedDrafts EXCEPT ![k.row] = @ + 1] ELSE approvedDrafts
    /\ UNCHANGED <<plan, targets>>

\* Mutant: the schedule is made without looking for the row's own target.
mayScheduleAgain(copy) == copy.targets < 2

\* The target of the row has an identity of its own.
maySchedule(copy) == copy.targets = 0

\* A row with an account and a time is scheduled, once.
scheduleRow(q) ==
  LET k == request[q] IN
    /\ k.pc = "schedule"
    /\ \/ keeps(q, "save", "approved") /\ UNCHANGED targets
       \/ ~maySchedule(k.copy) /\ keeps(q, "save", "scheduled") /\ UNCHANGED targets
       \/ /\ maySchedule(k.copy) /\ edits(q, [k.copy EXCEPT !.targets = k.copy.targets + 1], "save", "scheduled")
          /\ targets' = IF item' # item THEN [targets EXCEPT ![k.row] = @ + 1] ELSE targets
    /\ UNCHANGED <<plan, approvedDrafts>>

stepOfFailure(q) == IF request[q].result # "failed" THEN "none" ELSE IF request[q].mode = "commit" THEN "prepare" ELSE "approval"

\* The row's result is saved with the plan; a plan that changed ends the request.
checkpoint(q) ==
  LET k == request[q]
      prepared == IF k.mode = "commit" /\ k.result # "failed" THEN {k.row} ELSE {} IN
    /\ k.pc = "save"
    /\ IF replace(k.version)
         THEN /\ plan' = [plan EXCEPT !.version = plan.version + 1, !.rows = [plan.rows EXCEPT ![k.row] = k.result],
                                      !.step = [plan.step EXCEPT ![k.row] = stepOfFailure(q)], !.quiet = FALSE,
                                      !.draftId = plan.draftId \cup prepared]
              /\ request' = [request EXCEPT ![q] = between("next", k.mode, plan.version + 1, k.left)]
         ELSE UNCHANGED plan /\ request' = [request EXCEPT ![q] = Idle]
    /\ UnchangedItems

\* What the rows come to; rows that never could be prepared do not count.
summarizeBatchPlan(rows) ==
  LET actionable == {r \in Rows : rows[r] # "invalid"} IN
    IF actionable # {} /\ \A r \in actionable : rows[r] \in {"approved", "scheduled", "individual_review"} THEN "completed"
    ELSE IF \E r \in actionable : rows[r] = "failed" THEN "partially_failed"
    ELSE IF \E r \in actionable : rows[r] = "review_ready" THEN "review_ready" ELSE "ready"

finish(q) ==
  /\ request[q].pc = "finish" /\ request' = [request EXCEPT ![q] = Idle]
  /\ plan' = IF replace(request[q].version) THEN [plan EXCEPT !.version = plan.version + 1, !.status = summarizeBatchPlan(plan.rows), !.quiet = FALSE] ELSE plan
  /\ UnchangedItems

archive ==
  /\ plan.status \notin {"processing", "archived"} /\ plan.version < MaxPlanVersion
  /\ plan' = [plan EXCEPT !.status = "archived", !.version = plan.version + 1] /\ UNCHANGED request /\ UnchangedItems

\* Five minutes without a checkpoint; a request that stops; a person who edits the item.
goesQuiet == plan.status = "processing" /\ ~plan.quiet /\ plan' = [plan EXCEPT !.quiet = TRUE] /\ UNCHANGED request /\ UnchangedItems

requestStops(q) == request[q].pc # "idle" /\ request' = [request EXCEPT ![q] = Idle] /\ UNCHANGED plan /\ UnchangedItems

editItem(r) ==
  /\ item[r].version \in 1..(MaxItemVersion - 1) /\ item' = [item EXCEPT ![r] = [item[r] EXCEPT !.version = item[r].version + 1]]
  /\ UNCHANGED <<plan, request, approvedDrafts, targets>>

BatchNext ==
  \/ \E q \in Requests : ask(q, "commit", Rows) \/ \E rows \in (SUBSET Rows) \ {{}} : ask(q, "approve", rows)
  \/ \E q \in Requests : claim(q) \/ nextRow(q) \/ createItem(q) \/ addDraft(q) \/ toReview(q) \/ approveRow(q) \/ scheduleRow(q)
                         \/ checkpoint(q) \/ finish(q) \/ requestStops(q)
  \/ archive \/ goesQuiet \/ \E r \in Rows : editItem(r)

BatchSpec == BatchInit /\ [][BatchNext]_batchVars

-----------------------------------------------------------------------------
\* A row is scheduled at most once and never without an approval, whoever took the plan over and whatever was lost in between.
RowScheduledOnce == \A r \in Rows : targets[r] <= 1 /\ (targets[r] > 0 => approvedDrafts[r] > 0)

\* What the plan says of a row is so: a scheduled row has its target, an approved one its approval, a prepared one its draft in review.
PlanTellsTheTruth ==
  \A r \in Rows : /\ plan.rows[r] = "scheduled" => targets[r] = 1
                  /\ plan.rows[r] = "approved" => item[r].approved
                  /\ plan.rows[r] = "review_ready" => item[r].drafts = 1 /\ item[r].inReview

-----------------------------------------------------------------------------
(* The inductive invariant. *)

\* An item only gains: the version that was read has nothing that the item has lost, and is the item while the version is the same.
Older(a, b) ==
  /\ a.version <= b.version /\ a.drafts <= b.drafts /\ a.targets <= b.targets
  /\ (a.approved => b.approved) /\ (a.inReview => b.inReview) /\ (a.version = b.version => a = b)

\* What is on record of a row is in its item, which is prepared once, approved as prepared and scheduled once, as approved.
ItemsAreInOrder ==
  \A r \in Rows :
    /\ item[r].version = 0 => item[r] = NoItem
    /\ item[r].drafts <= 1 /\ item[r].targets <= 1 /\ targets[r] = item[r].targets
    /\ item[r].approved => item[r].drafts = 1 /\ approvedDrafts[r] > 0
    /\ item[r].targets = 1 => item[r].approved

CopiesAreOlder == \A q \in Requests : Older(request[q].copy, item[request[q].row])

\* What a row comes to is so when its request gets there.
HoldsOf(r, result) ==
  /\ result = "scheduled" => item[r].targets = 1
  /\ result = "approved" => item[r].approved
  /\ result = "review_ready" => item[r].drafts = 1 /\ item[r].inReview

ResultsAreTrue ==
  \A q \in Requests :
    /\ request[q].pc = "review" => item[request[q].row].drafts = 1
    /\ request[q].pc = "schedule" => item[request[q].row].approved
    /\ request[q].pc = "save" => HoldsOf(request[q].row, request[q].result)

PlanResultsAreTrue == \A r \in Rows : HoldsOf(r, plan.rows[r])

BatchInv == BatchTypeOK /\ ItemsAreInOrder /\ CopiesAreOlder /\ ResultsAreTrue /\ PlanResultsAreTrue
=============================================================================
