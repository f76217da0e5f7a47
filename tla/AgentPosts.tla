----------------------------- MODULE AgentPosts -----------------------------
(***************************************************************************)
(* News posts made by agents.  A timer advances each run one stage at a    *)
(* time: research, copy, review of the copy, image, composition, review of *)
(* the image, draft.  A stage that was interrupted is never repeated,      *)
(* because it may have paid for a model.  A person then approves the draft *)
(* and publishes exactly what the preview showed.                          *)
(***************************************************************************)
EXTENDS Naturals, FiniteSets

CONSTANTS Posts,            \* agent_post_runs
          Requests,         \* the runs that start from a request; the others are corrections
          Tickers,          \* API processes whose timer advances runs
          NoTicker,
          MaxEvidence       \* bound: versions of one item's claims and sources

VARIABLES posts,            \* the stored runs
          items,            \* the content item of a run: claims, drafts, approvals, targets
          generations,      \* image_generations, by the run that asked
          projects,         \* Creative Studio projects, by the run that asked
          tickers,          \* stages under way
          previews,         \* the item version a person's publishing preview was made of
          calls,            \* history: model calls of each stage
          drafted,          \* history: the evidence of the item when the draft was added
          scheduled         \* history: the evidence of the item when the post was scheduled

agentPostVars == <<posts, items, generations, projects, tickers, previews, calls, drafted, scheduled>>

agentPostStages ==
  {"queued", "researching", "writing", "reviewing-copy", "generating", "awaiting-image", "composing",
   "reviewing-image", "drafting", "ready", "blocked", "failed", "uncertain"}

postRunTerminal(status) == status \in {"ready", "blocked", "failed", "uncertain"}

Review == {"none", "passed", "needs-changes"}

\* evidence: the hash of claims and sources the run was written from, 0 before.
AgentPostRun ==
  [status : agentPostStages \cup {"none"}, inFlight : Tickers \cup {NoTicker}, imageMode : {"server", "codex-upload"},
   item : Posts, evidence : 0..MaxEvidence, copy : BOOLEAN, copyReview : Review, upload : BOOLEAN,
   generation : BOOLEAN, project : BOOLEAN, output : BOOLEAN, imageReview : Review, draft : BOOLEAN]

\* The parts of the content item a run depends on; the version counts every change of the item.
PostItem == [version : Nat, evidence : 0..MaxEvidence, research : {"none", "running", "completed", "failed"},
             drafts : [Posts -> Nat], approved : SUBSET Posts, targets : SUBSET Posts]

imageGenerationStatuses == {"generating", "ready", "failed", "uncertain"}

\* called: a worker is inside the provider's call; lease: five minutes from the request.
ImageGenerationRecord == [status : imageGenerationStatuses \cup {"none"}, job : {"none", "queued", "called"}, leased : BOOLEAN]

Stages == {"writing", "reviewing-copy", "reviewing-image"}

\* A delivery of the job: what it works on, and the run it has read.
Ticker == [pc : {"idle", "step", "done"}, post : Posts, run : AgentPostRun]

PostTypeOK ==
  /\ posts \in [Posts -> AgentPostRun] /\ items \in [Posts -> PostItem]
  /\ generations \in [Posts -> ImageGenerationRecord]
  /\ projects \in [Posts -> {"none", "rendering", "ready", "failed"}]
  /\ tickers \in [Tickers -> Ticker]
  /\ previews \in [Posts -> Nat] /\ calls \in [Posts -> [Stages -> Nat]]
  /\ drafted \in [Posts -> 0..MaxEvidence] /\ scheduled \in [Posts -> 0..MaxEvidence]

NoRunYet(r) == [status |-> "none", inFlight |-> NoTicker, imageMode |-> "server", item |-> r, evidence |-> 0,
                copy |-> FALSE, copyReview |-> "none", upload |-> FALSE, generation |-> FALSE, project |-> FALSE,
                output |-> FALSE, imageReview |-> "none", draft |-> FALSE]

SomePost == CHOOSE r \in Posts : TRUE

IdleTicker == [pc |-> "idle", post |-> SomePost, run |-> NoRunYet(SomePost)]

AgentPostInit ==
  /\ posts = [r \in Posts |-> NoRunYet(r)]
  /\ items = [r \in Posts |-> [version |-> 0, evidence |-> 0, research |-> "none", drafts |-> [d \in Posts |-> 0],
                               approved |-> {}, targets |-> {}]]
  /\ generations = [r \in Posts |-> [status |-> "none", job |-> "none", leased |-> FALSE]]
  /\ projects = [r \in Posts |-> "none"]
  /\ tickers = [w \in Tickers |-> IdleTicker]
  /\ previews = [r \in Posts |-> 0]
  /\ calls = [r \in Posts |-> [s \in Stages |-> 0]]
  /\ drafted = [r \in Posts |-> 0] /\ scheduled = [r \in Posts |-> 0]

itemOf(r) == items[posts[r].item]

\* The run still belongs to the sources it was written from.
evidenceUnchanged(run) == run.evidence = items[run.item].evidence

hasLiveAgentResearch(run) == items[run.item].research = "completed"

-----------------------------------------------------------------------------
(* What people do to a run.                                                *)

start(r, mode) ==
  /\ r \in Requests /\ posts[r].status = "none"
  /\ posts' = [posts EXCEPT ![r].status = "queued", ![r].imageMode = mode]
  /\ UNCHANGED <<items, generations, projects, tickers, previews, calls, drafted, scheduled>>

\* A new candidate with the editor's text, on the evidence of a run that a review stopped.
correctCopy(r, parent) ==
  LET old == posts[parent] IN
    /\ posts[r].status = "none" /\ r \notin Requests
    /\ old.status = "blocked" /\ old.copy /\ ~old.draft
    /\ "needs-changes" \in {old.copyReview, old.imageReview}
    /\ evidenceUnchanged(old) /\ hasLiveAgentResearch(old)
    /\ posts' = [posts EXCEPT ![r] =
         [@ EXCEPT !.status = "reviewing-copy", !.imageMode = old.imageMode, !.item = old.item,
                   !.evidence = old.evidence, !.copy = TRUE]]
    /\ UNCHANGED <<items, generations, projects, tickers, previews, calls, drafted, scheduled>>

exportImageBrief(run) == run.imageMode = "codex-upload" /\ evidenceUnchanged(run)

importImage(r) ==
  /\ posts[r].status = "awaiting-image" /\ posts[r].inFlight = NoTicker
  /\ exportImageBrief(posts[r])
  /\ posts' = [posts EXCEPT ![r].status = "generating", ![r].upload = TRUE]
  /\ UNCHANGED <<items, generations, projects, tickers, previews, calls, drafted, scheduled>>

\* Only the hand-over to the composition may be resumed, never a model call or a draft.
recoveryRun(run) ==
  /\ run.status = "uncertain" /\ run.imageMode = "codex-upload" /\ run.upload /\ run.inFlight = NoTicker
  /\ ~run.output /\ ~run.draft /\ run.imageReview = "none" /\ ~run.generation /\ run.copyReview = "passed"
  /\ exportImageBrief(run) /\ hasLiveAgentResearch(run)

recoverComposition(r) ==
  /\ recoveryRun(posts[r])
  /\ projects[r] = "ready"
  /\ posts' = [posts EXCEPT ![r].status = "composing", ![r].project = TRUE]
  /\ UNCHANGED <<items, generations, projects, tickers, previews, calls, drafted, scheduled>>

-----------------------------------------------------------------------------
(* The timer: claim a run, do one stage, store the result.                 *)

\* The compare and set of the version makes the claim; a stale snapshot changes nothing.
pending(run) == run.status # "none" /\ ~postRunTerminal(run.status) /\ run.status # "awaiting-image"

Claim(w, r) ==
  /\ tickers[w].pc = "idle" /\ pending(posts[r]) /\ posts[r].inFlight = NoTicker
  /\ posts' = [posts EXCEPT ![r].inFlight = w]
  /\ tickers' = [tickers EXCEPT ![w] = [pc |-> "step", post |-> r, run |-> posts[r]]]
  /\ UNCHANGED <<items, generations, projects, previews, calls, drafted, scheduled>>

\* Mutant: an expired run is taken up again where it stood.
expireAndRetry(r) ==
  /\ pending(posts[r]) /\ posts[r].inFlight # NoTicker
  /\ posts' = [posts EXCEPT ![r].inFlight = NoTicker]
  /\ UNCHANGED <<items, generations, projects, tickers, previews, calls, drafted, scheduled>>

\* Mutant: adding the draft calls no model, so an expired run adds it again.
expireUnlessDrafting(r) ==
  /\ pending(posts[r]) /\ posts[r].inFlight # NoTicker
  /\ posts' = [posts EXCEPT ![r].status = IF @ = "drafting" THEN @ ELSE "uncertain", ![r].inFlight = NoTicker]
  /\ UNCHANGED <<items, generations, projects, tickers, previews, calls, drafted, scheduled>>

\* Ten minutes in flight: somebody stopped in the middle, or is still working.
expire(r) ==
  /\ pending(posts[r]) /\ posts[r].inFlight # NoTicker
  /\ posts' = [posts EXCEPT ![r].status = "uncertain", ![r].inFlight = NoTicker]
  /\ UNCHANGED <<items, generations, projects, tickers, previews, calls, drafted, scheduled>>

At(w, stage) == tickers[w].pc = "step" /\ tickers[w].run.status = stage

Done(w, run) == tickers' = [tickers EXCEPT ![w].pc = "done", ![w].run = run]

\* A rule of the domain stops the run: access lost, an hour passed, evidence changed, a review failed.
Refused(w, run) == Done(w, [run EXCEPT !.status = "blocked"])

Refuse(w) ==
  /\ tickers[w].pc = "step"
  /\ Refused(w, tickers[w].run)
  /\ UNCHANGED <<posts, items, generations, projects, previews, calls, drafted, scheduled>>

\* The item is created, the sources are added and research starts.
stepQueued(w) ==
  LET run == tickers[w].run IN
    /\ At(w, "queued")
    /\ items[run.item].version = 0
    /\ items' = [items EXCEPT ![run.item].version = @ + 2, ![run.item].evidence = 1,
                              ![run.item].research = "running"]
    /\ Done(w, [run EXCEPT !.status = "researching"])
    /\ UNCHANGED <<posts, generations, projects, previews, calls, drafted, scheduled>>

stepResearching(w) ==
  LET run == tickers[w].run IN
    /\ At(w, "researching")
    /\ CASE items[run.item].research = "failed" -> Refused(w, run)
         [] items[run.item].research = "completed" ->
              Done(w, [run EXCEPT !.status = "writing", !.evidence = items[run.item].evidence])
         [] OTHER -> Done(w, run)
    /\ UNCHANGED <<posts, items, generations, projects, previews, calls, drafted, scheduled>>

stepWriting(w) ==
  LET run == tickers[w].run IN
    /\ At(w, "writing") /\ evidenceUnchanged(run)
    /\ calls' = [calls EXCEPT ![tickers[w].post]["writing"] = @ + 1]
    /\ Done(w, [run EXCEPT !.copy = TRUE, !.status = "reviewing-copy"])
    /\ UNCHANGED <<posts, items, generations, projects, previews, drafted, scheduled>>

stepReviewingCopy(w) ==
  LET run == tickers[w].run IN
    /\ At(w, "reviewing-copy") /\ evidenceUnchanged(run)
    /\ calls' = [calls EXCEPT ![tickers[w].post]["reviewing-copy"] = @ + 1]
    /\ \/ Refused(w, [run EXCEPT !.copyReview = "needs-changes"])
       \/ Done(w, [run EXCEPT !.copyReview = "passed",
                   !.status = IF run.imageMode = "codex-upload" THEN "awaiting-image" ELSE "generating"])
    /\ UNCHANGED <<posts, items, generations, projects, previews, drafted, scheduled>>

\* compose: a project is created and its render is queued.
compose(w) ==
  /\ projects' = [projects EXCEPT ![tickers[w].post] = "rendering"]
  /\ Done(w, [tickers[w].run EXCEPT !.project = TRUE, !.status = "composing"])

stepGeneratingUpload(w) ==
  LET run == tickers[w].run IN
    /\ At(w, "generating") /\ evidenceUnchanged(run) /\ run.imageMode = "codex-upload" /\ run.upload
    /\ compose(w)
    /\ UNCHANGED <<posts, items, generations, previews, calls, drafted, scheduled>>

createImageGeneration == [status |-> "generating", job |-> "queued", leased |-> TRUE]

\* The request carries the run's id as its key, so a second one finds the first.
createGeneration(w) ==
  LET r == tickers[w].post IN
    /\ At(w, "generating") /\ evidenceUnchanged(tickers[w].run)
    /\ tickers[w].run.imageMode = "server" /\ ~tickers[w].run.generation
    /\ generations' = IF generations[r].status # "none" THEN generations
                      ELSE [generations EXCEPT ![r] = createImageGeneration]
    /\ Done(w, [tickers[w].run EXCEPT !.generation = TRUE])
    /\ UNCHANGED <<posts, items, projects, previews, calls, drafted, scheduled>>

stepGenerating(w) ==
  LET run == tickers[w].run
      status == generations[tickers[w].post].status IN
    /\ At(w, "generating") /\ evidenceUnchanged(run) /\ run.imageMode = "server" /\ run.generation
    /\ \/ status = "ready" /\ compose(w)
       \/ status = "generating" /\ Done(w, run) /\ UNCHANGED projects
       \/ status \in {"failed", "uncertain"} /\ Done(w, [run EXCEPT !.status = status]) /\ UNCHANGED projects
    /\ UNCHANGED <<posts, items, generations, previews, calls, drafted, scheduled>>

stepComposing(w) ==
  LET run == tickers[w].run
      status == projects[tickers[w].post] IN
    /\ At(w, "composing") /\ evidenceUnchanged(run)
    /\ Done(w, CASE status = "ready"  -> [run EXCEPT !.output = TRUE, !.status = "reviewing-image"]
                 [] status = "failed" -> [run EXCEPT !.status = "failed"]
                 [] OTHER -> run)
    /\ UNCHANGED <<posts, items, generations, projects, previews, calls, drafted, scheduled>>

\* The texts read from the image must be the texts of the run.
stepReviewingImage(w) ==
  LET run == tickers[w].run IN
    /\ At(w, "reviewing-image") /\ evidenceUnchanged(run)
    /\ calls' = [calls EXCEPT ![tickers[w].post]["reviewing-image"] = @ + 1]
    /\ \/ Refused(w, [run EXCEPT !.imageReview = "needs-changes"])
       \/ Done(w, [run EXCEPT !.imageReview = "passed", !.status = "drafting"])
    /\ UNCHANGED <<posts, items, generations, projects, previews, drafted, scheduled>>

\* Mutant: the evidence is not compared before the draft is added.
draftAnyEvidence(w) ==
  LET run == tickers[w].run
      r == tickers[w].post IN
    /\ At(w, "drafting")
    /\ items' = [items EXCEPT ![run.item].version = @ + 1, ![run.item].drafts[r] = @ + 1]
    /\ drafted' = [drafted EXCEPT ![r] = items[run.item].evidence]
    /\ Done(w, [run EXCEPT !.draft = TRUE, !.status = "ready"])
    /\ UNCHANGED <<posts, generations, projects, previews, calls, scheduled>>

\* The draft is added to the item version the evidence was compared with.
stepDrafting(w) ==
  LET run == tickers[w].run
      r == tickers[w].post IN
    /\ At(w, "drafting") /\ evidenceUnchanged(run)
    /\ items' = [items EXCEPT ![run.item].version = @ + 1, ![run.item].drafts[r] = @ + 1]
    /\ drafted' = [drafted EXCEPT ![r] = items[run.item].evidence]
    /\ Done(w, [run EXCEPT !.draft = TRUE, !.status = "ready"])
    /\ UNCHANGED <<posts, generations, projects, previews, calls, scheduled>>

\* The stage had its effect and its answer did not arrive.
LoseAnswer(w) ==
  /\ tickers[w].pc = "done"
  /\ posts[tickers[w].post].inFlight = w
  /\ tickers' = [tickers EXCEPT ![w].run = [posts[tickers[w].post] EXCEPT !.status = "uncertain", !.inFlight = NoTicker]]
  /\ UNCHANGED <<posts, items, generations, projects, previews, calls, drafted, scheduled>>

\* The second compare and set: it fails when the run was given up meanwhile.
advance(w) ==
  LET r == tickers[w].post IN
    /\ tickers[w].pc = "done"
    /\ posts' = IF posts[r].inFlight = w THEN [posts EXCEPT ![r] = [tickers[w].run EXCEPT !.inFlight = NoTicker]] ELSE posts
    /\ tickers' = [tickers EXCEPT ![w] = IdleTicker]
    /\ UNCHANGED <<items, generations, projects, previews, calls, drafted, scheduled>>

StopTicker(w) ==
  /\ tickers[w].pc # "idle"
  /\ tickers' = [tickers EXCEPT ![w] = IdleTicker]
  /\ UNCHANGED <<posts, items, generations, projects, previews, calls, drafted, scheduled>>

Step(w) ==
  \/ Refuse(w) \/ stepQueued(w) \/ stepResearching(w) \/ stepWriting(w) \/ stepReviewingCopy(w)
  \/ stepGeneratingUpload(w) \/ createGeneration(w) \/ stepGenerating(w) \/ stepComposing(w)
  \/ stepReviewingImage(w) \/ stepDrafting(w) \/ LoseAnswer(w) \/ advance(w) \/ StopTicker(w)

-----------------------------------------------------------------------------
(* Image generation, composition and research run on their own.            *)

\* The worker goes on only with the record and the lease owner the job names.
process(r) ==
  /\ generations[r].job = "queued" /\ generations[r].status = "generating"
  /\ generations' = [generations EXCEPT ![r].job = "called"]
  /\ UNCHANGED <<posts, items, projects, tickers, previews, calls, drafted, scheduled>>

\* How the provider's answer is read: a timeout or an unavailable provider leaves the result open.
generate == {"ready", "failed", "uncertain"}

\* complete and fail change only a record that is still generating.
completeGeneration(record, status) ==
  [record EXCEPT !.job = "none", !.leased = FALSE, !.status = IF @ = "generating" THEN status ELSE @]

finishGeneration(r, status) ==
  /\ generations[r].job = "called"
  /\ generations' = [generations EXCEPT ![r] = completeGeneration(@, status)]
  /\ UNCHANGED <<posts, items, projects, tickers, previews, calls, drafted, scheduled>>

\* The process stops inside the call: the queue hands a stalled job out again, or gives it up.
stallGeneration(r) ==
  /\ generations[r].job = "called"
  /\ \E job \in {"queued", "none"} : generations' = [generations EXCEPT ![r].job = job]
  /\ UNCHANGED <<posts, items, projects, tickers, previews, calls, drafted, scheduled>>

markExpiredUncertain(r) ==
  /\ generations[r].status = "generating" /\ generations[r].leased
  /\ generations' = [generations EXCEPT ![r].status = "uncertain", ![r].leased = FALSE]
  /\ UNCHANGED <<posts, items, projects, tickers, previews, calls, drafted, scheduled>>

render(r, status) ==
  /\ projects[r] = "rendering"
  /\ projects' = [projects EXCEPT ![r] = status]
  /\ UNCHANGED <<posts, items, generations, tickers, previews, calls, drafted, scheduled>>

completeResearch(i, status) ==
  /\ items[i].research = "running" /\ items[i].evidence < MaxEvidence
  /\ items' = [items EXCEPT ![i].research = status, ![i].version = @ + 1, ![i].evidence = @ + 1]
  /\ UNCHANGED <<posts, generations, projects, tickers, previews, calls, drafted, scheduled>>

\* An editor changes the claims or the sources.
editEvidence(i) ==
  /\ items[i].version > 0 /\ items[i].evidence < MaxEvidence
  /\ items' = [items EXCEPT ![i].version = @ + 1, ![i].evidence = @ + 1]
  /\ UNCHANGED <<posts, generations, projects, tickers, previews, calls, drafted, scheduled>>

-----------------------------------------------------------------------------
(* Approval and publishing from the chat.                                  *)

approveDraft(r) ==
  /\ posts[r].status = "ready" /\ r \notin itemOf(r).approved
  /\ items' = [items EXCEPT ![posts[r].item].approved = @ \cup {r}, ![posts[r].item].version = @ + 1]
  /\ UNCHANGED <<posts, generations, projects, tickers, previews, calls, drafted, scheduled>>

\* The saved run and the draft still match.
context(r) == posts[r].status = "ready" /\ posts[r].draft

previewAllowed(r) ==
  /\ context(r) /\ evidenceUnchanged(posts[r])
  /\ posts[r].copyReview = "passed" /\ posts[r].imageReview = "passed"
  /\ r \in itemOf(r).approved /\ r \notin itemOf(r).targets

preview(r) ==
  /\ previewAllowed(r)
  /\ previews' = [previews EXCEPT ![r] = itemOf(r).version]
  /\ UNCHANGED <<posts, items, generations, projects, tickers, calls, drafted, scheduled>>

\* The preview is computed again, must be the one that was shown, and the item is scheduled in that version.
publish(r) ==
  /\ previewAllowed(r) /\ previews[r] = itemOf(r).version
  /\ items' = [items EXCEPT ![posts[r].item].targets = @ \cup {r}, ![posts[r].item].version = @ + 1]
  /\ scheduled' = [scheduled EXCEPT ![r] = itemOf(r).evidence]
  /\ UNCHANGED <<posts, generations, projects, tickers, previews, calls, drafted>>

AgentPostNext ==
  \/ \E r \in Posts :
       \/ \E mode \in {"server", "codex-upload"} : start(r, mode)
       \/ \E parent \in Posts : correctCopy(r, parent)
       \/ importImage(r) \/ recoverComposition(r) \/ expire(r)
       \/ \E w \in Tickers : Claim(w, r)
       \/ process(r) \/ markExpiredUncertain(r) \/ editEvidence(r)
       \/ \E status \in generate : finishGeneration(r, status)
       \/ stallGeneration(r)
       \/ \E status \in {"ready", "failed"} : render(r, status)
       \/ \E status \in {"completed", "failed"} : completeResearch(r, status)
       \/ approveDraft(r) \/ preview(r) \/ publish(r)
  \/ \E w \in Tickers : Step(w)

AgentPostSpec == AgentPostInit /\ [][AgentPostNext]_agentPostVars

-----------------------------------------------------------------------------
(* Properties.                                                             *)

\* "Do not retry it": a stage that calls a paid model calls it once per run, although the process may
\* stop in it, its answer may be lost and the run may be given up while it is still working.
PaidOnce == \A r \in Posts : \A s \in Stages : calls[r][s] <= 1

\* A run adds at most one draft to its item, also when its composition is resumed by a person.
OneDraftPerPost == \A r \in Posts : itemOf(r).drafts[r] <= 1

\* The draft of a run and its schedule belong to the evidence both reviews passed, however the sources
\* are edited while the stages run.
PublishedAsReviewed ==
  \A r \in Posts :
    /\ itemOf(r).drafts[r] > 0 =>
         drafted[r] = posts[r].evidence /\ posts[r].copyReview = "passed" /\ posts[r].imageReview = "passed"
    /\ r \in itemOf(r).targets => scheduled[r] = posts[r].evidence

-----------------------------------------------------------------------------
(* The inductive invariant. *)

Early == {"none", "queued", "researching"}

\* What happens once: the calls of the paid stages, and the draft.
Once == Stages \cup {"drafting"}

\* The run has not come to the stage.
Before(run, s) ==
  CASE s = "writing" -> run.status \in Early
    [] s = "reviewing-copy" -> run.status \in Early \cup {"writing"}
    [] s = "reviewing-image" -> ~ run.output
    [] s = "drafting" -> run.imageReview # "passed"

\* The stage of a run and the results of its earlier stages.
RunFits(run) ==
  /\ run.inFlight # NoTicker => pending(run)
  /\ run.status \in Early \cup {"writing", "reviewing-copy", "generating", "awaiting-image", "composing"} => ~ run.output
  /\ run.output \/ run.status \in {"generating", "awaiting-image", "composing"} => run.copyReview = "passed"
  /\ run.status \notin {"drafting"} \cup {s \in agentPostStages : postRunTerminal(s)} => run.imageReview = "none"
  /\ run.status = "reviewing-image" \/ run.imageReview = "passed" => run.output
  /\ run.status = "drafting" => run.imageReview = "passed"

\* What a stage makes of a run keeps what the run has, and comes to a stage only once.
Continues(run, new) ==
  /\ new.item = run.item /\ new.status # "none" /\ RunFits(new)
  /\ run.status \notin Early => new.status \notin Early /\ new.evidence = run.evidence
  /\ run.output => new.output
  /\ run.copyReview = "passed" /\ run.output => new.copyReview = "passed"
  /\ run.imageReview = "passed" => new.imageReview = "passed"
  /\ \A s \in Once : /\ new.status = s => Before(run, s)
                     /\ Before(new, s) => Before(run, s)

Unspent(r, s) == IF s = "drafting" THEN \A i \in Posts : items[i].drafts[r] = 0 ELSE calls[r][s] = 0

\* A stage that nobody is in, and nobody was in.
Fresh(r, s) == Unspent(r, s) /\ \A w \in Tickers : At(w, s) => tickers[w].post # r

\* The drafts of a run are in its item, and say what the run says.
DraftsFit(r) ==
  \A i \in Posts :
    /\ items[i].drafts[r] <= 1
    /\ items[i].drafts[r] > 0 => /\ i = posts[r].item /\ posts[r].status # "none" /\ drafted[r] = posts[r].evidence
                                 /\ posts[r].copyReview = "passed" /\ posts[r].imageReview = "passed"
    /\ r \in items[i].targets => i = posts[r].item /\ posts[r].status = "ready" /\ scheduled[r] = posts[r].evidence

PostFits(r) ==
  /\ RunFits(posts[r])
  /\ \A s \in Once : Before(posts[r], s) \/ (posts[r].status = s /\ posts[r].inFlight = NoTicker) => Fresh(r, s)
  /\ \A s \in Stages : calls[r][s] <= 1
  /\ DraftsFit(r)

\* A claimed run, also when it was given up meanwhile.
ClaimFits(run, r) ==
  /\ run.item = posts[r].item /\ RunFits(run) /\ run.status # "none" /\ run.inFlight = NoTicker
  /\ run.status \notin Early => posts[r].status \notin Early /\ run.evidence = posts[r].evidence
  /\ run.imageReview = "passed" => posts[r].imageReview = "passed" /\ posts[r].copyReview = "passed"

\* Nobody else is in the stage, and nobody was.
Alone(w, s) ==
  At(w, s) => /\ Unspent(tickers[w].post, s)
              /\ \A v \in Tickers : At(v, s) /\ tickers[v].post = tickers[w].post => v = w

\* A stage goes on with the run it claimed; its result is stored only when the run was not given up.
TickerFits(w) ==
  tickers[w].pc # "idle" =>
    /\ posts[tickers[w].post].status # "none"
    /\ tickers[w].pc = "step" =>
         /\ ClaimFits(tickers[w].run, tickers[w].post)
         /\ \A s \in Once : Alone(w, s)
         /\ posts[tickers[w].post].inFlight = w => tickers[w].run = [posts[tickers[w].post] EXCEPT !.inFlight = NoTicker]
    /\ tickers[w].pc = "done" /\ posts[tickers[w].post].inFlight = w => Continues(posts[tickers[w].post], tickers[w].run)

\* The calls and the drafts change as the stage e of w changes them, or not at all.
Spends(w, e) ==
  /\ e # "none" => e \in Once /\ At(w, e)
  /\ UNCHANGED <<posts, scheduled>>
  /\ \A q \in Posts :
       /\ \A s \in Stages : calls'[q][s] = IF q = tickers[w].post /\ s = e THEN calls[q][s] + 1 ELSE calls[q][s]
       /\ \A i \in Posts :
            /\ items'[i].targets = items[i].targets
            /\ items'[i].drafts[q] = IF e = "drafting" /\ q = tickers[w].post /\ i = posts[q].item
                                     THEN items[i].drafts[q] + 1 ELSE items[i].drafts[q]
       /\ drafted'[q] = IF e = "drafting" /\ q = tickers[w].post THEN posts[q].evidence ELSE drafted[q]

PostInv == PostTypeOK /\ (\A r \in Posts : PostFits(r)) /\ \A w \in Tickers : TickerFits(w)
=============================================================================
