--------------------------- MODULE CreativeStudio ---------------------------
(***************************************************************************)
(* A visual project: revisions that do not change, a leased render of the  *)
(* current one, the library file it makes, and recovery.  A render belongs *)
(* to a revision and is known by its number; its lease is known by the     *)
(* attempt that took it.  The bytes of a render depend on its revision     *)
(* only.                                                                   *)
(***************************************************************************)
EXTENDS Integers

CONSTANTS Requests, Renderers, NoRequest,
          MaxRevision, MaxAttempts   \* bounds of the exploration

VARIABLES project, renders,
          files,       \* the library file of a render, whose id is made from the render's
          queue,       \* render jobs
          requests,    \* requests and recovery passes that have read the project
          renderers,   \* jobs at work
          finishers    \* history: the attempts that completed a render

studioVars == <<project, renders, files, queue, requests, renderers, finishers>>

Revisions == 1..MaxRevision

CreativeProject == [revision : Revisions, status : {"draft", "rendering", "ready", "failed"}, version : Nat,
                    render : 0..MaxRevision, output : 0..MaxRevision]

CreativeRender == [status : {"none", "rendering", "ready", "failed"}, lease : 0..MaxAttempts, live : BOOLEAN,
                   attempts : 0..MaxAttempts]

RenderJob == [render : Revisions, lease : 1..MaxAttempts]

StudioTypeOK ==
  /\ project \in CreativeProject /\ renders \in [Revisions -> CreativeRender]
  /\ files \in [Revisions -> {"none", "pending", "ready", "rejected"}] /\ queue \subseteq RenderJob
  /\ requests \in [Requests -> {NoRequest} \cup [version : Nat, revision : Revisions]]
  /\ renderers \in [Renderers -> [pc : {"idle", "read", "drawn", "writing", "stored", "failed"}, render : 0..MaxRevision,
                                  lease : 0..MaxAttempts]]
  /\ finishers \in [Revisions -> SUBSET (1..MaxAttempts)]

IdleRenderer == [pc |-> "idle", render |-> 0, lease |-> 0]

createCreativeProject == [revision |-> 1, status |-> "draft", version |-> 1, render |-> 0, output |-> 0]

StudioInit ==
  /\ project = createCreativeProject
  /\ renders = [r \in Revisions |-> [status |-> "none", lease |-> 0, live |-> FALSE, attempts |-> 0]]
  /\ files = [r \in Revisions |-> "none"] /\ queue = {} /\ requests = [q \in Requests |-> NoRequest]
  /\ renderers = [w \in Renderers |-> IdleRenderer] /\ finishers = [r \in Revisions |-> {}]

-----------------------------------------------------------------------------
(* Requests.                                                               *)

\* Mutant: a new revision keeps the render and the output of the one before.
createRevisionKeepingOutput == [project EXCEPT !.revision = @ + 1, !.version = @ + 1, !.status = "draft"]

createCreativeRevision ==
  [revision |-> project.revision + 1, status |-> "draft", version |-> project.version + 1, render |-> 0, output |-> 0]

\* The version the editor saw is the version of the row, which is locked.
addRevision ==
  /\ project.revision < MaxRevision /\ project' = createCreativeRevision
  /\ UNCHANGED <<renders, files, queue, requests, renderers, finishers>>

\* The project and its current revision are read; the source is checked; the transaction comes later.
render(q) ==
  /\ requests[q] = NoRequest
  /\ requests' = [requests EXCEPT ![q] = [version |-> project.version, revision |-> project.revision]]
  /\ UNCHANGED <<project, renders, files, queue, renderers, finishers>>

\* A periodic pass does the same for a project that is rendering.
recoverExpired(q) == project.status = "rendering" /\ render(q)

\* A ready render, or one whose lease runs, is answered with itself.
Reusable(r) == renders[r].status = "ready" \/ (renders[r].status = "rendering" /\ renders[r].live)

\* A new render, or the failed or expired one again with a higher attempt.
reclaim(r) == [status |-> "rendering", lease |-> renders[r].attempts + 1, live |-> TRUE, attempts |-> renders[r].attempts + 1]

\* The job is added after the commit, or the process ends before.
enqueue(job) == queue' \in {queue, queue \cup {job}}

startRender(q) ==
  LET seen == requests[q]
      r == seen.revision IN
    /\ seen # NoRequest
    /\ requests' = [requests EXCEPT ![q] = NoRequest]
    /\ IF project.revision = r /\ project.version = seen.version /\ ~ Reusable(r) /\ renders[r].attempts < MaxAttempts
         THEN /\ renders' = [renders EXCEPT ![r] = reclaim(r)]
              /\ project' = [project EXCEPT !.version = @ + 1, !.status = "rendering", !.render = r, !.output = 0]
              /\ enqueue([render |-> r, lease |-> reclaim(r).lease])
         ELSE UNCHANGED <<project, renders, queue>>
    /\ UNCHANGED <<files, renderers, finishers>>

leaseExpires(r) ==
  /\ renders[r].live /\ renders' = [renders EXCEPT ![r].live = FALSE]
  /\ UNCHANGED <<project, files, queue, requests, renderers, finishers>>

-----------------------------------------------------------------------------
(* The renderer.                                                           *)

Renderer(w, pc) == renderers' = [renderers EXCEPT ![w].pc = pc]

Ends(w) == renderers' = [renderers EXCEPT ![w] = IdleRenderer]

process(w, job) ==
  LET r == job.render IN
    /\ renderers[w].pc = "idle" /\ job \in queue /\ queue' = queue \ {job}
    /\ IF renders[r].status = "rendering" /\ renders[r].lease = job.lease /\ project.render = r
         THEN renderers' = [renderers EXCEPT ![w] = [pc |-> "read", render |-> r, lease |-> job.lease]] ELSE UNCHANGED renderers
    /\ UNCHANGED <<project, renders, files, requests, finishers>>

\* The source and the logo are read and drawn with the text; any of it may fail: a source that is gone or not cleared,
\* text that does not fit, too many bytes or pixels, another renderer version.
renderCreativeImage(w, drawn) ==
  /\ renderers[w].pc = "read" /\ Renderer(w, IF drawn THEN "drawn" ELSE "failed")
  /\ UNCHANGED <<project, renders, files, queue, requests, finishers>>

\* The file of the render: a ready one is taken, a pending one continued, another refused.
createGeneratedImage(w) ==
  LET r == renderers[w].render IN
    /\ renderers[w].pc = "drawn"
    /\ CASE files[r] = "ready" -> Renderer(w, "stored") /\ UNCHANGED files
         [] files[r] \in {"none", "pending"} -> Renderer(w, "writing") /\ files' = [files EXCEPT ![r] = "pending"]
         [] files[r] = "rejected" -> Renderer(w, "failed") /\ UNCHANGED files
    /\ UNCHANGED <<project, renders, queue, requests, finishers>>

\* Written, scanned and inspected; only the first save of the pending record counts, another fails its renderer.
finishImage(w, accepted) ==
  LET r == renderers[w].render IN
    /\ renderers[w].pc = "writing"
    /\ files' = IF files[r] = "pending" THEN [files EXCEPT ![r] = IF accepted THEN "ready" ELSE "rejected"] ELSE files
    /\ Renderer(w, IF files[r] = "pending" /\ accepted THEN "stored" ELSE "failed")
    /\ UNCHANGED <<project, renders, queue, requests, finishers>>

\* Mutant: any renderer of a render may finish it.
isRendering(r, lease) == renders[r].status = "rendering"

leaseHolds(r, lease) == renders[r].status = "rendering" /\ renders[r].lease = lease

\* The render and its project change together; when the project has moved on, neither does.
finishRender(w, status) ==
  LET r == renderers[w].render IN
    IF leaseHolds(r, renderers[w].lease) /\ project.render = r /\ project.status = "rendering"
      THEN /\ renders' = [renders EXCEPT ![r].status = status, ![r].lease = 0, ![r].live = FALSE]
           /\ project' = [project EXCEPT !.status = status, !.version = @ + 1, !.output = IF status = "ready" THEN r ELSE 0]
           /\ finishers' = IF status = "ready" THEN [finishers EXCEPT ![r] = @ \cup {renderers[w].lease}] ELSE finishers
      ELSE UNCHANGED <<renders, project, finishers>>

completeRender(w) ==
  /\ renderers[w].pc = "stored" /\ finishRender(w, "ready") /\ Ends(w)
  /\ UNCHANGED <<files, queue, requests>>

failRender(w) ==
  /\ renderers[w].pc = "failed" /\ finishRender(w, "failed") /\ Ends(w)
  /\ UNCHANGED <<files, queue, requests>>

\* The process ends: its job is not tried again.
crash(w) ==
  /\ renderers[w].pc # "idle" /\ Ends(w)
  /\ UNCHANGED <<project, renders, files, queue, requests, finishers>>

StudioNext ==
  \/ addRevision \/ \E r \in Revisions : leaseExpires(r)
  \/ \E q \in Requests : render(q) \/ recoverExpired(q) \/ startRender(q)
  \/ \E w \in Renderers :
       \/ createGeneratedImage(w) \/ completeRender(w) \/ failRender(w) \/ crash(w)
       \/ \E job \in queue : process(w, job)
       \/ \E ok \in BOOLEAN : renderCreativeImage(w, ok) \/ finishImage(w, ok)

StudioSpec == StudioInit /\ [][StudioNext]_studioVars

-----------------------------------------------------------------------------
\* The visual a project shows is the finished render of its current revision, with its file, whatever revisions and
\* attempts overlap.
OutputIsOfTheRevision ==
  /\ project.output # 0 => project.output = project.revision /\ files[project.output] = "ready"
  /\ project.status = "ready" <=> project.output # 0

\* Each finished render was finished by one attempt, the one that held the lease: an attempt whose lease was replaced
\* changes neither the render nor the project.
FinishedByItsLease ==
  /\ \A r \in Revisions : \A a \in finishers[r] : a = renders[r].attempts
  /\ \A r \in Revisions : renders[r].status = "ready" <=> finishers[r] # {}

-----------------------------------------------------------------------------
(* The inductive invariant. *)

\* A finished visual is the render of the current revision, and its file is there.
ProjectFits ==
  /\ project.render # 0 => project.render = project.revision
  /\ project.output # 0 => project.output = project.render /\ files[project.output] = "ready"
  /\ project.status = "ready" <=> project.output # 0

\* The lease of a render that runs is its last attempt, and only a finished one has a finisher, that attempt.
RenderFits(r) ==
  /\ renders[r].status = "rendering" => renders[r].lease = renders[r].attempts /\ renders[r].lease # 0
  /\ renders[r].status = "ready" <=> finishers[r] # {}
  /\ \A a \in finishers[r] : a = renders[r].attempts

RendererFits(w) ==
  renderers[w].pc # "idle" =>
    /\ renderers[w].render \in Revisions
    /\ renderers[w].pc = "stored" => files[renderers[w].render] = "ready"

StudioInv ==
  /\ StudioTypeOK /\ ProjectFits
  /\ \A r \in Revisions : RenderFits(r)
  /\ \A w \in Renderers : RendererFits(w)
=============================================================================
