---------------------------- MODULE PageCapture ----------------------------
(***************************************************************************)
(* The collector of publisher pages: the pages of a monitor one after the  *)
(* other, each in a browser whose requests the worker fetches itself, a    *)
(* few at a time behind a queue of sleeping handlers that finished fetches *)
(* and two abort signals wake.                                             *)
(***************************************************************************)
EXTENDS Naturals, Sequences, FiniteSets

CONSTANTS Pages,               \* how many pages the monitor tracks
          Requests, Document,  \* requests of a page; the navigation request is one of them
          Limit,               \* fetches at a time
          MaxRequests, MaxBytes

VARIABLES page, pc,            \* the page in work and the step of its capture
          handler,             \* the step of each request's handler
          active, waiting,     \* fetches counted, handlers asleep
          seen, bytes,         \* requests counted, bodies received
          stopped, timedOut,   \* the two abort signals: resources only, and the whole capture
          outcome              \* what became of each page

captureVars == <<page, pc, handler, active, waiting, seen, bytes, stopped, timedOut, outcome>>

HandlerSteps == {"none", "robots", "entering", "asleep", "fetching", "fulfilled", "aborted"}

CaptureTypeOK ==
  /\ page \in 1..(Pages + 1) /\ pc \in {"launch", "goto", "settle", "extract", "screenshot", "store", "close", "done"}
  /\ handler \in [Requests -> HandlerSteps] /\ active \in 0..Cardinality(Requests) /\ waiting \in Seq(Requests)
  /\ seen \in 0..Cardinality(Requests) /\ bytes \in 0..(MaxBytes + 1) /\ stopped \in BOOLEAN /\ timedOut \in BOOLEAN
  /\ outcome \in [1..Pages -> {"none", "stored", "failed"}]

\* What a capture starts with: its own counters, its own signals.
FreshCapture ==
  /\ handler' = [r \in Requests |-> "none"] /\ active' = 0 /\ waiting' = <<>> /\ seen' = 0 /\ bytes' = 0
  /\ stopped' = FALSE /\ timedOut' = FALSE

CaptureInit ==
  /\ page = 1 /\ pc = "launch" /\ outcome = [p \in 1..Pages |-> "none"]
  /\ handler = [r \in Requests |-> "none"] /\ active = 0 /\ waiting = <<>> /\ seen = 0 /\ bytes = 0
  /\ stopped = FALSE /\ timedOut = FALSE

CaptureRuns == pc \in {"goto", "settle", "extract", "screenshot"}
UnchangedCapture == UNCHANGED <<page, pc, outcome>>

-----------------------------------------------------------------------------
(* The handler of one request. *)

\* Mutant: one fetch too many.
roomAtLimit(r) == active <= Limit

\* There is room below the limit.
hasRoom(r) == active < Limit

\* Only what the page needs, below the page's budget; the main frame's navigation asks robots.txt first.
route(r) ==
  /\ CaptureRuns /\ handler[r] = "none" /\ seen' = seen + 1
  /\ handler' = [handler EXCEPT ![r] = IF seen + 1 > MaxRequests \/ bytes >= MaxBytes \/ timedOut THEN "aborted"
                                       ELSE IF r = Document THEN "robots" ELSE "entering"]
  /\ UnchangedCapture /\ UNCHANGED <<active, waiting, bytes, stopped, timedOut>>

\* The publisher's policy: allowed, refused or not to be had.
allowed(r) ==
  /\ handler[r] = "robots" /\ \E step \in IF timedOut THEN {"aborted"} ELSE {"entering", "aborted"} : handler' = [handler EXCEPT ![r] = step]
  /\ UnchangedCapture /\ UNCHANGED <<active, waiting, seen, bytes, stopped, timedOut>>

\* The loop around the limit: asleep while it is reached, unless the signal has come.
resource(r) ==
  /\ handler[r] = "entering"
  /\ \/ stopped /\ handler' = [handler EXCEPT ![r] = "aborted"] /\ UNCHANGED <<active, waiting>>
     \/ /\ ~stopped /\ hasRoom(r)
        /\ handler' = [handler EXCEPT ![r] = "fetching"] /\ active' = active + 1 /\ UNCHANGED waiting
     \/ /\ ~stopped /\ ~hasRoom(r)
        /\ handler' = [handler EXCEPT ![r] = "asleep"] /\ waiting' = Append(waiting, r) /\ UNCHANGED active
  /\ UnchangedCapture /\ UNCHANGED <<seen, bytes, stopped, timedOut>>

\* Mutant: only a fetch that succeeds wakes the next handler.
wakeAfterSuccess(r, step) ==
  IF step = "fulfilled" /\ waiting # <<>> THEN /\ handler' = [handler EXCEPT ![r] = step, ![Head(waiting)] = "entering"] /\ waiting' = Tail(waiting)
                                          ELSE /\ handler' = [handler EXCEPT ![r] = step] /\ UNCHANGED waiting

\* However the fetch ends, the longest sleeper is woken.
wakeNext(r, step) ==
  IF waiting # <<>> THEN /\ handler' = [handler EXCEPT ![r] = step, ![Head(waiting)] = "entering"] /\ waiting' = Tail(waiting)
                    ELSE /\ handler' = [handler EXCEPT ![r] = step] /\ UNCHANGED waiting

\* A fetch ends: its body counts against the page's budget, a failure or the signal aborts the request.
fetchEnds(r) ==
  /\ handler[r] = "fetching" /\ active' = active - 1
  /\ \/ ~stopped /\ bytes' = (IF bytes > MaxBytes THEN bytes ELSE bytes + 1) /\ wakeNext(r, IF bytes >= MaxBytes THEN "aborted" ELSE "fulfilled")
     \/ UNCHANGED bytes /\ wakeNext(r, "aborted")
  /\ UnchangedCapture /\ UNCHANGED <<seen, stopped, timedOut>>

\* A signal wakes every sleeper at once.
abortResources ==
  /\ stopped' = TRUE /\ waiting' = <<>>
  /\ handler' = [r \in Requests |-> IF handler[r] = "asleep" THEN "entering" ELSE handler[r]]

-----------------------------------------------------------------------------
(* The capture of a page. *)

\* The browser starts, or it does not and the page has failed.
launch ==
  /\ pc = "launch"
  /\ \/ pc' = "goto" /\ UNCHANGED outcome
     \/ pc' = "close" /\ outcome' = [outcome EXCEPT ![page] = "failed"]
  /\ UNCHANGED <<page, handler, active, waiting, seen, bytes, stopped, timedOut>>

\* The document is there, with an answer of its own, or the navigation failed.
goto ==
  /\ pc = "goto"
  /\ \/ handler[Document] = "fulfilled" /\ pc' = "settle" /\ UNCHANGED outcome
     \/ (handler[Document] \in {"fulfilled", "aborted"} \/ timedOut) /\ pc' = "close" /\ outcome' = [outcome EXCEPT ![page] = "failed"]
  /\ UNCHANGED <<page, handler, active, waiting, seen, bytes, stopped, timedOut>>

\* The page has loaded, or after a few seconds the rest of its resources is given up.
waitForLoad ==
  /\ pc = "settle" /\ pc' = "extract"
  /\ \/ UNCHANGED <<handler, waiting, stopped>>
     \/ abortResources
  /\ UNCHANGED <<page, active, seen, bytes, timedOut, outcome>>

\* Stories are found and the page photographed; a closed browser, a login page or too large an image fails the capture.
extract ==
  /\ pc \in {"extract", "screenshot"}
  /\ \/ ~timedOut /\ pc' = (IF pc = "extract" THEN "screenshot" ELSE "store") /\ UNCHANGED outcome
     \/ pc' = "close" /\ outcome' = [outcome EXCEPT ![page] = "failed"]
  /\ UNCHANGED <<page, handler, active, waiting, seen, bytes, stopped, timedOut>>

\* The deadline of the whole capture: the browser is closed under it.
deadline ==
  /\ CaptureRuns /\ ~timedOut /\ timedOut' = TRUE /\ abortResources
  /\ UnchangedCapture /\ UNCHANGED <<active, seen, bytes>>

\* The image goes to private storage; without it the page has failed.
store ==
  /\ pc = "store" /\ pc' = "close"
  /\ \E end \in {"stored", "failed"} : outcome' = [outcome EXCEPT ![page] = end]
  /\ UNCHANGED <<page, handler, active, waiting, seen, bytes, stopped, timedOut>>

\* The bucket is made when it is missing; without private storage no page is opened.
ensureSourceSnapshotBucket ==
  /\ page = 1 /\ pc = "launch" /\ pc' = "done" /\ page' = Pages + 1 /\ outcome' = [p \in 1..Pages |-> "failed"] /\ FreshCapture

\* Pages follow each other; what is left of this one's handlers ends with its signals.
nextPage ==
  /\ pc = "close" /\ page' = page + 1 /\ pc' = (IF page = Pages THEN "done" ELSE "launch")
  /\ FreshCapture /\ UNCHANGED outcome

\* The collection has its pages, in part; when every page failed the collector fails.
researchFails == pc = "done" /\ \A p \in 1..Pages : outcome[p] = "failed"

CaptureNext ==
  \/ \E r \in Requests : route(r) \/ allowed(r) \/ resource(r) \/ fetchEnds(r)
  \/ launch \/ goto \/ waitForLoad \/ extract \/ deadline \/ store \/ ensureSourceSnapshotBucket \/ nextPage

CaptureAdvances == launch \/ goto \/ waitForLoad \/ extract \/ store \/ nextPage

\* The capture's own steps run when they can; the deadline is a timer.
CaptureFairness == WF_captureVars(CaptureAdvances) /\ WF_captureVars(deadline)

CaptureSpec == CaptureInit /\ [][CaptureNext]_captureVars
CaptureFairSpec == CaptureSpec /\ CaptureFairness

-----------------------------------------------------------------------------
\* No more fetches run than the limit, and the counter is exactly their number, whoever was woken, refused or aborted.
FetchesAreCounted ==
  /\ active = Cardinality({r \in Requests : handler[r] = "fetching"})
  /\ active <= Limit

\* A handler sleeps only while the limit is reached or another handler is awake to take the free place and wake it in turn.
NoLostWakeUp ==
  waiting # <<>> => active >= Limit \/ \E r \in Requests : handler[r] = "entering"

\* The collection ends, however many fetches hang.
CollectionEnds == <>(pc = "done")

-----------------------------------------------------------------------------
(* The inductive invariant.  At(s) has the requests whose handler is at s. *)

At(s) == {r \in Requests : handler[r] = s}

\* The queue has the sleeping handlers, each once, and none after the signal.
SleepersWait ==
  /\ \A i \in DOMAIN waiting : handler[waiting[i]] = "asleep"
  /\ \A i, j \in DOMAIN waiting : waiting[i] = waiting[j] => i = j
  /\ stopped => waiting = <<>>

\* Beside a sleeper every free place has a handler awake that is about to take it.
PlacesAreTaken == waiting # <<>> => active + Cardinality(At("entering")) >= Limit

CaptureInv ==
  /\ CaptureTypeOK /\ SleepersWait /\ PlacesAreTaken /\ FetchesAreCounted
  /\ seen + Cardinality(At("none")) = Cardinality(Requests)
  /\ pc # "done" <=> page <= Pages
=============================================================================
