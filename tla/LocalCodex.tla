----------------------------- MODULE LocalCodex -----------------------------
(***************************************************************************)
(* The local Codex bridge: an HTTP server on the owner's machine that      *)
(* answers one completion or research request at a time by running the     *)
(* Codex CLI in a private temporary directory.                             *)
(*                                                                         *)
(* A request is accepted while nothing runs, its body is read, checked and *)
(* written to the directory, the CLI is spawned, and it may be stopped     *)
(* from three sides: its timer, its output limit, and the client that goes *)
(* away.  Everything the CLI does until its "close" event is               *)
(* nondeterministic; what the bridge makes of its event stream is not.     *)
(***************************************************************************)
EXTENDS Naturals, Sequences, FiniteSets

CONSTANTS
    BridgeRequests,   \* the requests the bridge may receive
    Outputs           \* the event streams the CLI may print

VARIABLES
    busy,             \* the flag createBridge closes over
    request,          \* per request: where its handler is, and what it holds
    listening         \* the server accepts connections

codexVars == <<busy, request, listening>>

Routes == {"models", "completion", "research", "unknown"}
Bodies == {"text", "images", "refused", "not_json", "too_large"}

EventKinds == {"thread", "turn", "notice", "message", "reasoning", "search",
               "tool", "failed", "completed", "junk"}

NoRequestYet ==
    [pc |-> "new", route |-> "unknown", body |-> "text", gone |-> FALSE,
     cwd |-> FALSE, child |-> "none", failure |-> "", code |-> 0,
     output |-> <<>>, result |-> "none", reply |-> 0]

Stages   == {"new", "body", "check", "inputs", "spawn", "run", "events", "cleanup", "done"}
Children == {"none", "live", "closed"}
Failures == {"", "timed out", "cancelled", "limit", "not started"}
Codes    == {0, 1}
Streams  == Outputs \cup {<<>>}
Results  == {"none", "answer", "error"}
Replies  == {0, 200, 400, 401, 404, 415, 429, 502}

BridgeRequest ==
    [pc : Stages, route : Routes, body : Bodies, gone : BOOLEAN, cwd : BOOLEAN, child : Children,
     failure : Failures, code : Codes, output : Streams, result : Results, reply : Replies]

CodexTypeOK ==
    /\ busy \in BOOLEAN /\ listening \in BOOLEAN
    /\ request \in [BridgeRequests -> BridgeRequest]

CodexInit ==
    /\ busy = FALSE
    /\ request = [r \in BridgeRequests |-> NoRequestYet]
    /\ listening = TRUE

-----------------------------------------------------------------------------
(* What a request may ask for.                                             *)

\* The bodies parseRequest accepts: the exact model, no stream or tools, at
\* most four inline images, and some user text within the limits.
parseRequest(body) == body \in {"text", "images"}

\* The research body: text only.
researchAccepted(body) == body = "text"

accepts(q) == IF q.route = "research" THEN researchAccepted(q.body)
                                      ELSE parseRequest(q.body)

\* The CLI may search the web in a research run and use no tool otherwise.
commandArgs(research) == [web_search |-> research]

\* The streams the pinned CLI can print under its arguments: web search is
\* disabled unless asked for; every other event may still turn up.
PrintableUnder(args) ==
    {o \in Outputs : args.web_search \/ \A i \in DOMAIN o : o[i] # "search"}

-----------------------------------------------------------------------------
(* The event stream, read line by line.                                    *)

StreamStart == [started |-> FALSE, id |-> FALSE, text |-> FALSE,
                completed |-> FALSE, searched |-> FALSE, bad |-> FALSE]

readEvent(research, s, e) ==
    CASE e = "thread"    -> [s EXCEPT !.id = TRUE]
      [] e = "turn"      -> [s EXCEPT !.started = TRUE]
      [] e = "notice"    -> IF s.started THEN [s EXCEPT !.bad = TRUE] ELSE s
      [] e = "search"    -> IF research THEN [s EXCEPT !.searched = TRUE]
                                        ELSE [s EXCEPT !.bad = TRUE]
      [] e = "message"   -> [s EXCEPT !.text = TRUE]
      [] e = "reasoning" -> s
      [] e = "completed" -> [s EXCEPT !.completed = TRUE]
      [] OTHER           -> [s EXCEPT !.bad = TRUE]

\* What the loop holds after each number of lines.
readLines(output, research) ==
    LET after[n \in 0..Len(output)] ==
          IF n = 0 THEN StreamStart ELSE readEvent(research, after[n - 1], output[n])
    IN  after

\* "answer" when the stream is a complete text result, "error" otherwise.
completionFromEvents(output, research) ==
    LET end == readLines(output, research)[Len(output)]
    IN  IF /\ ~end.bad /\ end.completed /\ end.id /\ end.text
           /\ research => end.searched
        THEN "answer" ELSE "error"

-----------------------------------------------------------------------------
(* The server.                                                             *)

\* Refusals before the bridge is taken, in the order of the checks.
refusal(auth, route, json) ==
    IF ~auth THEN 401
    ELSE IF route = "models" THEN 200
    ELSE IF route = "unknown" THEN 404
    ELSE IF busy THEN 429
    ELSE IF ~json THEN 415
    ELSE 0

\* Mutant: the busy flag is looked at and never taken.
takeNothing(r) == busy

takeBridge(r) == TRUE

\* The handler up to its first await: routing, the busy check and taking the
\* flag are one step of the event loop.
createBridge(r) ==
    /\ listening
    /\ request[r].pc = "new"
    /\ \E auth, json \in BOOLEAN, route \in Routes, body \in Bodies :
        LET code == refusal(auth, route, json) IN
        IF code # 0
        THEN /\ request' = [request EXCEPT ![r].pc = "done", ![r].reply = code,
                    ![r].route = IF code = 200 THEN "models" ELSE @]
             /\ UNCHANGED busy
        ELSE /\ request' = [request EXCEPT ![r].pc = "body", ![r].route = route,
                                           ![r].body = body]
             /\ busy' = takeBridge(r)
    /\ UNCHANGED listening

\* reply() writes nothing to a destroyed response.
replyOf(q, code) == IF q.gone THEN 0 ELSE code

\* What is kept of a handler that ended: a request that was not answered
\* leaves only its status, and its directory if that was not removed.
ended(q, code) ==
    IF code = 200 THEN [q EXCEPT !.pc = "done", !.reply = 200]
    ELSE [NoRequestYet EXCEPT !.pc = "done", !.cwd = q.cwd, !.reply = code]

\* The finally block: the answer is written and the flag released.
finish(r, q, code) ==
    /\ request' = [request EXCEPT ![r] = ended(q, replyOf(q, code))]
    /\ busy' = FALSE
    /\ UNCHANGED listening


invalidJson(r) == finish(r, request[r], 400)

\* The body is read; a client that goes away while it is read ends the loop
\* with an error.
ReadBody(r) ==
    /\ request[r].pc = "body"
    /\ \/ /\ request[r].gone \/ request[r].body = "too_large"
          /\ finish(r, request[r], 502)
       \/ /\ ~request[r].gone /\ request[r].body = "not_json"
          /\ invalidJson(r)
       \/ /\ ~request[r].gone /\ request[r].body \in {"text", "images", "refused"}
          /\ request' = [request EXCEPT ![r].pc = "check"]
          /\ UNCHANGED <<busy, listening>>

move(r, q) == /\ request' = [request EXCEPT ![r] = q]
              /\ UNCHANGED <<busy, listening>>

\* The checks of runCompletion and runResearch, then their directory.
CheckRequest(r) ==
    LET q == request[r] IN
    /\ q.pc = "check"
    /\ \/ /\ ~accepts(q)
          /\ finish(r, q, 502)
       \/ /\ accepts(q)
          /\ \/ move(r, [q EXCEPT !.cwd = TRUE,
                                  !.pc = IF q.route = "research" THEN "spawn" ELSE "inputs"])
             \/ finish(r, q, 502)                       \* mkdtemp failed

\* The images of a completion are written into the directory.
runCompletion(r) ==
    LET q == request[r] IN
    /\ q.pc = "inputs"
    /\ \/ move(r, [q EXCEPT !.pc = "spawn"])
       \/ /\ q.body = "images"                          \* a write failed
          /\ move(r, [q EXCEPT !.pc = "cleanup", !.result = "error"])

\* The CLI is spawned; a signal already aborted stops it at once.
processResult(r) ==
    LET q == request[r] IN
    /\ q.pc = "spawn"
    /\ \/ move(r, [q EXCEPT !.pc = "run", !.child = "live",
                            !.failure = IF q.gone THEN "cancelled" ELSE ""])
       \/ move(r, [q EXCEPT !.pc = "run", !.child = "live",
                            !.failure = IF q.gone THEN "cancelled" ELSE "not started"])

\* The timer and the output limit stop the child; the first reason is kept.
stop(r, reason) ==
    LET q == request[r] IN
    /\ q.pc = "run" /\ q.failure = ""
    /\ move(r, [q EXCEPT !.failure = reason])

\* Mutant: the outcome is the exit code alone.
outcomeOfCode(q, code) == IF code = 0 THEN "events" ELSE "cleanup"

outcomeOfClose(q, code) ==
    IF q.failure = "" /\ code = 0 THEN "events" ELSE "cleanup"

\* The child closes, by itself or because it was killed: a process that was
\* finishing when it was stopped still reports code 0.
Close(r) ==
    LET q == request[r] IN
    /\ q.pc = "run"
    /\ \E code \in Codes :
        LET closed == [q EXCEPT !.child = "closed", !.code = code,
                                !.pc = outcomeOfClose(q, code)] IN
        \/ /\ closed.pc = "cleanup"
           /\ move(r, [closed EXCEPT !.result = "error"])
        \/ /\ closed.pc = "events"
           /\ \E o \in PrintableUnder(commandArgs(q.route = "research")) :
                move(r, [closed EXCEPT !.output = o])

ReadEvents(r) ==
    LET q == request[r] IN
    /\ q.pc = "events"
    /\ move(r, [q EXCEPT !.pc = "cleanup",
                         !.result = completionFromEvents(q.output, q.route = "research")])

\* finally: the directory is removed whatever happened; if that fails the
\* request fails, and the flag is released all the same.
runResearch(r) ==
    LET q == request[r] IN
    /\ q.pc = "cleanup"
    /\ \/ finish(r, [q EXCEPT !.cwd = FALSE], IF q.result = "answer" THEN 200 ELSE 502)
       \/ finish(r, q, 502)

\* The client closes its connection before the answer: the signal aborts, and
\* a running child is stopped.
cancel(r) ==
    LET q == request[r] IN
    /\ q.pc \notin {"new", "done"} /\ ~q.gone
    /\ move(r, [q EXCEPT !.gone = TRUE,
                         !.failure = IF q.pc = "run" /\ @ = "" THEN "cancelled" ELSE @])

\* SIGINT or SIGTERM: no new connection, and every open response is closed.
shutdown ==
    /\ listening
    /\ listening' = FALSE
    /\ request' = [r \in BridgeRequests |->
          LET q == request[r] IN
          IF q.pc \in {"new", "done"} THEN q
          ELSE [q EXCEPT !.gone = TRUE,
                         !.failure = IF q.pc = "run" /\ @ = "" THEN "cancelled" ELSE @]]
    /\ UNCHANGED busy

Handler(r) ==
    \/ ReadBody(r) \/ CheckRequest(r) \/ runCompletion(r) \/ processResult(r)
    \/ Close(r) \/ ReadEvents(r) \/ runResearch(r)

CodexNext ==
    \/ \E r \in BridgeRequests :
        \/ createBridge(r) \/ Handler(r) \/ cancel(r)
        \/ stop(r, "timed out") \/ stop(r, "limit")
    \/ shutdown

CodexSpec == CodexInit /\ [][CodexNext]_codexVars

\* The event loop runs what is ready, the request timeout ends a stalled
\* body, and the timer kills a child that does not end.
CodexFairness == \A r \in BridgeRequests : WF_codexVars(Handler(r))

CodexFairSpec == CodexSpec /\ CodexFairness

-----------------------------------------------------------------------------
(* Properties.                                                             *)

\* One CLI at a time, in one directory: the flag read and taken in one step
\* by createBridge covers every await of the handler, so no two requests are
\* past it together.
OneCompletionAtATime ==
    /\ Cardinality({r \in BridgeRequests : request[r].child = "live"}) <= 1
    /\ \A r, s \in BridgeRequests :
        (request[r].pc \notin {"new", "done"} /\ request[s].pc \notin {"new", "done"}) => r = s

\* An answer is a whole turn of a run that nobody stopped: the CLI printed a
\* message and completed its turn, used no tool, searched exactly when
\* research was asked for, and neither the timer, the output limit nor the
\* client ended it.
AnswersAreComplete ==
    \A r \in BridgeRequests :
        LET q == request[r]  printed == {q.output[i] : i \in DOMAIN q.output} IN
        (q.reply = 200 /\ q.route # "models") =>
            /\ q.failure = "" /\ q.code = 0
            /\ {"message", "completed"} \subseteq printed
            /\ printed \cap {"tool", "failed", "junk"} = {}
            /\ (q.route = "research") <=> ("search" \in printed)

\* The bridge becomes free again after every request, whichever way it ends.
BridgeIsFreed == busy ~> ~busy

-----------------------------------------------------------------------------
(* The inductive invariant.                                                *)

\* The handler of a request is between taking and releasing the bridge.
Inside(q) == q.pc \notin {"new", "done"}

\* The flag is up exactly while one handler is inside.
BusyIsHeld ==
    /\ busy <=> \E r \in BridgeRequests : Inside(request[r])
    /\ \A r, s \in BridgeRequests : Inside(request[r]) /\ Inside(request[s]) => r = s

\* The run was not stopped and its stream is one the CLI can print.
RanThrough(q) ==
    /\ q.failure = "" /\ q.code = 0
    /\ q.output \in PrintableUnder(commandArgs(q.route = "research"))

\* What the stream of a request makes is an answer.
Answers(q) == completionFromEvents(q.output, q.route = "research") = "answer"

\* A child lives in its step only, a stream that is read ended in good order,
\* and an answer is what was made of it.
StepsAgree(q) ==
    /\ q.child = "live" => q.pc = "run"
    /\ q.pc = "new" => q.reply = 0
    /\ Inside(q) => q.reply = 0 /\ q.route # "models"
    /\ q.pc = "events" => RanThrough(q)
    /\ (q.pc = "cleanup" /\ q.result = "answer") \/ (q.reply = 200 /\ q.route # "models")
         => RanThrough(q) /\ Answers(q)

CodexInv == CodexTypeOK /\ BusyIsHeld /\ \A r \in BridgeRequests : StepsAgree(request[r])
=============================================================================
