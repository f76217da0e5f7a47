----------------------------- MODULE Monitoring -----------------------------
(***************************************************************************)
(* A source monitor: its repeat schedule, its runs (at most one running,   *)
(* by a unique index), the suggestions that a run puts in the inbox with   *)
(* the fingerprints of their sources, and the signals of tracked sources,  *)
(* which a person saves as content under a short lease or dismisses.       *)
(***************************************************************************)
EXTENDS Naturals, FiniteSets, Sequences

CONSTANTS Workers, Urls,
          Prints, PrintOf,     \* fingerprints, and the fingerprint of an address: tracking parameters do not count
          Savers, Nothing,
          MaxRuns, MaxSignalVersion   \* bounds of the exploration

VARIABLES monitor,             \* the rule, and its repeat schedule in the queue
          jobs,                \* jobs waiting in the queue
          runs,                \* the statuses of the runs, in order
          workers,             \* the run that a worker is in
          prints, suggestions, \* fingerprints on record; suggestions in the inbox, each with its run and its addresses
          signals, items,      \* signals, and the signals that have a content item
          savers

monitoringVars == <<monitor, jobs, runs, workers, prints, suggestions, signals, items, savers>>

MonitorRule == [enabled : BOOLEAN, scheduler : BOOLEAN, tracked : BOOLEAN]

MonitorRun == {"running", "completed", "failed", "skipped"}

SourceSignal == [version : 1..MaxSignalVersion, state : {"new", "saving", "saved", "dismissed"}, claim : Savers \cup {Nothing}, lease : BOOLEAN]

WorkerRun == [run : 1..MaxRuns, pc : {"research", "write", "ingest", "finish"}, groups : SUBSET (SUBSET Urls)]

SaveRequest == [signal : Prints, pc : {"claim", "commit", "finish"}, version : 1..MaxSignalVersion, claim : Savers, found : BOOLEAN]

MonitoringTypeOK ==
  /\ monitor \in MonitorRule /\ jobs \in 0..MaxRuns /\ runs \in Seq(MonitorRun) /\ Len(runs) <= MaxRuns
  /\ workers \in [Workers -> WorkerRun \cup {Nothing}]
  /\ prints \subseteq Prints /\ suggestions \subseteq [run : 1..MaxRuns, urls : SUBSET Urls]
  /\ signals \in [Prints -> SourceSignal \cup {Nothing}] /\ items \subseteq Prints
  /\ savers \in [Savers -> SaveRequest \cup {Nothing}]

MonitoringInit ==
  /\ monitor \in [enabled : {TRUE}, scheduler : {TRUE}, tracked : BOOLEAN] /\ jobs = 0 /\ runs = <<>> /\ workers = [w \in Workers |-> Nothing]
  /\ prints = {} /\ suggestions = {} /\ signals = [p \in Prints |-> Nothing] /\ items = {} /\ savers = [v \in Savers |-> Nothing]

UnchangedSignals == UNCHANGED <<signals, items, savers>>
UnchangedRuns == UNCHANGED <<monitor, jobs, runs, workers, prints, suggestions>>

-----------------------------------------------------------------------------
(* The rule and its schedule. *)

\* The rule is saved first; the schedule follows unless the request stops in between.
update(enabled) ==
  /\ monitor' \in {[monitor EXCEPT !.enabled = enabled, !.scheduler = enabled], [monitor EXCEPT !.enabled = enabled]}
  /\ UNCHANGED <<jobs, runs, workers, prints, suggestions>> /\ UnchangedSignals

\* At its start the worker makes the schedule of every enabled rule again.
recoverSchedulers ==
  /\ monitor.enabled /\ ~monitor.scheduler /\ monitor' = [monitor EXCEPT !.scheduler = TRUE]
  /\ UNCHANGED <<jobs, runs, workers, prints, suggestions>> /\ UnchangedSignals

\* The schedule, or a person who asks for a run now.
trigger ==
  /\ monitor.scheduler \/ monitor.enabled
  /\ jobs + Len(runs) < MaxRuns /\ jobs' = jobs + 1
  /\ UNCHANGED <<monitor, runs, workers, prints, suggestions>> /\ UnchangedSignals

-----------------------------------------------------------------------------
(* A run. *)

\* Mutant: the run is recorded without the unique index.
startRunAnyway == TRUE

\* The partial unique index lets one run of the monitor be running.
startRunHolds == \A r \in DOMAIN runs : runs[r] # "running"

\* A job of a disabled monitor ends; a competing one is recorded as skipped.
startRun(w) ==
  /\ jobs > 0 /\ workers[w] = Nothing /\ jobs' = jobs - 1
  /\ \/ ~monitor.enabled /\ UNCHANGED <<runs, workers>>
     \/ monitor.enabled /\ ~startRunHolds /\ runs' = Append(runs, "skipped") /\ UNCHANGED workers
     \/ /\ monitor.enabled /\ startRunHolds /\ runs' = Append(runs, "running")
        /\ workers' = [workers EXCEPT ![w] = [run |-> Len(runs) + 1, pc |-> "research", groups |-> {}]]
  /\ UNCHANGED <<monitor, prints, suggestions>> /\ UnchangedSignals

\* Addresses whose fingerprint is not on record, by the events they report; an address that no event names is one of its own.
groupMonitorSuggestions(events, candidates) ==
  LET grouped == {e \cap candidates : e \in events} \ {{}} IN grouped \cup {{u} : u \in candidates \ UNION grouped}

\* The signals that a run makes: one for each tracked address.
rankSourceSignals(found) == {{u} : u \in found}

\* One collector: the fresh addresses of the sources that answered; it fails when none of its sources did.
CollectorResults == (SUBSET Urls) \cup {Nothing}

\* All collectors that the tracked sources call for run together; what failed is left out, and nothing is left when all failed.
selectMonitorSourcingProvider(results) ==
  LET fulfilled == {results[c] : c \in DOMAIN results} \ {Nothing} IN
    IF fulfilled = {} THEN Nothing ELSE UNION fulfilled

\* The step after the research: nothing new ends the run.
afterResearch(w, groups, step) ==
  workers' = [workers EXCEPT ![w].pc = IF groups = {} THEN "finish" ELSE step, ![w].groups = groups]

\* The addresses of the tracked sources, or addresses and events from the brand's research runtime.
research(w) ==
  /\ workers[w] # Nothing /\ workers[w].pc = "research" /\ UNCHANGED runs
  /\ \/ /\ monitor.tracked
        /\ \E results \in [{"feed", "luma", "page"} -> CollectorResults] :
             LET found == selectMonitorSourcingProvider(results) IN
               found # Nothing /\ afterResearch(w, rankSourceSignals(found), "ingest")
     \/ /\ ~monitor.tracked
        /\ \E found \in SUBSET Urls, events \in SUBSET (SUBSET Urls) :
             afterResearch(w, groupMonitorSuggestions(events, {u \in found : PrintOf[u] \notin prints}), "write")
  /\ UNCHANGED <<monitor, jobs, prints, suggestions>> /\ UnchangedSignals

\* An error anywhere in the run: what it has saved stays, the run has failed.
failRun(w) ==
  /\ workers[w] # Nothing /\ runs' = [runs EXCEPT ![workers[w].run] = "failed"] /\ workers' = [workers EXCEPT ![w] = Nothing]
  /\ UNCHANGED <<monitor, jobs, prints, suggestions>> /\ UnchangedSignals

\* Mutant: the fingerprints are kept for the end of the run.
commitWithoutPrints(w, group) == UNCHANGED prints

\* The item and the fingerprints of its addresses are one transaction.
commitPrints(w, group) == prints' = prints \cup {PrintOf[u] : u \in group}

\* One event after the other.
commitSuggestion(w) ==
  LET k == workers[w] IN
    /\ k # Nothing /\ k.pc = "write"
    /\ \E group \in k.groups :
         /\ suggestions' = suggestions \cup {[run |-> k.run, urls |-> group]} /\ commitPrints(w, group)
         /\ workers' = [workers EXCEPT ![w].groups = @ \ {group}, ![w].pc = IF k.groups = {group} THEN "finish" ELSE "write"]
    /\ UNCHANGED <<monitor, jobs, runs>> /\ UnchangedSignals

\* A signal that is seen again keeps its state and its save in progress; its version goes up.
updatedSignal(p) == [signals[p] EXCEPT !.version = @ + 1]

\* All signals of the run in one transaction.
ingest(w) ==
  LET k == workers[w]
      seen == {PrintOf[u] : u \in IF k = Nothing THEN {} ELSE UNION k.groups} IN
    /\ k # Nothing /\ k.pc = "ingest"
    /\ \A p \in seen : signals[p] # Nothing => signals[p].version < MaxSignalVersion
    /\ signals' = [p \in Prints |->
         IF p \notin seen THEN signals[p] ELSE IF signals[p] # Nothing THEN updatedSignal(p)
         ELSE [version |-> 1, state |-> "new", claim |-> Nothing, lease |-> FALSE]]
    /\ workers' = [workers EXCEPT ![w].pc = "finish"]
    /\ UNCHANGED <<monitor, jobs, runs, prints, suggestions, items, savers>>

finishRun(w) ==
  /\ workers[w] # Nothing /\ workers[w].pc = "finish"
  /\ runs' = [runs EXCEPT ![workers[w].run] = "completed"] /\ workers' = [workers EXCEPT ![w] = Nothing]
  /\ UNCHANGED <<monitor, jobs, prints, suggestions>> /\ UnchangedSignals

\* The worker stops inside a run: the queue delivers the job again, the run's row stays "running".
workerStops(w) ==
  /\ workers[w] # Nothing /\ workers' = [workers EXCEPT ![w] = Nothing]
  /\ jobs' = IF jobs + Len(runs) < MaxRuns THEN jobs + 1 ELSE jobs
  /\ UNCHANGED <<monitor, runs, prints, suggestions>> /\ UnchangedSignals

-----------------------------------------------------------------------------
(* A person saves a signal as content, dismisses it or brings it back. *)

Versioned(p, version) == signals[p] # Nothing /\ signals[p].version = version /\ version < MaxSignalVersion

\* The signal and its item are read; a reservation whose item is there is finished by its own claim, a live one is respected.
save(v, p) ==
  LET s == signals[p] IN
    /\ savers[v] = Nothing /\ s # Nothing /\ s.state \in {"new", "saving"}
    /\ s.state = "saving" => p \in items \/ ~s.lease
    /\ savers' = [savers EXCEPT ![v] = [signal |-> p, pc |-> IF s.state = "saving" /\ p \in items THEN "finish" ELSE "claim",
         version |-> s.version, claim |-> IF s.state = "saving" THEN s.claim ELSE v, found |-> p \in items]]
    /\ UnchangedRuns /\ UNCHANGED <<signals, items>>

\* The version that was read, in a state that may be saved, under no live lease.
claimSave(v) ==
  LET k == savers[v] IN
    /\ k # Nothing /\ k.pc = "claim"
    /\ IF Versioned(k.signal, k.version) /\ (signals[k.signal].state = "new" \/ (signals[k.signal].state = "saving" /\ ~signals[k.signal].lease))
         THEN /\ signals' = [signals EXCEPT ![k.signal] = [version |-> k.version + 1, state |-> "saving", claim |-> v, lease |-> TRUE]]
              /\ savers' = [savers EXCEPT ![v].pc = IF k.found THEN "finish" ELSE "commit", ![v].version = k.version + 1, ![v].claim = v]
         ELSE savers' = [savers EXCEPT ![v] = Nothing] /\ UNCHANGED signals
    /\ UnchangedRuns /\ UNCHANGED items

\* The item has the signal's identity: a second one is refused by the store.
commitItem(v) ==
  LET k == savers[v] IN
    /\ k # Nothing /\ k.pc = "commit"
    /\ IF k.signal \in items THEN savers' = [savers EXCEPT ![v] = Nothing] /\ UNCHANGED items
                             ELSE savers' = [savers EXCEPT ![v].pc = "finish"] /\ items' = items \cup {k.signal}
    /\ UnchangedRuns /\ UNCHANGED signals

\* The claim's own version; otherwise the item is safe and the signal needs another save.
finishSave(v) ==
  LET k == savers[v] IN
    /\ k # Nothing /\ k.pc = "finish" /\ savers' = [savers EXCEPT ![v] = Nothing]
    /\ signals' = IF Versioned(k.signal, k.version) /\ signals[k.signal].state = "saving" /\ signals[k.signal].claim = k.claim
                    THEN [signals EXCEPT ![k.signal] = [version |-> k.version + 1, state |-> "saved", claim |-> Nothing, lease |-> FALSE]]
                    ELSE signals
    /\ UnchangedRuns /\ UNCHANGED items

\* Mutant: a signal that is being saved may be dismissed.
dismissable(s) == s.state \in {"new", "saving"}

mayDismiss(s) == s.state = "new"

\* Dismissed from new, restored from dismissed.
triage(p) ==
  LET s == signals[p] IN
    /\ s # Nothing /\ s.version < MaxSignalVersion
    /\ \/ mayDismiss(s) /\ signals' = [signals EXCEPT ![p] = [s EXCEPT !.version = @ + 1, !.state = "dismissed"]]
       \/ s.state = "dismissed" /\ signals' = [signals EXCEPT ![p] = [s EXCEPT !.version = @ + 1, !.state = "new"]]
    /\ UnchangedRuns /\ UNCHANGED <<items, savers>>

saveLeaseExpires(p) ==
  /\ signals[p] # Nothing /\ signals[p].lease /\ signals' = [signals EXCEPT ![p].lease = FALSE]
  /\ UnchangedRuns /\ UNCHANGED <<items, savers>>

\* A request stops between two of its steps.
saverStops(v) ==
  /\ savers[v] # Nothing /\ savers' = [savers EXCEPT ![v] = Nothing]
  /\ UnchangedRuns /\ UNCHANGED <<signals, items>>

MonitoringNext ==
  \/ \E enabled \in BOOLEAN : update(enabled)
  \/ recoverSchedulers \/ trigger
  \/ \E w \in Workers : startRun(w) \/ research(w) \/ failRun(w) \/ commitSuggestion(w) \/ ingest(w) \/ finishRun(w) \/ workerStops(w)
  \/ \E p \in Prints : triage(p) \/ saveLeaseExpires(p) \/ \E v \in Savers : save(v, p)
  \/ \E v \in Savers : claimSave(v) \/ commitItem(v) \/ finishSave(v) \/ saverStops(v)

MonitoringSpec == MonitoringInit /\ [][MonitoringNext]_monitoringVars

-----------------------------------------------------------------------------
PrintsOf(s) == {PrintOf[u] : u \in s.urls}

\* Two runs never suggest the same source, whatever stopped, was delivered again or overlapped.
NoRepeatAcrossRuns ==
  \A s \in suggestions, t \in suggestions : s.run # t.run => PrintsOf(s) \cap PrintsOf(t) = {}

\* A signal that has a content item is being saved or saved, never back on the desk or dismissed; a saved one has its item.
SavedSignalHasItem ==
  \A p \in Prints : signals[p] # Nothing =>
    /\ p \in items => signals[p].state \in {"saving", "saved"}
    /\ signals[p].state = "saved" => p \in items

-----------------------------------------------------------------------------
(* The inductive invariant. *)

\* The queue never holds more than the exploration allows.
JobsAreBounded == jobs + Len(runs) <= MaxRuns

\* The index lets one worker at a time be in a run.
OneRunIsWorked ==
  \A w \in Workers : workers[w] # Nothing =>
    /\ workers[w].run \in 1..Len(runs) /\ runs[workers[w].run] = "running"
    /\ \A x \in Workers \ {w} : workers[x] = Nothing

PrintsOfSuggestions == \A s \in suggestions : PrintsOf(s) \subseteq prints

\* What a run is about to suggest was on no other run's list: nobody else has put a fingerprint on record since it looked.
GroupsAreFresh ==
  \A w \in Workers : workers[w] # Nothing /\ workers[w].pc = "write" =>
    \A group \in workers[w].groups, s \in suggestions :
      s.run # workers[w].run => PrintsOf(s) \cap {PrintOf[u] : u \in group} = {}

\* A signal with an item is on record and cannot leave its save; a save carries a claim.
ItemsAreOfSignals ==
  \A p \in Prints : /\ p \in items => signals[p] # Nothing
                    /\ signals[p] # Nothing /\ signals[p].state = "saving" => signals[p].claim \in Savers

\* A request that makes the item holds, or held, the signal; one that finishes has seen the item.
SaversAreInOrder ==
  \A v \in Savers : savers[v] # Nothing =>
    /\ savers[v].found \/ savers[v].pc = "finish" => savers[v].signal \in items
    /\ savers[v].pc = "commit" => signals[savers[v].signal] # Nothing /\ signals[savers[v].signal].state \in {"saving", "saved"}

RunInv == NoRepeatAcrossRuns /\ JobsAreBounded /\ OneRunIsWorked /\ PrintsOfSuggestions /\ GroupsAreFresh

SignalInv == SavedSignalHasItem /\ ItemsAreOfSignals /\ SaversAreInOrder

MonitoringInv == MonitoringTypeOK /\ RunInv /\ SignalInv
=============================================================================
