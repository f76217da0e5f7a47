---------------------------- MODULE PublishDelivery ----------------------------
(***************************************************************************)
(* From a scheduled target to executions of the publish handler: the outbox*)
(* event of the target, the dispatchers of the worker processes, the jobs  *)
(* in Redis, and the recovery that a starting worker runs.                 *)
(*                                                                         *)
(* A job is named by its id: the target id (key 0) or the target id with   *)
(* the recovery key of the event (keys 1, 2, ...).  Adding a job whose id  *)
(* is still known to Redis has no effect; ended jobs stay known.           *)
(***************************************************************************)
EXTENDS Naturals, FiniteSets

CONSTANTS Workers,       \* worker processes, each with one dispatcher
          MaxAttempts,   \* dispatch attempts before the event fails
          JobAttempts,   \* executions of one job before the queue gives up
          MaxCrashes,    \* bound on worker crashes
          MaxLosses,     \* bound on losses of the Redis data
          Idle           \* a dispatcher with no message in hand

VARIABLES target,   \* "queued", "publishing", or "settled" for every other status
          event,    \* the outbox event of the target
          jobs,     \* per key: what Redis knows of the job
          tries,    \* per key: executions of the job that threw
          hand,     \* per worker: the claimed message and the step it is at
          up,       \* workers that run
          crashes,  \* crashes so far
          losses    \* losses of the Redis data so far

vars == <<target, event, jobs, tries, hand, up, crashes, losses>>

Keys == 0 .. MaxCrashes

Unsettled == {"queued", "publishing"}

TypeOK ==
  /\ target \in Unsettled \cup {"settled"}
  /\ event \in [status : {"pending", "processing", "processed", "failed"},
                attempts : 0 .. MaxAttempts, live : BOOLEAN, key : Keys]
  /\ jobs \in [Keys -> {"absent", "waiting", "active", "ended", "exhausted"}]
  /\ tries \in [Keys -> 0 .. JobAttempts]
  /\ hand \in [Workers -> [key : Keys, at : {"add", "complete", "fail"}] \cup {Idle}]
  /\ up \subseteq Workers
  /\ crashes \in 0 .. MaxCrashes
  /\ losses \in 0 .. MaxLosses

\* The commit that schedules the target inserts its event (ContentStore).
Init ==
  /\ target = "queued"
  /\ event = [status |-> "pending", attempts |-> 0, live |-> FALSE, key |-> 0]
  /\ jobs = [k \in Keys |-> "absent"]
  /\ tries = [k \in Keys |-> 0]
  /\ hand = [w \in Workers |-> Idle]
  /\ up = Workers
  /\ crashes = 0
  /\ losses = 0

-----------------------------------------------------------------------------
(* The dispatcher.                                                         *)

\* Mutant: only pending events are claimed.
ClaimablePending == event.status = "pending"

Claimable == \/ event.status = "pending"
             \/ event.status = "processing" /\ ~event.live

\* Stands for the attempts an event makes beyond the limit: a claim after an
\* expired lease counts as well, and only fail() looks at the limit.
Capped(n) == IF n > MaxAttempts THEN MaxAttempts ELSE n

ClaimAvailable(w) ==
  /\ w \in up
  /\ hand[w] = Idle
  /\ Claimable
  /\ event' = [event EXCEPT !.status = "processing", !.live = TRUE,
                            !.attempts = Capped(event.attempts + 1)]
  /\ hand' = [hand EXCEPT ![w] = [key |-> event.key, at |-> "add"]]
  /\ UNCHANGED <<target, jobs, tries, up, crashes, losses>>

LeaseExpires ==
  /\ event.status = "processing"
  /\ event.live
  /\ event' = [event EXCEPT !.live = FALSE]
  /\ UNCHANGED <<target, jobs, tries, hand, up, crashes, losses>>

\* publishQueue.add under the id made from the claimed message.
AddJob(w) ==
  /\ hand[w] # Idle
  /\ hand[w].at = "add"
  /\ jobs' = [jobs EXCEPT ![hand[w].key] = IF @ = "absent" THEN "waiting" ELSE @]
  /\ hand' = [hand EXCEPT ![w].at = "complete"]
  /\ UNCHANGED <<target, event, tries, up, crashes, losses>>


AddJobFails(w) ==
  /\ hand[w] # Idle
  /\ hand[w].at = "add"
  /\ hand' = [hand EXCEPT ![w].at = "fail"]
  /\ UNCHANGED <<target, event, jobs, tries, up, crashes, losses>>

\* complete and fail address the event by its id alone.
Complete(w) ==
  /\ hand[w] # Idle
  /\ hand[w].at = "complete"
  /\ event' = [event EXCEPT !.status = "processed", !.live = FALSE]
  /\ hand' = [hand EXCEPT ![w] = Idle]
  /\ UNCHANGED <<target, jobs, tries, up, crashes, losses>>

Fail(w) ==
  /\ hand[w] # Idle
  /\ hand[w].at = "fail"
  /\ event' = [event EXCEPT !.status = IF event.attempts >= MaxAttempts
                                         THEN "failed" ELSE "pending",
                            !.live = FALSE]
  /\ hand' = [hand EXCEPT ![w] = Idle]
  /\ UNCHANGED <<target, jobs, tries, up, crashes, losses>>

\* Mutant: the operator's retry takes a recovery key.
RetryRekeys ==
  /\ event.status = "failed"
  /\ event' = [event EXCEPT !.status = "pending", !.attempts = 0, !.key = 1]
  /\ UNCHANGED <<target, jobs, tries, hand, up, crashes, losses>>

\* An operator retries a failed event.
Retry ==
  /\ event.status = "failed"
  /\ event' = [event EXCEPT !.status = "pending", !.attempts = 0]
  /\ UNCHANGED <<target, jobs, tries, hand, up, crashes, losses>>

-----------------------------------------------------------------------------
(* The queue and the handler, in outline.                                  *)

StartJob(k) ==
  /\ up # {}
  /\ jobs[k] = "waiting"
  /\ jobs' = [jobs EXCEPT ![k] = "active"]
  /\ target' = IF target = "queued" THEN "publishing" ELSE target
  /\ UNCHANGED <<event, tries, hand, up, crashes, losses>>

\* The handler returns with the target published, failed or action_required,
\* or finds it so.
EndJob(k) ==
  /\ up # {}
  /\ jobs[k] = "active"
  /\ jobs' = [jobs EXCEPT ![k] = "ended"]
  /\ target' = "settled"
  /\ UNCHANGED <<event, tries, hand, up, crashes, losses>>

\* Mutant: one attempt too many.
RetryJobOnceMore(k) ==
  /\ up # {}
  /\ jobs[k] = "active"
  /\ tries' = [tries EXCEPT ![k] = @ + 1]
  /\ jobs' = [jobs EXCEPT ![k] = IF tries'[k] <= JobAttempts THEN "waiting" ELSE "exhausted"]
  /\ UNCHANGED <<target, event, hand, up, crashes, losses>>

\* The handler threw before it could settle the target (a version conflict) or
\* its process was lost: the queue retries, and stops after the last attempt.
RetryJob(k) ==
  /\ up # {}
  /\ jobs[k] = "active"
  /\ tries' = [tries EXCEPT ![k] = @ + 1]
  /\ jobs' = [jobs EXCEPT ![k] = IF tries'[k] < JobAttempts THEN "waiting" ELSE "exhausted"]
  /\ UNCHANGED <<target, event, hand, up, crashes, losses>>

CancelTarget ==
  /\ target = "queued"
  /\ target' = "settled"
  /\ UNCHANGED <<event, jobs, tries, hand, up, crashes, losses>>

-----------------------------------------------------------------------------
(* Failures and recovery.                                                  *)

Crash(w) ==
  /\ w \in up
  /\ crashes < MaxCrashes
  /\ up' = up \ {w}
  /\ hand' = [hand EXCEPT ![w] = Idle]
  /\ crashes' = crashes + 1
  /\ UNCHANGED <<target, event, jobs, tries, losses>>

\* Redis comes back empty after an outage that also stopped the workers.
LoseRedis ==
  /\ up = {}
  /\ losses < MaxLosses
  /\ jobs' = [k \in Keys |-> "absent"]
  /\ tries' = [k \in Keys |-> 0]
  /\ losses' = losses + 1
  /\ UNCHANGED <<target, event, hand, up, crashes>>

\* Mutant: only failed events are reopened.
RecoveredFailed ==
  IF target \in Unsettled /\ event.status = "failed"
    THEN [status |-> "pending", attempts |-> 0, live |-> FALSE,
          key |-> event.key + 1]
    ELSE event

\* A worker starts: recoverPublishTargets reopens a dispatched or failed event
\* of an unsettled target under a new recovery key.
Recovered ==
  IF target \in Unsettled /\ event.status \in {"processed", "failed"}
    THEN [status |-> "pending", attempts |-> 0, live |-> FALSE,
          key |-> event.key + 1]
    ELSE event

Start(w) ==
  /\ w \notin up
  /\ up' = up \cup {w}
  /\ event' = Recovered
  /\ UNCHANGED <<target, jobs, tries, hand, crashes, losses>>

-----------------------------------------------------------------------------
DispatcherStep(w) ==
  \/ ClaimAvailable(w)
  \/ AddJob(w)
  \/ AddJobFails(w)
  \/ Complete(w)
  \/ Fail(w)

Next ==
  \/ \E w \in Workers : DispatcherStep(w) \/ Crash(w) \/ Start(w)
  \/ \E k \in Keys : StartJob(k) \/ EndJob(k) \/ RetryJob(k)
  \/ LeaseExpires
  \/ Retry
  \/ CancelTarget
  \/ LoseRedis

\* The dispatch timer, the lease clock, the queue's workers and the restart
\* policy of the worker process keep going; operators, crashes, losses and
\* successful calls need not happen.
Fairness ==
  /\ \A w \in Workers : WF_vars(DispatcherStep(w)) /\ WF_vars(Start(w))
  /\ \A k \in Keys : WF_vars(StartJob(k)) /\ WF_vars(EndJob(k) \/ RetryJob(k))
  /\ WF_vars(LeaseExpires)

Spec     == Init /\ [][Next]_vars
FairSpec == Spec /\ Fairness

-----------------------------------------------------------------------------
(* Properties.                                                             *)

\* An event is marked processed only when Redis knows a job for the recovery
\* key it carries, unless the Redis data were lost since: a reopened event is
\* not closed before its own job was added.
ProcessedHasJob ==
  event.status = "processed" /\ losses = 0 => jobs[event.key] # "absent"

\* While no worker has crashed, retries of the dispatch and expired leases
\* never give the target a second job: the job id is the target id.
OneJobWithoutCrash == crashes = 0 => \A k \in Keys \ {0} : jobs[k] = "absent"

\* An unsettled target is never forgotten: its event is open or failed (where
\* an operator sees it), or some job for it is waiting, under way, or
\* visibly exhausted, or a worker is about to start and to recover it.
NeverForgotten ==
  target \in Unsettled =>
    \/ event.status # "processed"
    \/ \E k \in Keys : jobs[k] \in {"waiting", "active", "exhausted"}
    \/ up = {}

\* Every scheduled target is settled in the end, or its failure shows: an
\* event that failed for good, or a job that used up its attempts.
Delivered ==
  <>(\/ target = "settled"
     \/ event.status = "failed"
     \/ \E k \in Keys : jobs[k] = "exhausted")

-----------------------------------------------------------------------------
(* The inductive invariant, for any number of workers.                     *)

\* Every recovery key is paid for by a crash that was started from.
KeysAreCounted == event.key + Cardinality(Workers \ up) <= crashes

\* Messages in hand and jobs were made under a key the event has had, and a
\* message about to be completed has its job: Redis loses its data only when
\* no worker is up.
HandsAreServed ==
  /\ \A w \in Workers : hand[w] # Idle =>
       /\ w \in up /\ hand[w].key <= event.key
       /\ hand[w].at = "complete" => jobs[hand[w].key] # "absent"
  /\ \A k \in Keys : jobs[k] # "absent" => k <= event.key

\* A job that may run has an attempt left, one that ended settled its target.
JobsAreCounted ==
  \A k \in Keys : /\ jobs[k] \in {"absent", "waiting", "active"} => tries[k] < JobAttempts
                  /\ jobs[k] = "ended" => target = "settled"

\* A closed command has a job, while some worker is up.
ClosedHasSomeJob ==
  target \in Unsettled /\ event.status = "processed" /\ up # {} => \E k \in Keys : jobs[k] # "absent"

DeliveryInv == TypeOK /\ KeysAreCounted /\ HandsAreServed /\ JobsAreCounted /\ ClosedHasSomeJob

\* With one worker, the message in hand carries the key the event has now.
HandIsCurrent == \A w \in Workers : hand[w] # Idle => hand[w].key = event.key
=============================================================================
