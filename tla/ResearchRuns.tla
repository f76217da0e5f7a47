----------------------------- MODULE ResearchRuns -----------------------------
(***************************************************************************)
(* Source research on one content item.  The API saves a queued run and    *)
(* then, without an outbox, adds a job for it; the worker marks the run    *)
(* running, asks the research provider and records the result.  Every save *)
(* is a versioned commit of the item (module ContentStore): `current' has  *)
(* the runs whose handler still has the stored version.  A failed job is   *)
(* delivered again until its attempts are used up.                         *)
(***************************************************************************)
EXTENDS Naturals, FiniteSets

CONSTANTS Runs,          \* research runs of the item
          JobAttempts,   \* attempts of a research job
          MaxEdits,      \* bound on commits by others
          LossyEnqueue   \* may adding the job fail after the run was saved?

VARIABLES status,    \* is the item open to new research, or closed to it?
          run,       \* status of each research run
          jobs,      \* attempts left of each run's job, 0 when there is none
          pc,        \* where the handler of each run, or its API call, is
          current,   \* handlers whose copy has the stored version
          stalls,    \* times each job was found stalled
          edits

vars == <<status, run, jobs, pc, current, stalls, edits>>

MaxStalled == 1    \* the queue's default

RunStatus == {"none", "queued", "running", "completed", "failed"}

TypeOK ==
  /\ status \in {"open", "closed"}
  /\ run \in [Runs -> RunStatus]
  /\ jobs \in [Runs -> 0..JobAttempts]
  /\ pc \in [Runs -> {"idle", "enqueue", "loaded", "research", "caught", "latest", "saved"}]
  /\ current \subseteq Runs
  /\ stalls \in [Runs -> 0..MaxStalled]
  /\ edits \in 0..MaxEdits

Init ==
  /\ status = "open"
  /\ run = [s \in Runs |-> "none"]
  /\ jobs = [s \in Runs |-> 0]
  /\ pc = [s \in Runs |-> "idle"]
  /\ current = {}
  /\ stalls = [s \in Runs |-> 0]
  /\ edits = 0

-----------------------------------------------------------------------------
ActiveRuns == {s \in Runs : run[s] \in {"queued", "running"}}

Goto(s, label) == pc' = [pc EXCEPT ![s] = label]

\* Every commit of a run moves the item out of "published" and "archived".
SaveRun(s, value) ==
  /\ run' = [run EXCEPT ![s] = value]
  /\ status' = "open"

\* The job is over, by its result or by an error that forbids a retry.
EndJob(s) == jobs' = [jobs EXCEPT ![s] = 0]

\* Mutant: attempts are not counted.
EndAttemptUncounted(s) == UNCHANGED jobs

\* The attempt is over; the queue delivers the job again if one is left.
EndAttempt(s) == jobs' = [jobs EXCEPT ![s] = @ - 1]

-----------------------------------------------------------------------------
(* The API.                                                                *)

StartResearch(s) ==
  /\ run[s] = "none"
  /\ status = "open"
  /\ ActiveRuns = {}
  /\ SaveRun(s, "queued")
  /\ current' = {}
  /\ Goto(s, "enqueue")
  /\ UNCHANGED <<jobs, stalls, edits>>

Enqueue(s) ==
  /\ pc[s] = "enqueue"
  /\ jobs' = [jobs EXCEPT ![s] = JobAttempts]
  /\ Goto(s, "idle")
  /\ UNCHANGED <<status, run, current, stalls, edits>>

\* The queue is unreachable, or the process stops, after the save.
EnqueueLost(s) ==
  /\ LossyEnqueue
  /\ pc[s] = "enqueue"
  /\ Goto(s, "idle")
  /\ UNCHANGED <<status, run, jobs, current, stalls, edits>>

\* Any other commit of the item.
OtherCommit ==
  /\ edits < MaxEdits
  /\ edits' = edits + 1
  /\ status' \in {"open", "closed"}
  /\ current' = {}
  /\ UNCHANGED <<run, jobs, pc, stalls>>

-----------------------------------------------------------------------------
(* The worker.                                                             *)

AlreadyCompleted(s) ==
  /\ pc[s] = "idle" /\ jobs[s] > 0
  /\ run[s] = "completed"
  /\ EndJob(s)
  /\ UNCHANGED <<status, run, pc, current, stalls, edits>>

\* Mutant: a completed run is not noticed.
LoadAny(s) ==
  /\ pc[s] = "idle" /\ jobs[s] > 0
  /\ current' = current \cup {s}
  /\ Goto(s, "loaded")
  /\ UNCHANGED <<status, run, jobs, stalls, edits>>

Load(s) ==
  /\ pc[s] = "idle" /\ jobs[s] > 0
  /\ run[s] # "completed"
  /\ current' = current \cup {s}
  /\ Goto(s, "loaded")
  /\ UNCHANGED <<status, run, jobs, stalls, edits>>

MarkResearchRunning(s) ==
  /\ pc[s] = "loaded"
  /\ s \in current
  /\ run[s] # "running"
  /\ SaveRun(s, "running")
  /\ current' = {s}
  /\ Goto(s, "research")
  /\ UNCHANGED <<jobs, stalls, edits>>

\* A run found running was interrupted: its outcome is unknown.
FailInterrupted(s) ==
  /\ pc[s] = "loaded"
  /\ s \in current
  /\ run[s] = "running"
  /\ SaveRun(s, "failed")
  /\ current' = {}
  /\ EndJob(s)
  /\ Goto(s, "idle")
  /\ UNCHANGED <<stalls, edits>>

\* A refused save outside the try block, or in the catch block.
SaveRefused(s) ==
  /\ pc[s] \in {"loaded", "latest"}
  /\ s \notin current
  /\ EndAttempt(s)
  /\ Goto(s, "idle")
  /\ UNCHANGED <<status, run, current, stalls, edits>>

CompleteResearch(s) ==
  /\ pc[s] = "research"
  /\ s \in current
  /\ SaveRun(s, "completed")
  /\ current' = {}
  /\ Goto(s, "saved")
  /\ UNCHANGED <<jobs, stalls, edits>>

\* The handler returns and the queue removes the job.
Return(s) ==
  /\ pc[s] = "saved"
  /\ EndJob(s)
  /\ Goto(s, "idle")
  /\ UNCHANGED <<status, run, current, stalls, edits>>

\* The provider failed, or the save of its result was refused.
ResearchError(s) ==
  /\ pc[s] = "research"
  /\ Goto(s, "caught")
  /\ UNCHANGED <<status, run, jobs, current, stalls, edits>>

GetLatest(s) ==
  /\ pc[s] = "caught"
  /\ current' = current \cup {s}
  /\ Goto(s, "latest")
  /\ UNCHANGED <<status, run, jobs, stalls, edits>>

\* Only research by the local runtime forbids a retry.
FailResearch(s) ==
  /\ pc[s] = "latest"
  /\ s \in current
  /\ SaveRun(s, "failed")
  /\ current' = {}
  /\ EndJob(s) \/ EndAttempt(s)
  /\ Goto(s, "idle")
  /\ UNCHANGED <<stalls, edits>>

\* Mutant: stalled jobs are delivered again without a limit.
CrashUnlimited(s) ==
  /\ pc[s] \in {"loaded", "research", "caught", "latest", "saved"}
  /\ stalls' = [stalls EXCEPT ![s] = @ + 1]
  /\ Goto(s, "idle")
  /\ UNCHANGED <<status, run, jobs, current, edits>>

\* The worker stops.  The queue delivers a stalled job again, but only so
\* often; then it drops the job.
Crash(s) ==
  /\ pc[s] \in {"loaded", "research", "caught", "latest", "saved"}
  /\ IF stalls[s] < MaxStalled
       THEN stalls' = [stalls EXCEPT ![s] = @ + 1] /\ UNCHANGED jobs
       ELSE EndJob(s) /\ UNCHANGED stalls
  /\ Goto(s, "idle")
  /\ UNCHANGED <<status, run, current, edits>>

-----------------------------------------------------------------------------
HandlerStep(s) ==
  \/ AlreadyCompleted(s)
  \/ Load(s)
  \/ MarkResearchRunning(s)
  \/ FailInterrupted(s)
  \/ SaveRefused(s)
  \/ CompleteResearch(s)
  \/ Return(s)
  \/ ResearchError(s)
  \/ GetLatest(s)
  \/ FailResearch(s)

Next ==
  \/ OtherCommit
  \/ \E s \in Runs : \/ StartResearch(s)
                     \/ Enqueue(s)
                     \/ EnqueueLost(s)
                     \/ HandlerStep(s)
                     \/ Crash(s)

Spec == Init /\ [][Next]_vars

\* The API finishes its request; the queue delivers waiting jobs and the
\* provider call returns or times out.
FairSpec ==
  /\ Spec
  /\ \A s \in Runs : WF_vars(Enqueue(s) \/ EnqueueLost(s)) /\ WF_vars(HandlerStep(s))

-----------------------------------------------------------------------------
(* Properties.                                                             *)

\* The result of a research run is recorded once: no redelivery, retry or
\* late failure moves a completed run.
CompletedIsFinal == \A s \in Runs : run[s] = "completed" => run'[s] = "completed"

\* A research job ends, whatever the mixture of provider errors, refused
\* saves, interruptions and crashes: no delivery re-arms it.
JobEnds ==
  \A s \in Runs : (jobs[s] > 0) ~> (jobs[s] = 0 /\ pc[s] = "idle")

\* The inductive invariant: a handler runs on a job with an attempt left, and
\* up to its result on a run that is not completed.
ResearchInv ==
  /\ TypeOK
  /\ \A s \in Runs :
       /\ pc[s] \in {"loaded", "research", "caught", "latest", "saved"} => jobs[s] > 0
       /\ pc[s] \in {"loaded", "research", "caught", "latest"} => run[s] # "completed"
=============================================================================
