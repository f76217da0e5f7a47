----------------------------- MODULE BoardTasks -----------------------------
(***************************************************************************)
(* The tasks of a Board.  People write, order and review them; a manager   *)
(* releases a ready task to the Board's agent, and the worker claims that  *)
(* execution, invokes Hermes at most once and returns the result for human *)
(* review.  The Board's policy may change at any moment.                   *)
(***************************************************************************)
EXTENDS Naturals, FiniteSets

CONSTANTS Tasks, People, Managers,   \* Managers \subseteq People
          Executions,                \* ids of executions, each used once
          Deliveries,                \* deliveries of an execution's job
          Agent, Nobody, NoExecution,
          MaxEpoch                   \* bound: policy epochs of the Board

VARIABLES tasks, executions, deliveries,
          epoch,                     \* the Board's policy: configuration and capability
          settled,                   \* the profile was reconciled to it
          taskReceipts,              \* the profile's receipts
          invoked,                   \* how often Hermes ran for an execution
          handoffs                   \* executions whose result became a content item

taskVars == <<tasks, executions, deliveries, epoch, settled, taskReceipts, invoked, handoffs>>

AgentBoardTaskStatus == {"triage", "todo", "ready", "running", "blocked", "review", "done", "archived"}

AgentBoardTask ==
  [status : AgentBoardTaskStatus \cup {"none"}, assignee : {"human", "agent"}, parents : SUBSET Tasks,
   implementedBy : People \cup {Agent, Nobody}, reviewedBy : People \cup {Nobody},
   completed : BOOLEAN, active : Executions \cup {NoExecution}, last : Executions \cup {NoExecution}]

AgentBoardTaskExecutionStatus == {"none", "queued", "running", "succeeded", "failed", "uncertain"}

AgentBoardTaskExecution ==
  [status : AgentBoardTaskExecutionStatus, task : Tasks, epoch : 0..MaxEpoch,
   claim : Deliveries \cup {Nobody}, leased : BOOLEAN]

Delivery ==
  [pc : {"idle", "claimed", "calling", "executing", "returned", "finishing", "done"},
   execution : Executions \cup {NoExecution}, result : {"none", "succeeded", "failed", "uncertain"}]

NoTask == [status |-> "none", assignee |-> "human", parents |-> {}, implementedBy |-> Nobody,
           reviewedBy |-> Nobody, completed |-> FALSE, active |-> NoExecution, last |-> NoExecution]

TaskTypeOK ==
  /\ tasks \in [Tasks -> AgentBoardTask]
  /\ executions \in [Executions -> AgentBoardTaskExecution] /\ deliveries \in [Deliveries -> Delivery]
  /\ epoch \in 1..MaxEpoch /\ settled \in BOOLEAN
  /\ taskReceipts \in [Executions -> {"none", "applying", "complete"}]
  /\ invoked \in [Executions -> Nat] /\ handoffs \subseteq Executions

TaskInit ==
  /\ tasks = [t \in Tasks |-> NoTask]
  /\ executions = [e \in Executions |-> [status |-> "none", task |-> CHOOSE t \in Tasks : TRUE, epoch |-> 0,
                                         claim |-> Nobody, leased |-> FALSE]]
  /\ deliveries = [d \in Deliveries |-> [pc |-> "idle", execution |-> NoExecution, result |-> "none"]]
  /\ epoch = 1 /\ settled = FALSE
  /\ taskReceipts = [e \in Executions |-> "none"] /\ invoked = [e \in Executions |-> 0]
  /\ handoffs = {}

-----------------------------------------------------------------------------
(* Domain rules.                                                           *)

statusTransitions ==
  [none     |-> {},
   triage   |-> {"todo", "archived"},
   todo     |-> {"triage", "ready", "blocked", "archived"},
   ready    |-> {"todo", "running", "blocked", "archived"},
   running  |-> {"blocked", "review"},
   blocked  |-> {"todo", "archived"},
   review   |-> {"running", "blocked", "done"},
   done     |-> {"archived"},
   archived |-> {}]

Forward == {"ready", "running", "review", "done"}

createAgentBoardTask(parents, assignee) ==
  [NoTask EXCEPT !.status = "triage", !.parents = parents, !.assignee = assignee]

\* Mutant: the person who did the work may approve it.
mayReviseOwnWork(task, to, actor) ==
  /\ to \in statusTransitions[task.status] /\ task.active = NoExecution
  /\ task.assignee = "agent" => to # "running"
  /\ to = "archived" => actor \in Managers
  /\ to = "done" => actor \in Managers /\ task.implementedBy # Nobody

mayRevise(task, to, actor) ==
  /\ to \in statusTransitions[task.status] /\ task.active = NoExecution
  /\ task.assignee = "agent" => to # "running"
  /\ to = "archived" => actor \in Managers
  /\ to = "done" => actor \in Managers /\ task.implementedBy \notin {Nobody, actor}

reviseAgentBoardTask(task, to, actor) ==
  [task EXCEPT !.status = to, !.completed = @ \/ to = "done",
               !.implementedBy = IF to = "running" THEN actor ELSE @,
               !.reviewedBy = IF to = "done" THEN actor ELSE @]

releaseAgentBoardTaskToAgent(task, e) ==
  [task EXCEPT !.status = "running", !.implementedBy = Agent, !.active = e]

claimAgentBoardTaskExecution(execution, d) ==
  [execution EXCEPT !.status = "running", !.claim = d, !.leased = TRUE]

\* Mutant: the task takes over the status of its execution.
finishWithItsStatus(task, e, result) == [task EXCEPT !.status = result, !.active = NoExecution, !.last = e]

finishAgentBoardTaskExecution(task, e, result) ==
  [task EXCEPT !.status = IF result = "succeeded" THEN "review" ELSE "blocked",
               !.active = NoExecution, !.last = e]

expireAgentBoardTaskExecution(task, e) == finishAgentBoardTaskExecution(task, e, "uncertain")

-----------------------------------------------------------------------------
(* The store: one transaction at a time per Board.                         *)

\* Mutant: a task that was archived unfinished counts as complete.
CompleteOrArchived(t) == tasks[t].status \in {"done", "archived"}

Complete(t) == tasks[t].completed /\ tasks[t].status \in {"done", "archived"}

assertDependenciesExist(t, parents) == t \notin parents /\ \A p \in parents : tasks[p].status # "none"

assertDependenciesComplete(parents, to) == to \in Forward => \A p \in parents : Complete(p)

\* Tasks that wait for t, directly or not.
Descendants(t) ==
  LET step(S) == S \cup {c \in Tasks : tasks[c].parents \cap S # {}}
  IN  step(step(step({t})))

StoreTask(t, task) == tasks' = [tasks EXCEPT ![t] = task]

\* Work that nobody finished is archived only when no open task waits for it.
mayArchive(t, to) ==
  to = "archived" /\ ~tasks[t].completed =>
    \A c \in Tasks : t \in tasks[c].parents => tasks[c].status \in {"done", "archived"}

StoreExecution(e, execution) == executions' = [executions EXCEPT ![e] = execution]

\* The claim is still this delivery's, the lease runs, the task waits for it.
mayFinish(e, d) ==
  /\ executions[e].status = "running" /\ executions[e].claim = d /\ executions[e].leased
  /\ tasks[executions[e].task].active = e

\* Mutant: the execution is closed and its task is forgotten.
recoverExecutionOnly(e) ==
  /\ \/ executions[e].status = "running" /\ ~executions[e].leased
     \/ executions[e].status = "queued"
  /\ StoreExecution(e, [executions[e] EXCEPT !.status = "uncertain", !.claim = Nobody, !.leased = FALSE])
  /\ UNCHANGED <<tasks, deliveries, epoch, settled, taskReceipts, invoked, handoffs>>

recoverExpiredExecutions(e) ==
  /\ \/ executions[e].status = "running" /\ ~executions[e].leased
     \/ executions[e].status = "queued"
  /\ StoreExecution(e, [executions[e] EXCEPT !.status = "uncertain", !.claim = Nobody, !.leased = FALSE])
  /\ StoreTask(executions[e].task, expireAgentBoardTaskExecution(tasks[executions[e].task], e))
  /\ UNCHANGED <<deliveries, epoch, settled, taskReceipts, invoked, handoffs>>

ExecutionLeaseExpires(e) ==
  /\ executions[e].leased
  /\ StoreExecution(e, [executions[e] EXCEPT !.leased = FALSE])
  /\ UNCHANGED <<tasks, deliveries, epoch, settled, taskReceipts, invoked, handoffs>>

-----------------------------------------------------------------------------
(* People.  A request names the version of the task it saw.                *)

createTask(t) ==
  /\ tasks[t].status = "none"
  /\ \E parents \in SUBSET Tasks, assignee \in {"human", "agent"} :
       /\ assertDependenciesExist(t, parents)
       /\ StoreTask(t, createAgentBoardTask(parents, assignee))
  /\ UNCHANGED <<executions, deliveries, epoch, settled, taskReceipts, invoked, handoffs>>

updateTask(t, actor) ==
  \E to \in AgentBoardTaskStatus :
    /\ mayRevise(tasks[t], to, actor) /\ mayArchive(t, to)
    /\ assertDependenciesComplete(tasks[t].parents, to)
    /\ StoreTask(t, reviseAgentBoardTask(tasks[t], to, actor))
    /\ UNCHANGED <<executions, deliveries, epoch, settled, taskReceipts, invoked, handoffs>>

\* Other dependencies, or another assignee, while the work is not begun.
rearrangeTask(t) ==
  \E parents \in SUBSET Tasks, assignee \in {"human", "agent"} :
    /\ tasks[t].status \in {"triage", "todo", "blocked"} /\ tasks[t].active = NoExecution
    /\ assignee # tasks[t].assignee => tasks[t].status # "blocked"
    /\ assertDependenciesExist(t, parents)
    /\ parents \cap Descendants(t) = {}
    /\ StoreTask(t, [tasks[t] EXCEPT !.parents = parents, !.assignee = assignee])
    /\ UNCHANGED <<executions, deliveries, epoch, settled, taskReceipts, invoked, handoffs>>

\* The Board is ready under its current policy and no decision is pending.
mayRelease(t) ==
  /\ settled
  /\ tasks[t].status = "ready" /\ tasks[t].assignee = "agent" /\ tasks[t].active = NoExecution

releaseTask(t, e) ==
  /\ mayRelease(t) /\ executions[e].status = "none"
  /\ assertDependenciesComplete(tasks[t].parents, "running")
  /\ StoreTask(t, releaseAgentBoardTaskToAgent(tasks[t], e))
  /\ StoreExecution(e, [executions[e] EXCEPT !.status = "queued", !.task = t, !.epoch = epoch])
  /\ UNCHANGED <<deliveries, epoch, settled, taskReceipts, invoked, handoffs>>

mayHandoff(task) == task.status = "review" /\ task.assignee = "agent" /\ task.last # NoExecution

createContentHandoff(e) ==
  /\ executions[e].status = "succeeded" /\ e \notin handoffs
  /\ handoffs' = handoffs \cup {e}

\* The result of the last execution of a task in review becomes an item once.
handoffTask(t) ==
  /\ mayHandoff(tasks[t])
  /\ createContentHandoff(tasks[t].last)
  /\ UNCHANGED <<tasks, executions, deliveries, epoch, settled, taskReceipts, invoked>>

PolicyChanges ==
  /\ epoch < MaxEpoch
  /\ epoch' = epoch + 1 /\ settled' = FALSE
  /\ UNCHANGED <<tasks, executions, deliveries, taskReceipts, invoked, handoffs>>

PolicySettles ==
  /\ ~settled /\ settled' = TRUE
  /\ UNCHANGED <<tasks, executions, deliveries, epoch, taskReceipts, invoked, handoffs>>

-----------------------------------------------------------------------------
(* The worker and the profile.                                             *)

At(d, pc) == deliveries[d].pc = pc
Of(d) == deliveries[d].execution
StepTo(d, pc, result) == deliveries' = [deliveries EXCEPT ![d].pc = pc, ![d].result = result]

\* Only a queued execution of a task that waits for it can be claimed.
claimExecution(d, e) ==
  /\ At(d, "idle") /\ executions[e].status = "queued" /\ tasks[executions[e].task].active = e
  /\ StoreExecution(e, claimAgentBoardTaskExecution(executions[e], d))
  /\ deliveries' = [deliveries EXCEPT ![d] = [pc |-> "claimed", execution |-> e, result |-> "none"]]
  /\ UNCHANGED <<tasks, epoch, settled, taskReceipts, invoked, handoffs>>

\* The Board, its brand and its policy are read again before the call.
checkPolicy(d) ==
  /\ At(d, "claimed")
  /\ IF settled /\ executions[Of(d)].epoch = epoch THEN StepTo(d, "calling", "none")
     ELSE StepTo(d, "finishing", "failed")
  /\ UNCHANGED <<tasks, executions, epoch, settled, taskReceipts, invoked, handoffs>>

\* The profile is attested under the policy the execution was released with.
executeTask(e) == executions[e].epoch = epoch

TaskReceipt(e, state) == [taskReceipts EXCEPT ![e] = state]

\* The profile takes the execution id before any model work.
create_task_receipt(d) ==
  /\ At(d, "calling")
  /\ IF taskReceipts[Of(d)] = "none" /\ executeTask(Of(d))
       THEN /\ taskReceipts' = TaskReceipt(Of(d), "applying")
            /\ StepTo(d, "executing", "none")
       ELSE StepTo(d, "finishing", "uncertain") /\ UNCHANGED taskReceipts
  /\ UNCHANGED <<tasks, executions, epoch, settled, invoked, handoffs>>

\* The isolated agent runs; its answer may be unusable or its process killed.
execute(d) ==
  /\ At(d, "executing")
  /\ invoked' = [invoked EXCEPT ![Of(d)] = @ + 1]
  /\ \/ /\ taskReceipts' = TaskReceipt(Of(d), "complete")
        /\ StepTo(d, "returned", "succeeded")
     \/ StepTo(d, "finishing", "uncertain") /\ UNCHANGED taskReceipts
  /\ UNCHANGED <<tasks, executions, epoch, settled, handoffs>>

\* The Board is read once more: under another policy the result is uncertain.
recheckPolicy(d) ==
  /\ At(d, "returned")
  /\ StepTo(d, "finishing", IF settled /\ executions[Of(d)].epoch = epoch THEN "succeeded" ELSE "uncertain")
  /\ UNCHANGED <<tasks, executions, epoch, settled, taskReceipts, invoked, handoffs>>

finishExecution(d) ==
  LET e == Of(d) IN
  /\ At(d, "finishing")
  /\ IF mayFinish(e, d)
       THEN /\ StoreExecution(e, [executions[e] EXCEPT !.status = deliveries[d].result,
                                                       !.claim = Nobody, !.leased = FALSE])
            /\ StoreTask(executions[e].task,
                         finishAgentBoardTaskExecution(tasks[executions[e].task], e, deliveries[d].result))
       ELSE UNCHANGED <<tasks, executions>>
  /\ StepTo(d, "done", deliveries[d].result)
  /\ UNCHANGED <<epoch, settled, taskReceipts, invoked, handoffs>>

DeliveryStops(d) ==
  /\ deliveries[d].pc \notin {"idle", "done"}
  /\ StepTo(d, "done", "none")
  /\ UNCHANGED <<tasks, executions, epoch, settled, taskReceipts, invoked, handoffs>>

-----------------------------------------------------------------------------
TaskPeople ==
  \/ \E t \in Tasks : \/ createTask(t) \/ rearrangeTask(t) \/ handoffTask(t)
                      \/ \E actor \in People : updateTask(t, actor)
                      \/ \E e \in Executions : releaseTask(t, e)
  \/ PolicyChanges \/ PolicySettles

TaskWorker ==
  \/ \E d \in Deliveries : \/ \E e \in Executions : claimExecution(d, e)
                           \/ checkPolicy(d) \/ create_task_receipt(d) \/ execute(d)
                           \/ recheckPolicy(d) \/ finishExecution(d) \/ DeliveryStops(d)
  \/ \E e \in Executions : recoverExpiredExecutions(e) \/ ExecutionLeaseExpires(e)

TaskNext == TaskPeople \/ TaskWorker

TaskSpec == TaskInit /\ [][TaskNext]_taskVars

-----------------------------------------------------------------------------
\* Hermes runs at most once for an execution, however often its job is
\* delivered, interrupted or recovered.
InvokedOnce == \A e \in Executions : invoked[e] <= 1

\* Work is never under way before the work it depends on was approved, in any
\* order of edits, reviews and archiving.
DependenciesFinished == \A t \in Tasks : tasks[t].status \in Forward => \A p \in tasks[t].parents :
                          tasks[p].reviewedBy # Nobody /\ tasks[p].status \in {"done", "archived"}

\* Finished work was approved by a manager who did not do it.
ApprovedByAnother ==
  \A t \in Tasks : tasks[t].completed => tasks[t].reviewedBy \in Managers \ {tasks[t].implementedBy}

\* A task waits for an execution that can still answer, and for no other.
ActiveExecutionAnswers ==
  \A t \in Tasks : IF tasks[t].active = NoExecution THEN \A e \in Executions : executions[e].task = t =>
                                                           executions[e].status \notin {"queued", "running"}
                   ELSE executions[tasks[t].active].status \in {"queued", "running"} /\ tasks[t].status = "running"

\* An item is made only from a result Hermes really returned.
HandoffIsAResult == \A e \in handoffs : taskReceipts[e] = "complete" /\ invoked[e] = 1

-----------------------------------------------------------------------------
(* The inductive invariant. *)

Open == {"queued", "running"}

\* What was finished stays reviewed, and is not begun again.
TaskFits(task) ==
  task.completed => task.status \in {"done", "archived"} /\ task.reviewedBy \in Managers \ {task.implementedBy}

\* Tasks and their open executions point at each other, and work under way has complete dependencies.
TasksFit ==
  /\ tasks \in [Tasks -> AgentBoardTask] /\ executions \in [Executions -> AgentBoardTaskExecution]
  /\ \A t \in Tasks :
       /\ TaskFits(tasks[t])
       /\ tasks[t].status \in Forward => \A p \in tasks[t].parents : Complete(p)
       /\ tasks[t].active # NoExecution =>
            tasks[t].status = "running" /\ executions[tasks[t].active].task = t /\ executions[tasks[t].active].status \in Open
  /\ \A e \in Executions : executions[e].status \in Open => tasks[executions[e].task].active = e

\* A delivery calls Hermes on the receipt that it took itself, and says "succeeded" of an answer that came.
DeliveryFits(q, receipts, runs) ==
  /\ q.pc # "idle" => q.execution \in Executions
  /\ q.pc = "executing" => receipts[q.execution] = "applying" /\ runs[q.execution] = 0
  /\ q.pc = "returned" => q.result = "succeeded"
  /\ q.pc = "finishing" => q.result # "none"
  /\ q.result = "succeeded" => q.pc # "idle" /\ receipts[q.execution] = "complete"

RunsFit ==
  /\ deliveries \in [Deliveries -> Delivery] /\ taskReceipts \in [Executions -> {"none", "applying", "complete"}]
  /\ invoked \in [Executions -> {0, 1}] /\ handoffs \subseteq Executions
  /\ \A e \in Executions : /\ taskReceipts[e] = "none" => invoked[e] = 0
                           /\ taskReceipts[e] = "complete" => invoked[e] = 1
                           /\ executions[e].status = "succeeded" \/ e \in handoffs => taskReceipts[e] = "complete"
  /\ \A d \in Deliveries :
       /\ DeliveryFits(deliveries[d], taskReceipts, invoked)
       /\ \A b \in Deliveries : At(d, "executing") /\ At(b, "executing") /\ Of(d) = Of(b) => d = b

TaskInv == TasksFit /\ RunsFit /\ epoch \in 1..MaxEpoch /\ settled \in BOOLEAN
=============================================================================
