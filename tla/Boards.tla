------------------------------- MODULE Boards -------------------------------
(***************************************************************************)
(* A Board, the Hermes profile that belongs to it and the queue between    *)
(* them.  People change the Board's policy, decide on writes its agent     *)
(* asked for, and archive it; every change commits a command.  The queue   *)
(* runs one command at a time, and a stopped worker runs it again.  The    *)
(* profile keeps the policy it was sealed with and a receipt per decision. *)
(***************************************************************************)
EXTENDS Naturals, FiniteSets

CONSTANTS Decisions,        \* writes a person decides on, each under its own key
          SkillDecisions,   \* the approvals that change a skill
          NoDecision,
          MaxEpoch,         \* bound: configuration epochs
          MaxVersion        \* bound: saves of the Board before observations stop

VARIABLES board,            \* the stored Board
          profile,          \* the Hermes profile
          receipts,         \* the profile's decision receipts
          effects,          \* how often the profile applied a decision
          commands,         \* commands in the queue
          known,            \* job ids the queue remembers
          job,              \* the command being run
          chat              \* a person's direct run of the Board

boardVars == <<board, profile, receipts, effects, commands, known, job, chat>>

AgentBoardStatus == {"provisioning", "ready", "attention", "archived"}

AgentBoardPluginDecision == Decisions \cup {NoDecision}

AgentBoard ==
  [status : AgentBoardStatus, version : Nat, epoch : 1..MaxEpoch, observed : 0..MaxEpoch,
   capability : 1..MaxEpoch, applied : SUBSET Decisions, pending : AgentBoardPluginDecision,
   deactivated : BOOLEAN]

\* policy 0: no contract; seal 0: pending; tree: the skills on disk.
Profile == [policy : 0..MaxEpoch, capability : 0..MaxEpoch, seal : Nat, tree : Nat, listed : BOOLEAN]

Command == [kind : {"reconcile", "deactivate", "decision"}, epoch : 1..MaxEpoch,
            decision : AgentBoardPluginDecision]

NoJob == [pc |-> "none", version |-> 0, command |-> [kind |-> "reconcile", epoch |-> 1, decision |-> NoDecision]]

BoardTypeOK ==
  /\ board \in AgentBoard /\ profile \in Profile
  /\ receipts \in [Decisions -> {"none", "applying", "complete"}]
  /\ effects \in [Decisions -> Nat]
  /\ commands \subseteq Command /\ known \subseteq Command
  /\ job.command \in Command

Reconcile(epoch) == [kind |-> "reconcile", epoch |-> epoch, decision |-> NoDecision]

createAgentBoard ==
  [status |-> "provisioning", version |-> 1, epoch |-> 1, observed |-> 0, capability |-> 1,
   applied |-> {}, pending |-> NoDecision, deactivated |-> FALSE]

BoardInit ==
  /\ board = createAgentBoard
  /\ profile = [policy |-> 0, capability |-> 0, seal |-> 0, tree |-> 1, listed |-> FALSE]
  /\ receipts = [d \in Decisions |-> "none"] /\ effects = [d \in Decisions |-> 0]
  /\ commands = {Reconcile(1)} /\ known = {Reconcile(1)}
  /\ job = NoJob /\ chat = 0

\* A job id the queue still remembers is not added again; decisions have none.
Dispatch(command) ==
  /\ commands' = IF command \in known THEN commands ELSE commands \cup {command}
  /\ known' = IF command.kind = "decision" THEN known ELSE known \cup {command}

-----------------------------------------------------------------------------
(* Domain rules.                                                           *)

queueAgentBoardReconcile(current, rotate) ==
  [current EXCEPT !.status = "provisioning", !.version = @ + 1, !.epoch = @ + 1,
                  !.capability = IF rotate THEN @ + 1 ELSE @]

observeAgentBoardPlugin(current, epoch, healthy) ==
  IF current.status = "archived" \/ current.pending # NoDecision \/ epoch # current.epoch THEN current
  ELSE [current EXCEPT !.status = IF healthy THEN "ready" ELSE "attention", !.version = @ + 1,
                       !.observed = IF healthy THEN epoch ELSE @]

observeAgentBoardDeactivated(current) ==
  [current EXCEPT !.version = @ + 1, !.deactivated = TRUE]

queueAgentBoardPluginDecision(current, d) ==
  [current EXCEPT !.version = @ + 1, !.pending = d,
                  !.status = IF d \in SkillDecisions THEN "provisioning" ELSE @]

observeAgentBoardPluginDecision(current, d) ==
  LET changed == IF d \in SkillDecisions THEN 1 ELSE 0 IN
  [current EXCEPT !.version = @ + 1, !.applied = @ \cup {d}, !.pending = NoDecision,
                  !.status = IF changed = 1 THEN "provisioning" ELSE @,
                  !.epoch = @ + changed, !.capability = @ + changed]

reviseAgentBoard(current, archiving) ==
  [current EXCEPT !.status = IF archiving THEN "archived" ELSE "provisioning",
                  !.version = @ + 1, !.epoch = @ + 1, !.capability = @ + 1]

-----------------------------------------------------------------------------
(* People.  A request names the version it saw.                            *)

Changeable == board.status # "archived" /\ board.pending = NoDecision /\ board.epoch < MaxEpoch
              /\ board.version < MaxVersion

update ==
  /\ Changeable
  /\ \E archiving \in BOOLEAN :
       /\ board' = reviseAgentBoard(board, archiving)
       /\ Dispatch(IF archiving THEN [Reconcile(board.epoch + 1) EXCEPT !.kind = "deactivate"]
                   ELSE Reconcile(board.epoch + 1))
  /\ UNCHANGED <<profile, receipts, effects, job, chat>>

\* Other skills, all of them installed and approved: new capabilities.
skills ==
  /\ Changeable
  /\ board' = queueAgentBoardReconcile(board, TRUE)
  /\ Dispatch(Reconcile(board.epoch + 1))
  /\ UNCHANGED <<profile, receipts, effects, job, chat>>

\* Setup is tried again.
reconcile ==
  /\ Changeable
  /\ board' = queueAgentBoardReconcile(board, FALSE)
  /\ Dispatch(Reconcile(board.epoch + 1))
  /\ UNCHANGED <<profile, receipts, effects, job, chat>>

decidePendingWrite(d) ==
  /\ Changeable /\ d \notin board.applied
  /\ board' = queueAgentBoardPluginDecision(board, d)
  /\ Dispatch([kind |-> "decision", epoch |-> board.epoch, decision |-> d])
  /\ UNCHANGED <<profile, receipts, effects, job, chat>>

\* Mutant: a profile that is listed and sealed passes, whatever its policy is.
inspectAnyPolicy(epoch) == profile.seal = profile.tree /\ profile.listed

\* The profile's contract, its seal and its tools are those of this policy.
inspect(epoch) == profile.policy = epoch /\ profile.seal = profile.tree /\ profile.listed

test ==
  /\ board.status # "archived" /\ board.pending = NoDecision /\ board.version < MaxVersion
  /\ \E healthy \in {FALSE, inspect(board.epoch)} :
       board' = observeAgentBoardPlugin(board, board.epoch, healthy)
  /\ UNCHANGED <<profile, receipts, effects, commands, known, job, chat>>

BoardReady == board.status = "ready" /\ board.pending = NoDecision /\ board.observed = board.epoch

\* The profile runs a prompt only under the policy the request names.
RunsPrompt(epoch) == inspect(epoch)

\* A direct run; its result is kept, or discarded when the Board changed.
run ==
  \/ /\ chat = 0 /\ BoardReady /\ RunsPrompt(board.epoch)
     /\ chat' = board.epoch
     /\ UNCHANGED <<board, profile, receipts, effects, commands, known, job>>
  \/ /\ chat # 0 /\ chat' = 0
     /\ UNCHANGED <<board, profile, receipts, effects, commands, known, job>>

-----------------------------------------------------------------------------
(* The worker.                                                             *)

ReconcileSkips(c) == board.status = "archived" \/ board.pending # NoDecision \/ board.epoch # c.epoch

DecisionSkips(c) == board.status = "archived" \/ board.pending # c.decision \/ board.epoch # c.epoch

DeactivateSkips(c) == board.status # "archived" \/ board.epoch # c.epoch \/ board.deactivated

Skips(c) == CASE c.kind = "reconcile"  -> ReconcileSkips(c)
              [] c.kind = "decision"   -> DecisionSkips(c)
              [] c.kind = "deactivate" -> DeactivateSkips(c)

Take(c) ==
  /\ job.pc = "none" /\ c \in commands
  /\ IF Skips(c) THEN job' = NoJob /\ commands' = commands \ {c}
     ELSE job' = [pc |-> "begun", version |-> board.version, command |-> c] /\ UNCHANGED commands
  /\ UNCHANGED <<board, profile, receipts, effects, known, chat>>

Working(kind, pc) == job.pc = pc /\ job.command.kind = kind

Finished == job' = NoJob /\ commands' = commands \ {job.command}

\* Owner, policy, key, model, tools and skills are written, the seal is open.
WriteProfile ==
  /\ Working("reconcile", "begun")
  /\ profile' = [profile EXCEPT !.policy = job.command.epoch, !.capability = board.capability, !.seal = 0]
  /\ job' = [job EXCEPT !.pc = "written"]
  /\ UNCHANGED <<board, receipts, effects, commands, known, chat>>

\* The profile seals the exact skills it finds, and the gateway lists it.
seal(p) == [p EXCEPT !.seal = p.tree]

Seal ==
  /\ Working("reconcile", "written")
  /\ profile' = [seal(profile) EXCEPT !.listed = TRUE]
  /\ job' = [job EXCEPT !.pc = "sealed"]
  /\ UNCHANGED <<board, receipts, effects, commands, known, chat>>

Reconciled ==
  /\ Working("reconcile", "sealed") /\ board.version < MaxVersion
  /\ board' = IF board.version # job.version THEN board
              ELSE observeAgentBoardPlugin(board, job.command.epoch, inspect(job.command.epoch))
  /\ Finished
  /\ UNCHANGED <<profile, receipts, effects, known, chat>>

\* A request failed: the Board needs attention; the command is tried again
\* or its attempts are used up.
ReconcileFailed ==
  /\ job.command.kind = "reconcile" /\ job.pc \in {"begun", "written", "sealed"}
  /\ board.version < MaxVersion
  /\ board' = IF board.version # job.version THEN board
              ELSE observeAgentBoardPlugin(board, job.command.epoch, FALSE)
  /\ job' = NoJob /\ \E left \in {commands, commands \ {job.command}} : commands' = left
  /\ UNCHANGED <<profile, receipts, effects, known, chat>>

\* The signature names the policy and uses the key of the profile.
Authorized == profile.policy = board.epoch /\ profile.capability = board.capability

\* Mutant: the write is applied before its receipt exists.
ApplyWithoutReceipt ==
  /\ Working("decision", "begun") /\ Authorized /\ receipts[job.command.decision] = "none"
  /\ effects' = [effects EXCEPT ![job.command.decision] = @ + 1]
  /\ job' = [job EXCEPT !.pc = "applying"]
  /\ UNCHANGED <<board, profile, receipts, commands, known, chat>>

ReadReceipt == receipts[job.command.decision]

Receipt(d, state) == [receipts EXCEPT ![d] = state]

\* The receipt is written before the write is applied.
WriteReceipt ==
  /\ Working("decision", "begun") /\ Authorized /\ ReadReceipt = "none"
  /\ profile.seal # 0
  /\ receipts' = Receipt(job.command.decision, "applying")
  /\ job' = [job EXCEPT !.pc = "applying"]
  /\ UNCHANGED <<board, profile, effects, commands, known, chat>>

ApplyDecision ==
  LET d == job.command.decision IN
  /\ Working("decision", "applying")
  /\ effects' = [effects EXCEPT ![d] = @ + 1]
  /\ profile' = IF d \in SkillDecisions THEN [profile EXCEPT !.tree = @ + 1] ELSE profile
  /\ job' = [job EXCEPT !.pc = "applied"]
  /\ UNCHANGED <<board, receipts, commands, known, chat>>

\* The seal is opened, the waiting write discarded and the receipt completed.
CompleteReceipt ==
  /\ Working("decision", "applied")
  /\ profile' = IF job.command.decision \in SkillDecisions THEN [profile EXCEPT !.seal = 0] ELSE profile
  /\ receipts' = Receipt(job.command.decision, "complete")
  /\ job' = [job EXCEPT !.pc = "answered"]
  /\ UNCHANGED <<board, effects, commands, known, chat>>

\* The same decision again is answered from its receipt.
ReplayDecision ==
  /\ Working("decision", "begun") /\ Authorized /\ ReadReceipt = "complete"
  /\ job' = [job EXCEPT !.pc = "answered"]
  /\ UNCHANGED <<board, profile, receipts, effects, commands, known, chat>>

Decided ==
  LET d == job.command.decision IN
  /\ Working("decision", "answered")
  /\ IF board.pending # d
       THEN Finished /\ UNCHANGED <<board, known>>
       ELSE /\ board' = observeAgentBoardPluginDecision(board, d)
            /\ job' = NoJob
            /\ commands' = (commands \ {job.command}) \cup
                             (IF d \in SkillDecisions THEN {Reconcile(board.epoch + 1)} ELSE {})
            /\ known' = known \cup (IF d \in SkillDecisions THEN {Reconcile(board.epoch + 1)} ELSE {})
  /\ UNCHANGED <<profile, receipts, effects, chat>>

deactivate(p) == [p EXCEPT !.policy = 0, !.capability = board.capability, !.listed = FALSE]

\* The key changes, the tools are shut and the profile leaves the gateway.
Retire ==
  /\ Working("deactivate", "begun")
  /\ profile' = deactivate(profile)
  /\ job' = [job EXCEPT !.pc = "retired"]
  /\ UNCHANGED <<board, receipts, effects, commands, known, chat>>

Deactivated ==
  /\ Working("deactivate", "retired")
  /\ board' = IF board.version = job.version THEN observeAgentBoardDeactivated(board) ELSE board
  /\ Finished
  /\ UNCHANGED <<profile, receipts, effects, known, chat>>

\* The worker stops, or a request of a decision or a deactivation fails.
JobInterrupted ==
  /\ job.pc # "none"
  /\ job' = NoJob /\ \E left \in {commands, commands \ {job.command}} : commands' = left
  /\ UNCHANGED <<board, profile, receipts, effects, known, chat>>

\* Startup and periodic recovery commit the missing commands again.
recoverAgentBoardPlugins ==
  /\ IF board.pending # NoDecision /\ board.status # "archived"
       THEN Dispatch([kind |-> "decision", epoch |-> board.epoch, decision |-> board.pending])
     ELSE IF board.status \in {"provisioning", "attention"} THEN Dispatch(Reconcile(board.epoch))
     ELSE /\ board.status = "archived" /\ ~board.deactivated
          /\ Dispatch([Reconcile(board.epoch) EXCEPT !.kind = "deactivate"])
  /\ UNCHANGED <<board, profile, receipts, effects, job, chat>>

-----------------------------------------------------------------------------
BoardPeople == update \/ skills \/ reconcile \/ test \/ run \/ \E d \in Decisions : decidePendingWrite(d)

BoardWorker ==
  \/ \E c \in commands : Take(c)
  \/ WriteProfile \/ Seal \/ Reconciled
  \/ WriteReceipt \/ ApplyDecision \/ CompleteReceipt \/ ReplayDecision \/ Decided
  \/ Retire \/ Deactivated \/ recoverAgentBoardPlugins

BoardNext == BoardPeople \/ BoardWorker \/ ReconcileFailed \/ JobInterrupted

BoardSpec == BoardInit /\ [][BoardNext]_boardVars

-----------------------------------------------------------------------------
\* However often a decision's command is run, interrupted or recovered, the
\* profile applies the write at most once.
DecisionAppliedOnce == \A d \in Decisions : effects[d] <= 1

\* A Board recorded as applied a decision only if its profile did.
AppliedDecisionHappened == \A d \in board.applied : effects[d] = 1 /\ receipts[d] = "complete"

\* A Board that reads ready has a profile under its current policy, and the
\* seal covers the skills the profile really has unless it is being renewed:
\* a skill approved, interrupted or recovered never runs under an old seal.
ReadyIsSealed == BoardReady => profile.policy = board.epoch /\ profile.seal \in {0, profile.tree}

\* Once a Board counts as shut down, no late reconciliation opens its profile.
DeactivatedIsShut == board.deactivated => ~profile.listed /\ profile.policy = 0

-----------------------------------------------------------------------------
(* The inductive invariant. *)

Job == [pc : {"none", "begun", "written", "sealed", "applying", "applied", "answered", "retired"}, version : Nat,
        command : Command]

\* Capabilities change only with a policy, and a decision waits on a Board that is not archived.
PolicyFits ==
  /\ board.capability <= board.epoch /\ profile.policy <= board.epoch
  /\ board.pending # NoDecision =>
       board.epoch < MaxEpoch /\ board.status # "archived" /\ (board.pending \in SkillDecisions => board.status = "provisioning")
  /\ \A c \in commands : c.kind = "decision" => c.decision \in Decisions

ReconcileFits ==
  job.command.kind = "reconcile" =>
    /\ job.pc \in {"begun", "written", "sealed"} /\ ~ board.deactivated
    /\ profile.policy <= job.command.epoch /\ job.command.epoch <= board.epoch

DecisionFits ==
  job.command.kind = "decision" =>
    /\ job.pc \in {"begun", "applying", "applied", "answered"} /\ job.command.decision \in Decisions
    /\ board.pending = job.command.decision
    /\ job.pc \in {"applying", "applied"} => receipts[job.command.decision] = "applying"
    /\ job.pc = "applied" => effects[job.command.decision] = 1
    /\ job.pc = "answered" => receipts[job.command.decision] = "complete"

DeactivateFits ==
  job.command.kind = "deactivate" =>
    /\ job.pc \in {"begun", "retired"} /\ board.status = "archived"
    /\ job.pc = "retired" => profile.policy = 0 /\ ~ profile.listed

JobFits == job.pc # "none" => ReconcileFits /\ DecisionFits /\ DeactivateFits

\* A receipt is written before its decision is applied.
EffectsFit ==
  \A d \in Decisions :
    /\ receipts[d] = "none" => effects[d] = 0
    /\ receipts[d] = "applying" => effects[d] <= 1
    /\ receipts[d] = "applying" /\ Working("decision", "applying") /\ job.command.decision = d => effects[d] = 0
    /\ receipts[d] = "complete" => effects[d] = 1
    /\ d \in board.applied => receipts[d] = "complete"

\* What was ready stays sealed while a decision that changes no skill waits.
SealFits == board.status = "ready" /\ board.observed = board.epoch =>
              profile.policy = board.epoch /\ profile.seal \in {0, profile.tree}

ShutFits == board.deactivated => board.status = "archived" /\ ~ profile.listed /\ profile.policy = 0

BoardInv == BoardTypeOK /\ job \in Job /\ PolicyFits /\ JobFits /\ EffectsFit /\ SealFits /\ ShutFits
=============================================================================
