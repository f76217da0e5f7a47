------------------------------- MODULE MCStudio -------------------------------
(***************************************************************************)
(* The team's agents and its files, for TLC: Boards and their tasks, agent *)
(* runtimes, agent posts and the panel that publishes them, the media      *)
(* library and its folders, rendering in Creative Studio and captures      *)
(* shared from a phone.  A behaviour is one of the component that Init     *)
(* chooses; they take turns at the state variables s1, s2, ...             *)
(***************************************************************************)
EXTENDS Naturals, FiniteSets, FiniteSetTheorems, WellFoundedInduction, TLAPS

CONSTANTS Decisions, SkillDecisions, NoDecision, MaxBoardEpoch, MaxBoardVersion,    \* Boards
          Tasks, People, Managers, Executions, Deliveries, Agent, Nobody,
          NoExecution, MaxTaskEpoch,                                                \* Board tasks
          Profiles, ConfiguredOwner, RuntimeOperations, NoProfile, MaxRuntimeVersion,      \* runtimes
          Posts, PostRequests, Tickers, NoTicker, MaxEvidence,                      \* agent posts
          PanelAccounts, MaxItem, MaxCalendar, MaxOptions, MaxNow, MaxReads,        \* publishing panel
          Assets, Jobs, MaxMediaVersion,                                            \* media
          Folders, Files, Txs, Root, Nowhere, MaxDepth,                             \* folders
          Renders, Renderers, NoRequest, MaxRevision, MaxAttempts,                  \* Creative Studio
          Shares, Texts, MaxReceiptVersion                                          \* captures

ASSUME BoardAssumption == MaxBoardEpoch \in Nat \ {0} /\ SkillDecisions \subseteq Decisions /\ NoDecision \notin Decisions

ASSUME TaskAssumption ==
  /\ Tasks # {} /\ Managers \subseteq People /\ MaxTaskEpoch \in Nat \ {0}
  /\ Nobody \notin People \cup {Agent} /\ NoExecution \notin Executions

ASSUME RuntimeAssumption == ConfiguredOwner \in People /\ MaxRuntimeVersion \in Nat \ {0}

ASSUME PostAssumption == Posts # {} /\ NoTicker \notin Tickers /\ MaxEvidence \in Nat \ {0}

ASSUME PanelNumbers == MaxItem \in Nat \ {0} /\ {MaxCalendar, MaxOptions, MaxNow, MaxReads} \subseteq Nat

ASSUME MediaAssumption == Assets # {} /\ MaxMediaVersion \in Nat \ {0}

ASSUME FolderAssumption ==
  Root \notin Folders /\ Nowhere \notin Folders \cup {Root} /\ IsFiniteSet(Folders) /\ MaxDepth \in Nat \ {0}

ASSUME StudioAssumption == {MaxRevision, MaxAttempts} \subseteq Nat \ {0}

ASSUME ShareAssumption == Texts # {} /\ MaxReceiptVersion \in Nat \ {0}

VARIABLES component, s1, s2, s3, s4, s5, s6, s7, s8, s9

vars == <<component, s1, s2, s3, s4, s5, s6, s7, s8, s9>>

Board == INSTANCE Boards WITH MaxEpoch <- MaxBoardEpoch, MaxVersion <- MaxBoardVersion,
  board <- s1, profile <- s2, receipts <- s3, effects <- s4, commands <- s5, known <- s6, job <- s7, chat <- s8

Task == INSTANCE BoardTasks WITH MaxEpoch <- MaxTaskEpoch,
  tasks <- s1, executions <- s2, deliveries <- s3, epoch <- s4, settled <- s5, taskReceipts <- s6, invoked <- s7,
  handoffs <- s8

Agents == INSTANCE AgentRuntimes WITH Members <- People, Operations <- RuntimeOperations,
  authMode <- s1, profile <- s2, assigned <- s3, role <- s4, op <- s5, ledger <- s6, tested <- s7, called <- s8

Post == INSTANCE AgentPosts WITH Requests <- PostRequests,
  posts <- s1, items <- s2, generations <- s3, projects <- s4, tickers <- s5, previews <- s6, calls <- s7,
  drafted <- s8, scheduled <- s9

Panel == INSTANCE PublishPanel WITH Accounts <- PanelAccounts, Nothing <- NoRequest, Later <- {MaxNow + 1},
  item <- s1, calendar <- s2, options <- s3, now <- s4, panel <- s5, reads <- s6, call <- s7, late <- s8, made <- s9

\* No request is not an item that was read.
ASSUME PanelAssumption == NoRequest \notin Panel!Detail

Media == INSTANCE MediaLibrary WITH
  media <- s1, objects <- s2, used <- s3, late <- s4, jobs <- s5, exposed <- s6

Tree == INSTANCE MediaFolders WITH parent <- s1, filed <- s2, txs <- s3, overlapped <- s4

Studio == INSTANCE CreativeStudio WITH Requests <- Renders,
  project <- s1, renders <- s2, files <- s3, queue <- s4, requests <- s5, renderers <- s6, finishers <- s7

Share == INSTANCE ShareCapture WITH Requests <- Shares,
  receipt <- s1, late <- s2, object <- s3, asset <- s4, items <- s5, requests <- s6, stopped <- s7

Unused5 == s5 = NoRequest /\ s6 = NoRequest
Unused7 == s7 = NoRequest
Unused8 == s8 = NoRequest
Unused9 == s9 = NoRequest

Init ==
  \/ component = "boards" /\ Board!BoardInit /\ Unused9
  \/ component = "tasks" /\ Task!TaskInit /\ Unused9
  \/ component = "runtimes" /\ Agents!RuntimeInit /\ Unused9
  \/ component = "agent posts" /\ Post!AgentPostInit
  \/ component = "panel" /\ Panel!PanelInit
  \/ component = "media" /\ Media!MediaInit /\ Unused7 /\ Unused8 /\ Unused9
  \/ component = "folders" /\ Tree!FolderInit /\ Unused5 /\ Unused7 /\ Unused8 /\ Unused9
  \/ component = "studio" /\ Studio!StudioInit /\ Unused8 /\ Unused9
  \/ component = "captures" /\ Share!ShareInit /\ Unused8 /\ Unused9

BoardSteps == component = "boards" /\ Board!BoardNext /\ UNCHANGED <<component, s9>>

TaskSteps == component = "tasks" /\ Task!TaskNext /\ UNCHANGED <<component, s9>>

RuntimeSteps == component = "runtimes" /\ Agents!RuntimeNext /\ UNCHANGED <<component, s9>>

AgentPostSteps == component = "agent posts" /\ Post!AgentPostNext /\ UNCHANGED component

PanelSteps == component = "panel" /\ Panel!PanelNext /\ UNCHANGED component

MediaSteps == component = "media" /\ Media!MediaNext /\ UNCHANGED <<component, s7, s8, s9>>

FolderSteps == component = "folders" /\ Tree!FolderNext /\ UNCHANGED <<component, s5, s6, s7, s8, s9>>

StudioSteps == component = "studio" /\ Studio!StudioNext /\ UNCHANGED <<component, s8, s9>>

ShareSteps == component = "captures" /\ Share!ShareNext /\ UNCHANGED <<component, s8, s9>>

Next == BoardSteps \/ TaskSteps \/ RuntimeSteps \/ AgentPostSteps \/ PanelSteps \/ MediaSteps \/ FolderSteps
        \/ StudioSteps \/ ShareSteps

Spec == Init /\ [][Next]_vars

-----------------------------------------------------------------------------
(* Properties. *)

\* Every variable of the components keeps its type.
TypesOK ==
  CASE component = "boards"      -> Board!BoardTypeOK
    [] component = "tasks"       -> Task!TaskTypeOK
    [] component = "runtimes"    -> Agents!RuntimeTypeOK
    [] component = "agent posts" -> Post!PostTypeOK
    [] component = "panel"       -> Panel!PanelTypeOK
    [] component = "media"       -> Media!MediaTypeOK
    [] component = "folders"     -> Tree!FolderTypeOK
    [] component = "studio"      -> Studio!StudioTypeOK
    [] component = "captures"    -> Share!ShareTypeOK

\* What agents make passes a person: a task is begun when the work it waits for was approved by a manager who did not
\* do it, an item is handed over from an answer that Hermes returned, and an agent post is drafted and scheduled with
\* the evidence its reviews passed, however sources, dependencies and policies are edited while the agents work.
\* The person who confirms its publication has the very post, options and conflicts on the screen, and does so once.
AgentWorkIsReviewed ==
  /\ component = "tasks" => Task!ApprovedByAnother /\ Task!DependenciesFinished /\ Task!HandoffIsAResult
  /\ component = "agent posts" => Post!PublishedAsReviewed
  /\ component = "panel" => Panel!PreviewIsOfTheForm /\ Panel!ScheduledAsShown

\* What must not be repeated happens once, however often its job is delivered, interrupted, recovered or given up while
\* it still works: a decided write, the agent of an execution, a paid stage of a post, its draft.
AppliedOnce ==
  /\ component = "boards"      => Board!DecisionAppliedOnce /\ Board!AppliedDecisionHappened
  /\ component = "tasks"       => Task!InvokedOnce
  /\ component = "agent posts" => Post!PaidOnce /\ Post!OneDraftPerPost

\* An agent that may be called is the agent that was set up: a Board reads ready under the policy its profile has, a
\* runtime is called with the connection that passed its test and by those it belongs to, a retired profile stays shut,
\* and a task waits for an execution that can still answer.
AgentsAreReady ==
  /\ component = "boards"   => Board!ReadyIsSealed /\ Board!DeactivatedIsShut
  /\ component = "tasks"    => Task!ActiveExecutionAnswers
  /\ component = "runtimes" => Agents!HealthyWasTested /\ Agents!OnlyTestedIsCalled /\ Agents!PersonalStaysPersonal

\* Records and the files they speak of agree: a ready file is the declared one and is stored, a visual is of the current
\* revision and was finished by its lease, nothing hangs from a deleted folder, and a capture is saved with one set of
\* choices and leaves no object behind.
FilesAreWhole ==
  /\ component = "media"    => Media!ReadyIsDeclared /\ Media!ReadyKeepsObject
  /\ component = "folders"  => Tree!NothingInDeletedFolder /\ Tree!TreeUnlessOverlapped
  /\ component = "studio"   => Studio!OutputIsOfTheRevision /\ Studio!FinishedByItsLease
  /\ component = "captures" => Share!ConvertedIsSaved /\ Share!OneSetOfChoices /\ Share!NoLostObject

\* What is over does not come back: a file that was refused, that expired or that was deleted, and an item that was
\* older than the one on the screen.
EndedStaysEnded ==
  [][ /\ component = "media" => Media!EndedStaysEnded
      /\ component = "panel" => Panel!DetailNeverOlder ]_vars

-----------------------------------------------------------------------------
(* Proofs.  The media library.                                             *)

\* What the next version of a file is, field by field.
LEMMA NextIsWritten ==
  ASSUME NEW m \in Media!MediaAsset, NEW st \in Media!MediaStatus, m.version \in Nat
  PROVE  Media!next(m, st) = [status |-> st, version |-> m.version + 1, before |-> m.before, from |-> m.from]
<1> DEFINE r == [m EXCEPT !.status = st, !.version = @ + 1]
<1>1. DOMAIN m = {"status", "version", "before", "from"}
  BY DEF Media!MediaAsset
<1>2. DOMAIN r = {"status", "version", "before", "from"} /\ r.status = st /\ r.version = m.version + 1
  BY <1>1
<1>3. r.before = m.before /\ r.from = m.from
  BY <1>1
<1>4. r \in [{"status", "version", "before", "from"} -> {r[x] : x \in {"status", "version", "before", "from"}}]
  BY <1>1
<1> HIDE DEF r
<1>5. r = [status |-> st, version |-> m.version + 1, before |-> m.before, from |-> m.from]
  BY <1>2, <1>3, <1>4
<1> QED BY <1>5 DEF Media!next, r

\* A saved version of a file is a file.
LEMMA SavedRecord ==
  ASSUME NEW m \in Media!MediaAsset, m.version < MaxMediaVersion, NEW st \in Media!MediaStatus, NEW b \in Media!MediaStatus, NEW f \in Media!Origins
  PROVE  /\ Media!next(m, st) = [status |-> st, version |-> m.version + 1, before |-> m.before, from |-> m.from]
         /\ [status |-> st, version |-> m.version + 1, before |-> b, from |-> f] \in Media!MediaAsset
         /\ m.version \in Nat /\ m.before \in Media!MediaStatus /\ m.from \in Media!Origins /\ m.status \in Media!MediaStatus
         /\ m = [status |-> m.status, version |-> m.version, before |-> m.before, from |-> m.from]
<1>1. m.version \in 0..MaxMediaVersion /\ m.before \in Media!MediaStatus /\ m.from \in Media!Origins /\ m.status \in Media!MediaStatus
  BY DEF Media!MediaAsset
<1>2. m.version \in Nat /\ m.version + 1 \in 0..MaxMediaVersion
  BY <1>1, MediaAssumption
<1>3. m = [status |-> m.status, version |-> m.version, before |-> m.before, from |-> m.from]
  BY DEF Media!MediaAsset
<1>4. Media!next(m, st) = [status |-> st, version |-> m.version + 1, before |-> m.before, from |-> m.from]
  BY <1>2, NextIsWritten
<1>5. \A v \in 0..MaxMediaVersion : [status |-> st, version |-> v, before |-> b, from |-> f] \in Media!MediaAsset
  BY DEF Media!MediaAsset
<1> QED BY <1>1, <1>2, <1>3, <1>4, <1>5

\* An idle job is a job.
LEMMA IdleFits == Media!IdleJob \in Media!Job /\ Media!IdleJob.pc = "idle" /\ Media!IdleJob.asset \in Assets /\ Media!IdleJob.seen = Media!NoMedia /\ Media!NoMedia \in Media!MediaAsset
<1>1. Media!NoMedia \in Media!MediaAsset
  BY MediaAssumption DEF Media!NoMedia, Media!MediaAsset, Media!MediaStatus, Media!Origins
<1>2. (CHOOSE a \in Assets : TRUE) \in Assets
  BY MediaAssumption
<1>3. \A a \in Assets, m \in Media!MediaAsset : [pc |-> "idle", op |-> "none", asset |-> a, seen |-> m, content |-> "absent", unused |-> FALSE] \in Media!Job
  BY DEF Media!Job, Media!Operations, Media!Content
<1> QED BY <1>1, <1>2, <1>3 DEF Media!IdleJob

\* A record, its object and the jobs that speak of it move together: newer, and still fitting each other.
LEMMA RecordMoves ==
  ASSUME Media!MediaInv, NEW a \in Assets, NEW m \in Media!MediaAsset, NEW o \in [upload : Media!Content, final : Media!Content],
         m = s1[a] \/ m.version > s1[a].version,
         s1' = [s1 EXCEPT ![a] = m], s2' = [s2 EXCEPT ![a] = o],
         s6' = s6 \/ s6' = s6 \cup {a},
         Media!RecordFits(m, o.final, a \in s6'),
         s3' \subseteq Assets, s4' \in [Assets -> SUBSET {"lease", "retention"}],
         s5' \in [Jobs -> Media!Job],
         \A k \in Jobs : s5'[k] # s5[k] /\ s5'[k].pc # "idle" => s5'[k].asset = a /\ Media!JobFits(s5'[k], m, o.final, a \in s6'),
         \A k \in Jobs : s5'[k] = s5[k] /\ s5[k].pc # "idle" /\ s5[k].asset = a /\ o.final = "absent"
                        => s2[a].final = "absent" \/ a \in s6'
  PROVE  Media!MediaInv'
<1>1. /\ s1 \in [Assets -> Media!MediaAsset] /\ s2 \in [Assets -> [upload : Media!Content, final : Media!Content]]
      /\ s6 \subseteq Assets /\ s5 \in [Jobs -> Media!Job]
  BY DEF Media!MediaInv, Media!MediaTypeOK
<1>2. Media!MediaTypeOK'
  BY <1>1 DEF Media!MediaTypeOK
<1>3. \A b \in Assets : s1'[b] = IF b = a THEN m ELSE s1[b]
  BY <1>1
<1>4. \A b \in Assets : s2'[b] = IF b = a THEN o ELSE s2[b]
  BY <1>1
<1>5. \A b \in Assets : b # a => (b \in s6' <=> b \in s6)
  OBVIOUS
<1>6. \A b \in Assets : Media!RecordFits(s1[b], s2[b].final, b \in s6)'
  <2> SUFFICES ASSUME NEW b \in Assets PROVE Media!RecordFits(s1'[b], s2'[b].final, b \in s6')
    BY DEF Media!RecordFits
  <2>1. CASE b = a
    BY <2>1, <1>3, <1>4
  <2>2. CASE b # a
    <3>1. Media!RecordFits(s1[b], s2[b].final, b \in s6)
      BY DEF Media!MediaInv
    <3> QED BY <3>1, <2>2, <1>3, <1>4, <1>5 DEF Media!RecordFits
  <2> QED BY <2>1, <2>2
<1>7. \A k \in Jobs : s5'[k].pc # "idle" => Media!JobFits(s5'[k], s1'[s5'[k].asset], s2'[s5'[k].asset].final, s5'[k].asset \in s6')
  <2> SUFFICES ASSUME NEW k \in Jobs, s5'[k].pc # "idle"
               PROVE  Media!JobFits(s5'[k], s1'[s5'[k].asset], s2'[s5'[k].asset].final, s5'[k].asset \in s6')
    OBVIOUS
  <2>1. CASE s5'[k] # s5[k]
    BY <2>1, <1>3, <1>4
  <2>2. CASE s5'[k] = s5[k]
    <3> DEFINE q == s5[k]
    <3>1. q \in Media!Job /\ q.asset \in Assets /\ q.seen \in Media!MediaAsset
      BY <1>1 DEF Media!Job
    <3>2. Media!JobFits(q, s1[q.asset], s2[q.asset].final, q.asset \in s6)
      BY <2>2 DEF Media!MediaInv
    <3>3. CASE q.asset # a
      BY <3>1, <3>2, <3>3, <2>2, <1>3, <1>4, <1>5 DEF Media!JobFits
    <3>4. CASE q.asset = a
      <4>1. q.seen.version \in Nat /\ s1[a].version \in Nat /\ m.version \in Nat
        BY <3>1, <1>1, MediaAssumption DEF Media!MediaAsset
      <4>2. q.seen.version <= m.version /\ (q.seen.version = m.version => q.seen = m)
        BY <4>1, <3>2, <3>4 DEF Media!JobFits
      <4>3. q.pc \in {"copied", "scanned", "verified"} => o.final # "absent" \/ a \in s6'
        BY <3>2, <3>4, <2>2 DEF Media!JobFits
      <4>4. Media!JobFits(q, m, o.final, a \in s6')
        BY <4>2, <4>3, <3>2, <3>4 DEF Media!JobFits
      <4> QED BY <4>4, <3>4, <2>2, <1>3, <1>4
    <3> QED BY <3>3, <3>4
  <2> QED BY <2>1, <2>2
<1> QED BY <1>2, <1>6, <1>7 DEF Media!MediaInv

\* What the invariant of the library says of each file and each job.
LEMMA MediaParts ==
  ASSUME Media!MediaInv
  PROVE  /\ s1 \in [Assets -> Media!MediaAsset] /\ s2 \in [Assets -> [upload : Media!Content, final : Media!Content]]
         /\ s3 \subseteq Assets /\ s4 \in [Assets -> SUBSET {"lease", "retention"}]
         /\ s5 \in [Jobs -> Media!Job] /\ s6 \subseteq Assets
         /\ \A a \in Assets : /\ Media!RecordFits(s1[a], s2[a].final, a \in s6) /\ s1[a] \in Media!MediaAsset
                              /\ s2[a].upload \in Media!Content /\ s2[a].final \in Media!Content
                              /\ s2[a] = [upload |-> s2[a].upload, final |-> s2[a].final]
                              /\ s2[a] \in [upload : Media!Content, final : Media!Content]
         /\ \A j \in Jobs : /\ s5[j] \in Media!Job /\ s5[j].asset \in Assets /\ s5[j].seen \in Media!MediaAsset
                            /\ s5[j].pc # "idle" => Media!JobFits(s5[j], s1[s5[j].asset], s2[s5[j].asset].final, s5[j].asset \in s6)
<1>1. /\ s1 \in [Assets -> Media!MediaAsset] /\ s2 \in [Assets -> [upload : Media!Content, final : Media!Content]]
      /\ s3 \subseteq Assets /\ s4 \in [Assets -> SUBSET {"lease", "retention"}]
      /\ s5 \in [Jobs -> Media!Job] /\ s6 \subseteq Assets
  BY DEF Media!MediaInv, Media!MediaTypeOK
<1>2. \A j \in Jobs : s5[j] \in Media!Job /\ s5[j].asset \in Assets /\ s5[j].seen \in Media!MediaAsset
  BY <1>1 DEF Media!Job
<1> QED BY <1>1, <1>2 DEF Media!MediaInv

\* One job that goes on fitting its file keeps the invariant.
LEMMA JobMoves ==
  ASSUME Media!MediaInv, NEW j \in Jobs, NEW q \in Media!Job, s5' = [s5 EXCEPT ![j] = q], UNCHANGED <<s1, s2, s6>>,
         s3' \subseteq Assets, s4' = s4,
         q.pc # "idle" => Media!JobFits(q, s1[q.asset], s2[q.asset].final, q.asset \in s6)
  PROVE  Media!MediaInv'
<1>1. q.asset \in Assets
  BY DEF Media!Job
<1>2. s1' = [s1 EXCEPT ![q.asset] = s1[q.asset]] /\ s2' = [s2 EXCEPT ![q.asset] = s2[q.asset]]
  BY MediaParts
<1>3. s5' \in [Jobs -> Media!Job] /\ \A k \in Jobs : s5'[k] = IF k = j THEN q ELSE s5[k]
  BY MediaParts
<1>4. Media!RecordFits(s1[q.asset], s2[q.asset].final, q.asset \in s6')
  BY <1>1, MediaParts
<1>5. s1[q.asset] \in Media!MediaAsset /\ s2[q.asset] \in [upload : Media!Content, final : Media!Content]
  BY <1>1, MediaParts
<1>6. \A k \in Jobs : s5'[k] # s5[k] /\ s5'[k].pc # "idle" => s5'[k].asset = q.asset /\ Media!JobFits(s5'[k], s1[q.asset], s2[q.asset].final, q.asset \in s6')
  BY <1>3
<1>7. \A k \in Jobs : s5'[k] = s5[k] /\ s5[k].pc # "idle" /\ s5[k].asset = q.asset /\ s2[q.asset].final = "absent"
                           => s2[q.asset].final = "absent" \/ q.asset \in s6'
  OBVIOUS
<1>8. s4' \in [Assets -> SUBSET {"lease", "retention"}]
  BY MediaParts
<1> QED BY <1>1, <1>2, <1>3, <1>4, <1>5, <1>6, <1>7, <1>8, RecordMoves, Zenon

Pcs == {"idle", "read", "found", "copied", "scanned", "verified", "refused", "rejected", "ready", "removed"}

\* A job that goes on is a job, of the same request.
LEMMA JobGoesTo ==
  ASSUME Media!MediaInv, NEW j \in Jobs, NEW pc \in Pcs, Media!To(j, pc)
  PROVE  \E q \in Media!Job : /\ s5' = [s5 EXCEPT ![j] = q] /\ q.pc = pc /\ q.op = s5[j].op /\ q.asset = s5[j].asset
                              /\ q.seen = s5[j].seen /\ q.content = s5[j].content
<1> DEFINE q == [s5[j] EXCEPT !.pc = pc]
<1>1. s5[j] \in Media!Job
  BY MediaParts
<1>2. q \in Media!Job
  BY <1>1 DEF Media!Job, Pcs
<1>3. q.pc = pc /\ q.op = s5[j].op /\ q.asset = s5[j].asset /\ q.seen = s5[j].seen /\ q.content = s5[j].content
  BY <1>1 DEF Media!Job
<1>4. s5' = [s5 EXCEPT ![j] = q]
  BY DEF Media!To
<1> HIDE DEF q
<1> QED BY <1>2, <1>3, <1>4

\* A job that begins is a job.
LEMMA JobStarts ==
  ASSUME NEW a \in Assets, NEW op \in Media!Operations, NEW pc \in Pcs, NEW m \in Media!MediaAsset
  PROVE  /\ [Media!IdleJob EXCEPT !.pc = pc, !.op = op, !.asset = a, !.seen = m]
              = [pc |-> pc, op |-> op, asset |-> a, seen |-> m, content |-> "absent", unused |-> FALSE]
         /\ [pc |-> pc, op |-> op, asset |-> a, seen |-> m, content |-> "absent", unused |-> FALSE] \in Media!Job
<1> DEFINE dom == {"pc", "op", "asset", "seen", "content", "unused"}
           r == [Media!IdleJob EXCEPT !.pc = pc, !.op = op, !.asset = a, !.seen = m]
<1>1. [pc |-> pc, op |-> op, asset |-> a, seen |-> m, content |-> "absent", unused |-> FALSE] \in Media!Job
  BY DEF Media!Job, Pcs, Media!Content
<1>2. DOMAIN Media!IdleJob = dom /\ Media!IdleJob.content = "absent" /\ Media!IdleJob.unused = FALSE
  BY DEF Media!IdleJob
<1>3. DOMAIN r = dom /\ r.pc = pc /\ r.op = op /\ r.asset = a /\ r.seen = m
  BY <1>2
<1>4. r.content = "absent" /\ r.unused = FALSE
  BY <1>2
<1>5. r \in [dom -> {r[x] : x \in dom}]
  BY <1>2
<1> HIDE DEF r
<1>6. r = [pc |-> pc, op |-> op, asset |-> a, seen |-> m, content |-> "absent", unused |-> FALSE]
  BY <1>3, <1>4, <1>5
<1> QED BY <1>1, <1>6 DEF r

\* So is one that takes a file to the trash.
LEMMA TrashStarts ==
  ASSUME NEW a, NEW m, NEW u
  PROVE  [Media!IdleJob EXCEPT !.pc = "read", !.op = "trash", !.asset = a, !.seen = m, !.unused = u]
           = [pc |-> "read", op |-> "trash", asset |-> a, seen |-> m, content |-> "absent", unused |-> u]
<1> DEFINE dom == {"pc", "op", "asset", "seen", "content", "unused"}
           t == [Media!IdleJob EXCEPT !.pc = "read", !.op = "trash", !.asset = a, !.seen = m, !.unused = u]
<1>1. DOMAIN Media!IdleJob = dom /\ Media!IdleJob.content = "absent" /\ Media!IdleJob.unused = FALSE
  BY DEF Media!IdleJob
<1>2. DOMAIN t = dom /\ t.pc = "read" /\ t.op = "trash" /\ t.asset = a /\ t.seen = m
  BY <1>1
<1>3. t.content = "absent" /\ t.unused = u
  BY <1>1
<1>4. t \in [dom -> {t[x] : x \in dom}]
  BY <1>1
<1> HIDE DEF t
<1>5. t = [pc |-> "read", op |-> "trash", asset |-> a, seen |-> m, content |-> "absent", unused |-> u]
  BY <1>2, <1>3, <1>4
<1> QED BY <1>5 DEF t

\* A save whose version is still the stored one writes the record the job read.
LEMMA SavesFit ==
  ASSUME Media!MediaInv, NEW j \in Jobs, s5[j].pc # "idle", Media!saveFence(s5[j].asset, s5[j].seen), s5[j].seen.version < MaxMediaVersion
  PROVE  s1[s5[j].asset] = s5[j].seen /\ s5[j].seen.version \in Nat
<1>1. Media!JobFits(s5[j], s1[s5[j].asset], s2[s5[j].asset].final, s5[j].asset \in s6) /\ s5[j].seen \in Media!MediaAsset
  BY MediaParts
<1> QED BY <1>1, MediaAssumption DEF Media!JobFits, Media!saveFence, Media!MediaAsset

\* A new version of the record a job works on, and the job behind it, keep the invariant.
LEMMA RecordIsSaved ==
  ASSUME Media!MediaInv, NEW j \in Jobs, s5[j].pc # "idle", NEW q \in Media!Job, s5' = [s5 EXCEPT ![j] = q],
         NEW m \in Media!MediaAsset, s1' = [s1 EXCEPT ![s5[j].asset] = m], m.version = s1[s5[j].asset].version + 1,
         q.pc # "idle" => /\ q.asset = s5[j].asset /\ q.op = s5[j].op /\ q.seen = s5[j].seen
                          /\ q.pc \notin {"found", "copied", "scanned", "verified", "removed"},
         UNCHANGED <<s2, s3>>, s4' \in [Assets -> SUBSET {"lease", "retention"}],
         s6' = s6 \/ s6' = s6 \cup {s5[j].asset},
         Media!RecordFits(m, s2[s5[j].asset].final, s5[j].asset \in s6')
  PROVE  Media!MediaInv'
<1> DEFINE a == s5[j].asset
           o == s2[a]
<1>1. a \in Assets /\ o \in [upload : Media!Content, final : Media!Content] /\ s1[a] \in Media!MediaAsset /\ s5[j].seen \in Media!MediaAsset /\ s5[j] \in Media!Job
  BY MediaParts
<1>2. s1[a].version \in Nat /\ s5[j].seen.version \in Nat
  BY <1>1, MediaAssumption DEF Media!MediaAsset
<1>3. Media!JobFits(s5[j], s1[a], o.final, a \in s6)
  BY MediaParts
<1>4. q.pc # "idle" => Media!JobFits(q, m, o.final, a \in s6')
  <2> SUFFICES ASSUME q.pc # "idle" PROVE Media!JobFits(q, m, o.final, a \in s6')
    OBVIOUS
  <2>1. q.seen.version <= m.version /\ q.seen.version # m.version
    BY <1>2, <1>3 DEF Media!JobFits
  <2> QED BY <1>3, <2>1 DEF Media!JobFits
<1>5. s2' = [s2 EXCEPT ![a] = o]
  BY MediaParts
<1>6. s5' \in [Jobs -> Media!Job] /\ \A k \in Jobs : s5'[k] = IF k = j THEN q ELSE s5[k]
  BY MediaParts
<1>7. m.version > s1[a].version
  BY <1>2
<1>8. s3' \subseteq Assets
  BY MediaParts
<1>9. \A k \in Jobs : s5'[k] # s5[k] /\ s5'[k].pc # "idle" => s5'[k].asset = a /\ Media!JobFits(s5'[k], m, o.final, a \in s6')
  BY <1>6, <1>4
<1>10. \A k \in Jobs : s5'[k] = s5[k] /\ s5[k].pc # "idle" /\ s5[k].asset = a /\ o.final = "absent"
                           => s2[a].final = "absent" \/ a \in s6'
  OBVIOUS
<1> QED BY <1>1, <1>5, <1>6, <1>7, <1>8, <1>9, <1>10, RecordMoves

\* The first version of a file is a file.
LEMMA RecordBegins ==
  ASSUME Media!MediaInv, NEW a \in Assets, s1[a].status = "none", NEW f \in Media!Origins
  PROVE  /\ Media!next(s1[a], "pending") = [status |-> "pending", version |-> 1, before |-> s1[a].before, from |-> s1[a].from]
         /\ [status |-> "pending", version |-> 1, before |-> s1[a].before, from |-> f] \in Media!MediaAsset
         /\ s1[a].version = 0 /\ s1[a].from \in Media!Origins
<1>1. s1[a] \in Media!MediaAsset /\ Media!RecordFits(s1[a], s2[a].final, a \in s6)
  BY MediaParts
<1>2. s1[a].version = 0
  BY <1>1 DEF Media!RecordFits
<1>3. s1[a].version < MaxMediaVersion /\ "pending" \in Media!MediaStatus /\ 0 + 1 = 1
  BY <1>2, MediaAssumption DEF Media!MediaStatus
<1>4. s1[a].before \in Media!MediaStatus /\ s1[a].from \in Media!Origins
  BY <1>1 DEF Media!MediaAsset
<1> QED BY <1>1, <1>2, <1>3, <1>4, SavedRecord

\* Asking for an upload, putting its bytes and the passing of time keep the invariant.
LEMMA PeopleSteps ==
  ASSUME Media!MediaInv, NEW a \in Assets, Media!createUpload(a) \/ Media!timePasses(a) \/ \E content \in Media!Content : Media!put(a, content)
  PROVE  Media!MediaInv'
<1> DEFINE Kept(m, o) ==
             \A k \in Jobs : s5'[k] = s5[k] /\ s5[k].pc # "idle" /\ s5[k].asset = a /\ o.final = "absent"
                               => s2[a].final = "absent" \/ a \in s6'
<1>0. /\ s5' = s5 /\ s6' = s6 /\ s3' = s3 /\ s5' \in [Jobs -> Media!Job] /\ s3' \subseteq Assets
      /\ s1[a] \in Media!MediaAsset /\ s2[a] \in [upload : Media!Content, final : Media!Content] /\ s2[a].final \in Media!Content
      /\ Media!RecordFits(s1[a], s2[a].final, a \in s6) /\ s4 \in [Assets -> SUBSET {"lease", "retention"}]
      /\ s1 = [s1 EXCEPT ![a] = s1[a]] /\ s2 = [s2 EXCEPT ![a] = s2[a]]
  BY MediaParts DEF Media!createUpload, Media!timePasses, Media!put
<1>1. CASE Media!createUpload(a)
  <2> DEFINE m == Media!next(s1[a], "pending")
  <2>0. s1' = [s1 EXCEPT ![a] = m] /\ UNCHANGED <<s2, s4>> /\ s1[a].status = "none"
    BY <1>1 DEF Media!createUpload
  <2>1. /\ m = [status |-> "pending", version |-> 1, before |-> s1[a].before, from |-> s1[a].from] /\ m \in Media!MediaAsset
        /\ s1[a].version = 0 /\ m.status = "pending" /\ m.version = 1
    <3>1. s1[a].from \in Media!Origins
      BY <1>0 DEF Media!MediaAsset
    <3> QED BY <2>0, <3>1, RecordBegins
  <2> HIDE DEF m
  <2>2. Media!RecordFits(m, s2[a].final, a \in s6') /\ m.version > s1[a].version
    BY <1>0, <2>1 DEF Media!RecordFits
  <2>3. s2' = [s2 EXCEPT ![a] = s2[a]] /\ s4' \in [Assets -> SUBSET {"lease", "retention"}]
    BY <1>0, <2>0
  <2>4. \A k \in Jobs : s5'[k] # s5[k] /\ s5'[k].pc # "idle" => s5'[k].asset = a /\ Media!JobFits(s5'[k], m, s2[a].final, a \in s6')
    BY <1>0
  <2>5. \A k \in Jobs : s5'[k] = s5[k] /\ s5[k].pc # "idle" /\ s5[k].asset = a /\ s2[a].final = "absent"
                            => s2[a].final = "absent" \/ a \in s6'
    OBVIOUS
  <2>6. m \in Media!MediaAsset /\ s2[a] \in [upload : Media!Content, final : Media!Content] /\ s1' = [s1 EXCEPT ![a] = m]
    BY <1>0, <2>0, <2>1
  <2>7. s6' = s6 /\ s3' \subseteq Assets /\ s5' \in [Jobs -> Media!Job]
    BY <1>0
  <2> QED BY <2>2, <2>3, <2>4, <2>5, <2>6, <2>7, RecordMoves
<1>2. CASE Media!timePasses(a)
  <2>1. UNCHANGED <<s1, s2>> /\ s4' \in [Assets -> SUBSET {"lease", "retention"}]
    BY <1>0, <1>2 DEF Media!timePasses
  <2> QED BY <1>0, <2>1, RecordMoves
<1>3. ASSUME NEW content \in Media!Content, Media!put(a, content) PROVE Media!MediaInv'
  <2> DEFINE o == [upload |-> content, final |-> s2[a].final]
  <2>1. s2' = [s2 EXCEPT ![a] = o] /\ o \in [upload : Media!Content, final : Media!Content] /\ o.final = s2[a].final /\ UNCHANGED <<s1, s4>>
    <3>1. s2[a] = [upload |-> s2[a].upload, final |-> s2[a].final] /\ s2 \in [Assets -> [upload : Media!Content, final : Media!Content]]
      BY MediaParts
    <3>2. [s2[a] EXCEPT !.upload = content] = o
      BY <3>1
    <3>3. s2' = [s2 EXCEPT ![a] = [s2[a] EXCEPT !.upload = content]]
      BY <1>3 DEF Media!put
    <3> QED BY <1>0, <1>3, <3>2, <3>3 DEF Media!put
  <2> HIDE DEF o
  <2> QED BY <1>0, <2>1, RecordMoves
<1> QED BY <1>1, <1>2, <1>3

\* The beginning of a request or of a cleanup keeps it.
LEMMA RequestsBegin ==
  ASSUME Media!MediaInv, NEW j \in Jobs, NEW a \in Assets,
         Media!complete(j, a) \/ Media!trash(j, a) \/ Media!restore(j, a) \/ Media!cleanupDue(j, a) \/ Media!attach(j, a)
  PROVE  Media!MediaInv'
<1>1. /\ UNCHANGED <<s1, s2, s6, s3, s4>> /\ s1[a] \in Media!MediaAsset /\ s3' \subseteq Assets
      /\ s1[a].version \in Nat
  BY MediaParts, MediaAssumption DEF Media!complete, Media!trash, Media!restore, Media!cleanupDue, Media!attach,
     Media!MediaAsset
<1>2. \E op \in Media!Operations, u \in BOOLEAN :
        /\ s5' = [s5 EXCEPT ![j] = [pc |-> "read", op |-> op, asset |-> a, seen |-> s1[a], content |-> "absent", unused |-> u]]
        /\ op \in {"complete", "generate", "materialize"} => s1[a].status = "pending"
        /\ op = "restore" => s1[a].status = "trashed"
        /\ op = "trash" => s1[a].status \notin {"none", "trashed"}
        /\ op = "cleanup" => s1[a].status \in {"pending", "trashed", "cleanup_failed"}
  <2>0. /\ "complete" \in Media!Operations /\ "trash" \in Media!Operations /\ "restore" \in Media!Operations /\ "cleanup" \in Media!Operations
        /\ "attach" \in Media!Operations /\ "read" \in Pcs
    BY DEF Media!Operations, Pcs
  <2>1. CASE Media!complete(j, a)
    <3>1. [Media!IdleJob EXCEPT !.pc = "read", !.op = "complete", !.asset = a, !.seen = s1[a]]
            = [pc |-> "read", op |-> "complete", asset |-> a, seen |-> s1[a], content |-> "absent", unused |-> FALSE]
      BY <1>1, <2>0, JobStarts
    <3>2. s1[a].status = "pending"
      BY <2>1 DEF Media!complete
    <3>3. "complete" \in Media!Operations /\ FALSE \in BOOLEAN
      BY <2>0
    <3>4. s5' = [s5 EXCEPT ![j] = [pc |-> "read", op |-> "complete", asset |-> a, seen |-> s1[a], content |-> "absent", unused |-> FALSE]]
      BY <2>1, <3>1 DEF Media!complete, Media!Starts
    <3> QED BY <3>2, <3>3, <3>4
  <2>2. CASE Media!restore(j, a)
    <3>1. [Media!IdleJob EXCEPT !.pc = "read", !.op = "restore", !.asset = a, !.seen = s1[a]]
            = [pc |-> "read", op |-> "restore", asset |-> a, seen |-> s1[a], content |-> "absent", unused |-> FALSE]
      BY <1>1, <2>0, JobStarts
    <3>2. s1[a].status = "trashed"
      BY <2>2 DEF Media!restore
    <3>3. "restore" \in Media!Operations /\ FALSE \in BOOLEAN
      BY <2>0
    <3>4. s5' = [s5 EXCEPT ![j] = [pc |-> "read", op |-> "restore", asset |-> a, seen |-> s1[a], content |-> "absent", unused |-> FALSE]]
      BY <2>2, <3>1 DEF Media!restore, Media!Starts
    <3> QED BY <3>2, <3>3, <3>4
  <2>3. CASE Media!attach(j, a)
    <3>1. [Media!IdleJob EXCEPT !.pc = "read", !.op = "attach", !.asset = a, !.seen = s1[a]]
            = [pc |-> "read", op |-> "attach", asset |-> a, seen |-> s1[a], content |-> "absent", unused |-> FALSE]
      BY <1>1, <2>0, JobStarts
    <3>2. s1[a].status = "ready"
      BY <2>3 DEF Media!attach
    <3>3. "attach" \in Media!Operations /\ FALSE \in BOOLEAN
      BY <2>0
    <3>4. s5' = [s5 EXCEPT ![j] = [pc |-> "read", op |-> "attach", asset |-> a, seen |-> s1[a], content |-> "absent", unused |-> FALSE]]
      BY <2>3, <3>1 DEF Media!attach, Media!Starts
    <3> QED BY <3>2, <3>3, <3>4
  <2>4. CASE Media!cleanupDue(j, a)
    <3>1. [Media!IdleJob EXCEPT !.pc = "read", !.op = "cleanup", !.asset = a, !.seen = s1[a]]
            = [pc |-> "read", op |-> "cleanup", asset |-> a, seen |-> s1[a], content |-> "absent", unused |-> FALSE]
      BY <1>1, <2>0, JobStarts
    <3>2. s1[a].status \in {"pending", "trashed", "cleanup_failed"}
      BY <2>4 DEF Media!cleanupDue, Media!listCleanupCandidates, Media!mediaCleanupReason
    <3>3. "cleanup" \in Media!Operations /\ FALSE \in BOOLEAN
      BY <2>0
    <3>4. s5' = [s5 EXCEPT ![j] = [pc |-> "read", op |-> "cleanup", asset |-> a, seen |-> s1[a], content |-> "absent", unused |-> FALSE]]
      BY <2>4, <3>1 DEF Media!cleanupDue, Media!Starts
    <3> QED BY <3>2, <3>3, <3>4
  <2>5. CASE Media!trash(j, a)
    <3> DEFINE u == Media!references(a) = {}
    <3>1. u \in BOOLEAN
      OBVIOUS
    <3>2. s1[a].status \notin {"none", "trashed"}
      BY <2>5 DEF Media!trash
    <3>3. s5' = [s5 EXCEPT ![j] = [Media!IdleJob EXCEPT !.pc = "read", !.op = "trash", !.asset = a, !.seen = s1[a], !.unused = u]]
      BY <2>5 DEF Media!trash
    <3> HIDE DEF u
    <3>4. [Media!IdleJob EXCEPT !.pc = "read", !.op = "trash", !.asset = a, !.seen = s1[a], !.unused = u]
            = [pc |-> "read", op |-> "trash", asset |-> a, seen |-> s1[a], content |-> "absent", unused |-> u]
      BY TrashStarts, Zenon
    <3>5. s5' = [s5 EXCEPT ![j] = [pc |-> "read", op |-> "trash", asset |-> a, seen |-> s1[a], content |-> "absent", unused |-> u]]
      BY <3>3, <3>4
    <3> QED BY <2>0, <3>1, <3>2, <3>5
  <2> QED BY <2>1, <2>2, <2>3, <2>4, <2>5
<1>3. PICK op \in Media!Operations, u \in BOOLEAN :
        /\ s5' = [s5 EXCEPT ![j] = [pc |-> "read", op |-> op, asset |-> a, seen |-> s1[a], content |-> "absent", unused |-> u]]
        /\ op \in {"complete", "generate", "materialize"} => s1[a].status = "pending"
        /\ op = "restore" => s1[a].status = "trashed"
        /\ op = "trash" => s1[a].status \notin {"none", "trashed"}
        /\ op = "cleanup" => s1[a].status \in {"pending", "trashed", "cleanup_failed"}
  BY <1>2
<1> DEFINE q == [pc |-> "read", op |-> op, asset |-> a, seen |-> s1[a], content |-> "absent", unused |-> u]
<1>4. q \in Media!Job
  BY <1>1 DEF Media!Job, Media!Content
<1>5. q.pc = "read" /\ q.op = op /\ q.asset = a /\ q.seen = s1[a]
  OBVIOUS
<1> HIDE DEF q
<1>6. Media!JobFits(q, s1[q.asset], s2[q.asset].final, q.asset \in s6)
  BY <1>1, <1>3, <1>5 DEF Media!JobFits
<1>7. s5' = [s5 EXCEPT ![j] = q]
  BY <1>3 DEF q
<1> QED BY <1>1, <1>4, <1>6, <1>7, JobMoves

\* So do the answers of storage, scanner and inspection that a job waits for.
LEMMA PassesOn ==
  ASSUME Media!MediaInv, NEW j \in Jobs,
         \/ Media!readUpload(j) \/ Media!saveDraft(j) \/ Media!fails(j)
         \/ \E answer \in Media!MediaMalwareScanResult : Media!scanFinalized(j, answer)
         \/ \E answer \in Media!MediaInspectionResult : Media!inspectFinalized(j, answer)
  PROVE  Media!MediaInv'
<1> DEFINE q == s5[j]
           a == s5[j].asset
<1>1. /\ UNCHANGED <<s1, s2, s6, s4>> /\ q \in Media!Job /\ q.pc # "idle" /\ a \in Assets
      /\ Media!JobFits(q, s1[a], s2[a].final, a \in s6) /\ s3' \subseteq Assets
  BY MediaParts DEF Media!readUpload, Media!saveDraft, Media!fails, Media!scanFinalized, Media!inspectFinalized
<1>2. CASE Media!Ends(j)
  BY <1>1, <1>2, IdleFits, JobMoves DEF Media!Ends
<1>3. ASSUME NEW pc \in {"refused", "scanned", "verified"}, Media!To(j, pc), pc \in {"scanned", "verified"} => q.pc \in {"copied", "scanned"}
      PROVE  Media!MediaInv'
  <2>1. pc \in Pcs
    BY <1>3 DEF Pcs
  <2>2. PICK r \in Media!Job : /\ s5' = [s5 EXCEPT ![j] = r] /\ r.pc = pc /\ r.op = q.op /\ r.asset = a
                               /\ r.seen = q.seen /\ r.content = q.content
    BY <2>1, <1>3, JobGoesTo
  <2>3. Media!JobFits(r, s1[a], s2[a].final, a \in s6)
    BY <1>1, <1>3, <2>2 DEF Media!JobFits
  <2> QED BY <1>1, <2>2, <2>3, JobMoves
<1>4. CASE Media!readUpload(j)
  <2>1. CASE s2[a].upload = "declared"
    <3> DEFINE r == [s5[j] EXCEPT !.pc = "found", !.content = "declared"]
    <3>1. s5' = [s5 EXCEPT ![j] = r] /\ q.op = "complete"
      BY <1>4, <2>1 DEF Media!readUpload
    <3>2. r \in Media!Job /\ r.pc = "found" /\ r.op = "complete" /\ r.asset = a /\ r.seen = q.seen /\ r.content = "declared"
      BY <1>1, <3>1 DEF Media!Job, Media!Content
    <3> HIDE DEF r
    <3>3. Media!JobFits(r, s1[a], s2[a].final, a \in s6)
      BY <1>1, <3>1, <3>2 DEF Media!JobFits
    <3> QED BY <1>1, <3>1, <3>2, <3>3, JobMoves
  <2>2. CASE s2[a].upload # "declared"
    BY <1>4, <1>3, <2>2 DEF Media!readUpload
  <2> QED BY <2>1, <2>2
<1>5. CASE Media!saveDraft(j) \/ Media!fails(j)
  BY <1>2, <1>5 DEF Media!saveDraft, Media!fails
<1>6. ASSUME NEW answer \in Media!MediaMalwareScanResult, Media!scanFinalized(j, answer) PROVE Media!MediaInv'
  BY <1>3, <1>6 DEF Media!scanFinalized
<1>7. ASSUME NEW answer \in Media!MediaInspectionResult, Media!inspectFinalized(j, answer) PROVE Media!MediaInv'
  BY <1>3, <1>7 DEF Media!inspectFinalized
<1> QED BY <1>4, <1>5, <1>6, <1>7

\* A save writes the next version of the record the job read.
LEMMA SaveWrites ==
  ASSUME Media!MediaInv, NEW j \in Jobs, s5[j].pc # "idle", NEW z \in Media!MediaAsset, z.version = s5[j].seen.version,
         NEW st \in Media!MediaStatus, Media!save(s5[j].asset, z, st)
  PROVE  /\ s1[s5[j].asset] = s5[j].seen
         /\ \E m \in Media!MediaAsset :
              /\ s1' = [s1 EXCEPT ![s5[j].asset] = m] /\ m.version = s1[s5[j].asset].version + 1
              /\ m.version # 0 /\ m.status = st /\ m.before = z.before
<1> DEFINE a == s5[j].asset
           m == [status |-> st, version |-> z.version + 1, before |-> z.before, from |-> z.from]
<1>1. z.version < MaxMediaVersion /\ s1[a].version = z.version /\ s1' = [s1 EXCEPT ![a] = Media!next(z, st)]
  BY DEF Media!save, Media!saveFence
<1>2. s1[a] = s5[j].seen
  BY <1>1, SavesFit DEF Media!saveFence
<1>3. z.before \in Media!MediaStatus /\ z.from \in Media!Origins
  BY DEF Media!MediaAsset
<1>4. Media!next(z, st) = m /\ m \in Media!MediaAsset /\ z.version \in Nat
  BY <1>1, <1>3, SavedRecord
<1>5. m.version = z.version + 1 /\ m.version # 0 /\ m.status = st /\ m.before = z.before
  BY <1>4
<1> HIDE DEF m
<1> QED BY <1>1, <1>2, <1>4, <1>5

\* The steps of a job that write the record keep the invariant.
LEMMA RecordsStep ==
  ASSUME Media!MediaInv, NEW j \in Jobs,
         Media!saveReady(j) \/ Media!reject(j) \/ Media!completeMediaCleanup(j) \/ Media!failMediaCleanup(j) \/ Media!requestMediaTrash(j)
         \/ Media!restoreMediaFromTrash(j) \/ Media!materializeShareCapture(j)
  PROVE  Media!MediaInv'
<1> DEFINE q == s5[j]
           a == s5[j].asset
           seen == s5[j].seen
<1>1. /\ UNCHANGED <<s2, s3>> /\ q \in Media!Job /\ q.pc # "idle" /\ a \in Assets /\ seen \in Media!MediaAsset
      /\ s4' \in [Assets -> SUBSET {"lease", "retention"}] /\ s3' \subseteq Assets
      /\ Media!JobFits(q, s1[a], s2[a].final, a \in s6) /\ Media!RecordFits(s1[a], s2[a].final, a \in s6)
  BY MediaParts DEF Media!saveReady, Media!reject, Media!completeMediaCleanup, Media!failMediaCleanup,
     Media!requestMediaTrash, Media!restoreMediaFromTrash,
       Media!materializeShareCapture
<1>2. ASSUME UNCHANGED <<s1, s4, s6>>, Media!Ends(j) \/ Media!To(j, "refused") \/ Media!To(j, "rejected") PROVE Media!MediaInv'
  <2>1. CASE Media!Ends(j)
    BY <1>1, <1>2, <2>1, IdleFits, JobMoves DEF Media!Ends
  <2>2. ASSUME NEW pc \in {"refused", "rejected"}, Media!To(j, pc) PROVE Media!MediaInv'
    <3>1. PICK r \in Media!Job : /\ s5' = [s5 EXCEPT ![j] = r] /\ r.pc = pc /\ r.op = q.op /\ r.asset = a
                                 /\ r.seen = q.seen /\ r.content = q.content
      BY <2>2, JobGoesTo DEF Pcs
    <3>2. Media!JobFits(r, s1[a], s2[a].final, a \in s6)
      BY <1>1, <2>2, <3>1 DEF Media!JobFits
    <3> QED BY <1>1, <1>2, <3>1, <3>2, JobMoves
  <2> QED BY <1>2, <2>1, <2>2
<1>3. ASSUME NEW m \in Media!MediaAsset, s1' = [s1 EXCEPT ![a] = m], m.version = s1[a].version + 1, m.version # 0,
             s6' = s6 \/ s6' = s6 \cup {a},
             Media!Ends(j) \/ Media!To(j, "ready") \/ Media!To(j, "rejected"),
             m.status # "none", m.status = "trashed" => m.before # "none", m.before # "trashed",
             m.status = "ready" => s2[a].final # "absent" \/ a \in s6'
      PROVE  Media!MediaInv'
  <2>1. Media!RecordFits(m, s2[a].final, a \in s6')
    BY <1>1, <1>3 DEF Media!RecordFits
  <2>2. CASE Media!Ends(j)
    BY <1>1, <1>3, <2>1, <2>2, IdleFits, RecordIsSaved DEF Media!Ends
  <2>3. ASSUME NEW pc \in {"ready", "rejected"}, Media!To(j, pc) PROVE Media!MediaInv'
    <3>1. PICK r \in Media!Job : /\ s5' = [s5 EXCEPT ![j] = r] /\ r.pc = pc /\ r.op = q.op /\ r.asset = a
                                 /\ r.seen = q.seen /\ r.content = q.content
      BY <2>3, JobGoesTo DEF Pcs
    <3>2. r.pc \notin {"found", "copied", "scanned", "verified", "removed"}
      BY <2>3, <3>1
    <3> QED BY <1>1, <1>3, <2>1, <3>1, <3>2, RecordIsSaved
  <2> QED BY <1>3, <2>2, <2>3
<1>4. ASSUME NEW st \in Media!MediaStatus \ {"none", "trashed"}, Media!save(a, seen, st), Media!Ends(j) \/ Media!To(j, "ready") \/ Media!To(j, "rejected"),
             s6' = s6, st = "ready" => s2[a].final # "absent" \/ a \in s6
      PROVE  Media!MediaInv'
  <2>1. st \in Media!MediaStatus
    BY <1>4
  <2>2. /\ s1[a] = seen
        /\ \E m \in Media!MediaAsset : /\ s1' = [s1 EXCEPT ![a] = m] /\ m.version = s1[a].version + 1
                                        /\ m.version # 0 /\ m.status = st /\ m.before = seen.before
    BY <1>1, <1>4, <2>1, SaveWrites
  <2>3. PICK m \in Media!MediaAsset : /\ s1' = [s1 EXCEPT ![a] = m] /\ m.version = s1[a].version + 1
                                      /\ m.version # 0 /\ m.status = st /\ m.before = seen.before
    BY <2>2
  <2>4. m.before # "trashed"
    BY <1>1, <2>2, <2>3 DEF Media!RecordFits
  <2> QED BY <1>3, <1>4, <2>3, <2>4
<1>5. CASE Media!saveReady(j)
  <2>1. CASE Media!saveFence(a, seen)
    <3>1. s2[a].final # "absent" \/ a \in s6
      BY <1>1, <1>5 DEF Media!saveReady, Media!JobFits
    <3>2. "ready" \in Media!MediaStatus \ {"none", "trashed"}
      BY DEF Media!MediaStatus
    <3> QED BY <1>4, <1>5, <2>1, <3>1, <3>2 DEF Media!saveReady
  <2>2. CASE ~ Media!saveFence(a, seen)
    BY <1>2, <1>5, <2>2 DEF Media!saveReady
  <2> QED BY <2>1, <2>2
<1>6. CASE Media!reject(j)
  <2>1. CASE Media!saveFence(a, seen)
    <3>1. "rejected" \in Media!MediaStatus \ {"none", "trashed"}
      BY DEF Media!MediaStatus
    <3> QED BY <1>4, <1>6, <2>1, <3>1 DEF Media!reject
  <2>2. CASE ~ Media!saveFence(a, seen)
    BY <1>2, <1>6, <2>2 DEF Media!reject
  <2> QED BY <2>1, <2>2
<1>7. CASE Media!completeMediaCleanup(j)
  <2>1. "expired" \in Media!MediaStatus \ {"none", "trashed"} /\ "deleted" \in Media!MediaStatus \ {"none", "trashed"}
    BY DEF Media!MediaStatus
  <2> QED BY <1>4, <1>7, <2>1 DEF Media!completeMediaCleanup
<1>8. CASE Media!failMediaCleanup(j)
  <2>1. CASE Media!saveFence(a, seen)
    <3>1. "cleanup_failed" \in Media!MediaStatus \ {"none", "trashed"}
      BY DEF Media!MediaStatus
    <3> QED BY <1>4, <1>8, <2>1, <3>1 DEF Media!failMediaCleanup
  <2>2. CASE ~ Media!saveFence(a, seen)
    BY <1>2, <1>8, <2>2 DEF Media!failMediaCleanup
  <2> QED BY <2>1, <2>2
<1>9. CASE Media!requestMediaTrash(j)
  <2> DEFINE z == [seen EXCEPT !.before = seen.status]
  <2>1. z \in Media!MediaAsset /\ z.version = seen.version /\ z.before = seen.status /\ "trashed" \in Media!MediaStatus
    BY <1>1 DEF Media!MediaAsset, Media!MediaStatus
  <2>2. Media!save(a, z, "trashed") /\ Media!Ends(j) /\ s6' = s6 /\ q.op = "trash"
    BY <1>9 DEF Media!requestMediaTrash
  <2> HIDE DEF z
  <2>3. PICK m \in Media!MediaAsset : /\ s1' = [s1 EXCEPT ![a] = m] /\ m.version = s1[a].version + 1
                                      /\ m.version # 0 /\ m.status = "trashed" /\ m.before = seen.status
    BY <1>1, <2>1, <2>2, SaveWrites
  <2>4. seen.status \notin {"none", "trashed"}
    BY <1>1, <2>2 DEF Media!JobFits
  <2> QED BY <1>3, <2>2, <2>3, <2>4
<1>10. CASE Media!restoreMediaFromTrash(j)
  <2> DEFINE z == [seen EXCEPT !.before = "none"]
  <2>1. z \in Media!MediaAsset /\ z.version = seen.version /\ z.before = "none" /\ seen.before \in Media!MediaStatus
    BY <1>1 DEF Media!MediaAsset, Media!MediaStatus
  <2>2. Media!save(a, z, seen.before) /\ Media!Ends(j) /\ s6' = IF s2[a].final = "absent" THEN s6 \cup {a} ELSE s6
    BY <1>10 DEF Media!restoreMediaFromTrash
  <2> HIDE DEF z
  <2>3. s1[a] = seen /\ \E m \in Media!MediaAsset : /\ s1' = [s1 EXCEPT ![a] = m] /\ m.version = s1[a].version + 1
                             /\ m.version # 0 /\ m.status = seen.before /\ m.before = "none"
    BY <1>1, <2>1, <2>2, SaveWrites
  <2>4. PICK m \in Media!MediaAsset : /\ s1' = [s1 EXCEPT ![a] = m] /\ m.version = s1[a].version + 1
                                      /\ m.version # 0 /\ m.status = seen.before /\ m.before = "none"
    BY <2>3
  <2>5. m.status \notin {"none", "trashed"}
    <3>1. q.op = "restore"
      BY <1>10 DEF Media!restoreMediaFromTrash
    <3>2. seen.status = "trashed"
      BY <1>1, <3>1 DEF Media!JobFits
    <3> QED BY <1>1, <2>3, <2>4, <3>2 DEF Media!RecordFits
  <2>6. s2[a].final # "absent" \/ a \in s6'
    BY <2>2
  <2>7. s6' = s6 \/ s6' = s6 \cup {a}
    BY <2>2
  <2> QED BY <1>3, <2>2, <2>4, <2>5, <2>6, <2>7
<1>11. CASE Media!materializeShareCapture(j)
  <2>1. CASE s1[a].status = "pending"
    <3>1. Media!save(a, s1[a], "rejected") /\ Media!To(j, "rejected") /\ s6' = s6
      BY <1>11, <2>1 DEF Media!materializeShareCapture
    <3> DEFINE m == Media!next(s1[a], "rejected")
    <3>2. s1[a] \in Media!MediaAsset /\ "rejected" \in Media!MediaStatus /\ s1[a].version < MaxMediaVersion /\ s1' = [s1 EXCEPT ![a] = m]
      BY <1>1, <3>1, MediaParts DEF Media!MediaStatus, Media!save
    <3>3. s1[a].before \in Media!MediaStatus /\ s1[a].from \in Media!Origins
      BY <3>2 DEF Media!MediaAsset
    <3>4. m = [status |-> "rejected", version |-> s1[a].version + 1, before |-> s1[a].before, from |-> s1[a].from]
          /\ m \in Media!MediaAsset /\ s1[a].version \in Nat
      BY <3>2, <3>3, SavedRecord
    <3>5. m.version = s1[a].version + 1 /\ m.version # 0 /\ m.status = "rejected" /\ m.before = s1[a].before
      BY <3>4
    <3>6. s1[a].before # "trashed"
      BY <1>1 DEF Media!RecordFits
    <3> HIDE DEF m
    <3> QED BY <1>3, <3>1, <3>2, <3>4, <3>5, <3>6
  <2>2. CASE s1[a].status # "pending"
    BY <1>2, <1>11, <2>2 DEF Media!materializeShareCapture
  <2> QED BY <2>1, <2>2
<1> QED BY <1>5, <1>6, <1>7, <1>8, <1>9, <1>10, <1>11

\* So do those that write or delete an object.
LEMMA ObjectsStep ==
  ASSUME Media!MediaInv, NEW j \in Jobs,
         Media!finalize(j) \/ Media!writeGenerated(j) \/ Media!deleteUpload(j) \/ Media!deleteRejected(j) \/ Media!deleteObject(j)
  PROVE  Media!MediaInv'
<1> DEFINE q == s5[j]
           a == s5[j].asset
<1>1. /\ UNCHANGED <<s1, s3, s4>> /\ q \in Media!Job /\ q.pc # "idle" /\ a \in Assets /\ s1[a] \in Media!MediaAsset
      /\ s4' \in [Assets -> SUBSET {"lease", "retention"}] /\ s3' \subseteq Assets /\ s5 \in [Jobs -> Media!Job]
      /\ Media!JobFits(q, s1[a], s2[a].final, a \in s6) /\ Media!RecordFits(s1[a], s2[a].final, a \in s6)
      /\ s1' = [s1 EXCEPT ![a] = s1[a]] /\ s2 \in [Assets -> [upload : Media!Content, final : Media!Content]]
      /\ s2[a].upload \in Media!Content /\ s2[a].final \in Media!Content
  BY MediaParts DEF Media!finalize, Media!writeGenerated, Media!deleteUpload, Media!deleteRejected, Media!deleteObject
<1>2. ASSUME NEW o \in [upload : Media!Content, final : Media!Content], s2' = [s2 EXCEPT ![a] = o],
             NEW r \in Media!Job, s5' = [s5 EXCEPT ![j] = r],
             s6' = s6 \/ s6' = s6 \cup {a},
             Media!RecordFits(s1[a], o.final, a \in s6'),
             r.pc # "idle" => r.asset = a /\ Media!JobFits(r, s1[a], o.final, a \in s6'),
             \A k \in Jobs \ {j} : s5[k].pc # "idle" /\ s5[k].asset = a /\ o.final = "absent"
                          => s2[a].final = "absent" \/ a \in s6',
             r # q
      PROVE  Media!MediaInv'
  <2>1. s5' \in [Jobs -> Media!Job] /\ \A k \in Jobs : s5'[k] = IF k = j THEN r ELSE s5[k]
    BY <1>1, <1>2
  <2>2. \A k \in Jobs : s5'[k] # s5[k] /\ s5'[k].pc # "idle" => s5'[k].asset = a /\ Media!JobFits(s5'[k], s1[a], o.final, a \in s6')
    BY <1>2, <2>1
  <2>3. \A k \in Jobs : s5'[k] = s5[k] /\ s5[k].pc # "idle" /\ s5[k].asset = a /\ o.final = "absent"
                           => s2[a].final = "absent" \/ a \in s6'
    BY <1>2, <2>1
  <2> QED BY <1>1, <1>2, <2>1, <2>2, <2>3, RecordMoves
<1>3. s2 = [s2 EXCEPT ![a] = s2[a]] /\ s2[a] = [upload |-> s2[a].upload, final |-> s2[a].final]
      /\ s2[a] \in [upload : Media!Content, final : Media!Content]
  BY <1>1
<1>4. ASSUME NEW c \in Media!Content
      PROVE  /\ [s2 EXCEPT ![a].final = c] = [s2 EXCEPT ![a] = [upload |-> s2[a].upload, final |-> c]]
             /\ [upload |-> s2[a].upload, final |-> c] \in [upload : Media!Content, final : Media!Content]
             /\ [s2 EXCEPT ![a].upload = c] = [s2 EXCEPT ![a] = [upload |-> c, final |-> s2[a].final]]
             /\ [upload |-> c, final |-> s2[a].final] \in [upload : Media!Content, final : Media!Content]
  <2>1. [s2[a] EXCEPT !.final = c] = [upload |-> s2[a].upload, final |-> c]
    BY <1>3
  <2>2. [s2[a] EXCEPT !.upload = c] = [upload |-> c, final |-> s2[a].final]
    BY <1>3
  <2> QED BY <1>1, <2>1, <2>2
<1>5. "declared" \in Media!Content /\ "absent" \in Media!Content
  BY DEF Media!Content
<1>6. ASSUME s2' = [s2 EXCEPT ![a].final = "declared"], Media!To(j, "copied"), s6' = s6, q.pc = "found"
      PROVE  Media!MediaInv'
  <2> DEFINE o == [upload |-> s2[a].upload, final |-> "declared"]
  <2>1. s2' = [s2 EXCEPT ![a] = o] /\ o \in [upload : Media!Content, final : Media!Content] /\ o.final = "declared"
    BY <1>4, <1>5, <1>6
  <2> HIDE DEF o
  <2>2. PICK r \in Media!Job : /\ s5' = [s5 EXCEPT ![j] = r] /\ r.pc = "copied" /\ r.op = q.op /\ r.asset = a
                               /\ r.seen = q.seen /\ r.content = q.content
    BY <1>6, JobGoesTo DEF Pcs
  <2>3. Media!RecordFits(s1[a], o.final, a \in s6') /\ Media!JobFits(r, s1[a], o.final, a \in s6')
    BY <1>1, <1>6, <2>1, <2>2 DEF Media!RecordFits, Media!JobFits
  <2>4. r # q
    BY <1>6, <2>2
  <2> QED BY <1>2, <1>6, <2>1, <2>2, <2>3, <2>4
<1>7. CASE Media!finalize(j)
  <2>1. CASE s2[a].upload = q.content
    <3>1. q.content = "declared"
      BY <1>1, <1>7 DEF Media!finalize, Media!JobFits
    <3> QED BY <1>6, <1>7, <2>1, <3>1 DEF Media!finalize
  <2>2. CASE s2[a].upload # q.content
    <3>1. UNCHANGED <<s1, s2, s3, s4, s6>> /\ Media!To(j, "refused")
      BY <1>7, <2>2 DEF Media!finalize
    <3>2. PICK r \in Media!Job : /\ s5' = [s5 EXCEPT ![j] = r] /\ r.pc = "refused" /\ r.op = q.op /\ r.asset = a
                                 /\ r.seen = q.seen /\ r.content = q.content
      BY <3>1, JobGoesTo DEF Pcs
    <3>3. Media!JobFits(r, s1[a], s2[a].final, a \in s6)
      BY <1>1, <3>2 DEF Media!JobFits
    <3> QED BY <1>1, <3>1, <3>2, <3>3, JobMoves
  <2> QED BY <2>1, <2>2
<1>8. CASE Media!writeGenerated(j)
  BY <1>6, <1>8 DEF Media!writeGenerated
<1>9. CASE Media!deleteUpload(j)
  <2>1. Media!Ends(j) /\ s6' = s6
    BY <1>9 DEF Media!deleteUpload
  <2>2. CASE s2' = s2
    BY <1>1, <2>1, <2>2, IdleFits, JobMoves DEF Media!Ends
  <2>3. CASE s2' # s2
    <3> DEFINE o == [upload |-> "absent", final |-> s2[a].final]
    <3>1. s2' = [s2 EXCEPT ![a] = o] /\ o \in [upload : Media!Content, final : Media!Content] /\ o.final = s2[a].final
      BY <1>4, <1>5, <1>9, <2>3 DEF Media!deleteUpload
    <3> HIDE DEF o
    <3>2. Media!RecordFits(s1[a], o.final, a \in s6') /\ Media!IdleJob # q
      BY <1>1, <2>1, <3>1, IdleFits
    <3> QED BY <1>2, <2>1, <3>1, <3>2, IdleFits DEF Media!Ends
  <2> QED BY <2>2, <2>3
<1>10. CASE Media!deleteRejected(j)
  <2> DEFINE o == [upload |-> IF q.op = "complete" THEN "absent" ELSE s2[a].upload, final |-> "absent"]
  <2>1. s2' = [s2 EXCEPT ![a] = o] /\ o \in [upload : Media!Content, final : Media!Content] /\ o.final = "absent"
    BY <1>1, <1>5, <1>10 DEF Media!deleteRejected
  <2> HIDE DEF o
  <2>2. Media!Ends(j) /\ s6' = IF ~ Media!Alone(j) \/ s1[a].status # "rejected" THEN s6 \cup {a} ELSE s6
    BY <1>10 DEF Media!deleteRejected
  <2>3. Media!RecordFits(s1[a], o.final, a \in s6') /\ Media!IdleJob # q
    BY <1>1, <2>1, <2>2, IdleFits DEF Media!RecordFits
  <2>4. \A k \in Jobs \ {j} : s5[k].pc # "idle" /\ s5[k].asset = a => a \in s6'
    BY <2>2 DEF Media!Alone
  <2>5. s6' = s6 \/ s6' = s6 \cup {a}
    BY <2>2
  <2> QED BY <1>2, <2>1, <2>2, <2>3, <2>4, <2>5, IdleFits DEF Media!Ends
<1>11. CASE Media!deleteObject(j)
  <2> DEFINE key == IF q.seen.before = "ready" \/ q.seen.from # "upload" THEN "final" ELSE "upload"
  <2>1. /\ s2' = [s2 EXCEPT ![a][key] = "absent"] /\ Media!To(j, "removed") /\ q.op = "cleanup" /\ q.pc = "read"
        /\ s6' = IF key = "final" /\ (~ Media!Alone(j) \/ s1[a].version # q.seen.version) THEN s6 \cup {a} ELSE s6
    BY <1>11 DEF Media!deleteObject
  <2>2. key = "final" \/ key = "upload"
    OBVIOUS
  <2> HIDE DEF key
  <2>3. PICK r \in Media!Job : /\ s5' = [s5 EXCEPT ![j] = r] /\ r.pc = "removed" /\ r.op = q.op /\ r.asset = a
                               /\ r.seen = q.seen /\ r.content = q.content
    BY <2>1, JobGoesTo DEF Pcs
  <2>4. r # q
    BY <2>1, <2>3
  <2>5. \A c, ex : Media!JobFits(r, s1[a], c, ex)
    BY <1>1, <2>1, <2>3 DEF Media!JobFits
  <2>6. CASE key = "final"
    <3> DEFINE o == [upload |-> s2[a].upload, final |-> "absent"]
    <3>1. s2' = [s2 EXCEPT ![a] = o] /\ o \in [upload : Media!Content, final : Media!Content] /\ o.final = "absent"
      BY <1>4, <1>5, <2>1, <2>6
    <3> HIDE DEF o
    <3>2. s1[a].status = "ready" => a \in s6'
      BY <1>1, <2>1, <2>6 DEF Media!JobFits
    <3>3. Media!RecordFits(s1[a], o.final, a \in s6')
      BY <1>1, <3>1, <3>2 DEF Media!RecordFits
    <3>4. \A k \in Jobs \ {j} : s5[k].pc # "idle" /\ s5[k].asset = a => a \in s6'
      BY <2>1, <2>6 DEF Media!Alone
    <3>5. s6' = s6 \/ s6' = s6 \cup {a}
      BY <2>1
    <3> QED BY <1>2, <2>3, <2>4, <2>5, <3>1, <3>3, <3>4, <3>5
  <2>7. CASE key = "upload"
    <3> DEFINE o == [upload |-> "absent", final |-> s2[a].final]
    <3>1. s2' = [s2 EXCEPT ![a] = o] /\ o \in [upload : Media!Content, final : Media!Content] /\ o.final = s2[a].final
      BY <1>4, <1>5, <2>1, <2>7
    <3> HIDE DEF o
    <3>2. s6' = s6
      BY <2>1, <2>7
    <3>3. Media!RecordFits(s1[a], o.final, a \in s6')
      BY <1>1, <3>1, <3>2
    <3> QED BY <1>2, <2>3, <2>4, <2>5, <3>1, <3>2, <3>3
  <2> QED BY <2>2, <2>6, <2>7
<1> QED BY <1>7, <1>8, <1>9, <1>10, <1>11

\* So does the record of a generated file.
LEMMA GenerationBegins ==
  ASSUME Media!MediaInv, NEW j \in Jobs, NEW a \in Assets, NEW op \in {"generate", "materialize"}, Media!createGeneratedMedia(j, a, op)
  PROVE  Media!MediaInv'
<1> DEFINE q(m) == [pc |-> "found", op |-> op, asset |-> a, seen |-> m, content |-> "absent", unused |-> FALSE]
<1>1. /\ UNCHANGED <<s2, s3, s4, s6>> /\ s5[j].pc = "idle" /\ s1[a] \in Media!MediaAsset
      /\ s4' \in [Assets -> SUBSET {"lease", "retention"}] /\ s3' \subseteq Assets /\ s5 \in [Jobs -> Media!Job]
      /\ Media!RecordFits(s1[a], s2[a].final, a \in s6) /\ s2[a] \in [upload : Media!Content, final : Media!Content]
      /\ s2' = [s2 EXCEPT ![a] = s2[a]] /\ s1 \in [Assets -> Media!MediaAsset] /\ s1[a].version \in Nat
      /\ "found" \in Pcs /\ op \in Media!Operations /\ op \in Media!Origins /\ op # "none"
  BY MediaParts, MediaAssumption DEF Media!createGeneratedMedia, Pcs, Media!Operations, Media!Origins, Media!MediaAsset
<1>2. ASSUME NEW m \in Media!MediaAsset, s5' = [s5 EXCEPT ![j] = [Media!IdleJob EXCEPT !.pc = "found", !.op = op, !.asset = a, !.seen = m]],
             m.status = "pending"
      PROVE  /\ s5' = [s5 EXCEPT ![j] = q(m)] /\ q(m) \in Media!Job /\ q(m).pc = "found" /\ q(m).asset = a
             /\ Media!JobFits(q(m), m, s2[a].final, a \in s6)
  <2>0. [Media!IdleJob EXCEPT !.pc = "found", !.op = op, !.asset = a, !.seen = m] = q(m) /\ q(m) \in Media!Job
    BY <1>1, JobStarts, Zenon
  <2>1. s5' = [s5 EXCEPT ![j] = q(m)] /\ q(m) \in Media!Job
    BY <1>2, <2>0
  <2>2. q(m).pc = "found" /\ q(m).asset = a /\ q(m).op = op /\ q(m).seen = m
    OBVIOUS
  <2>3. m.version <= m.version
    BY <1>2, MediaAssumption DEF Media!MediaAsset
  <2> HIDE DEF q
  <2>4. Media!JobFits(q(m), m, s2[a].final, a \in s6)
    BY <1>2, <2>2, <2>3 DEF Media!JobFits
  <2> QED BY <2>1, <2>2, <2>4
<1>3. CASE s1[a].status = "none"
  <2> DEFINE n == Media!next(s1[a], "pending")
             m == [n EXCEPT !.from = op]
  <2>1. s1' = [s1 EXCEPT ![a] = m]
    BY <1>3 DEF Media!createGeneratedMedia
  <2>2. n = [status |-> "pending", version |-> 1, before |-> s1[a].before, from |-> s1[a].from]
        /\ [status |-> "pending", version |-> 1, before |-> s1[a].before, from |-> op] \in Media!MediaAsset /\ s1[a].version = 0
    BY <1>1, <1>3, RecordBegins
  <2>3. m = [status |-> "pending", version |-> 1, before |-> s1[a].before, from |-> op]
    BY <2>2
  <2>4. m \in Media!MediaAsset /\ m.status = "pending" /\ m.version = 1 /\ m.before = s1[a].before
    BY <2>2, <2>3
  <2> HIDE DEF m, n
  <2>5. s1'[a] = m
    BY <1>1, <2>1
  <2>6. /\ s5' = [s5 EXCEPT ![j] = q(m)] /\ q(m) \in Media!Job /\ q(m).pc = "found" /\ q(m).asset = a
        /\ Media!JobFits(q(m), m, s2[a].final, a \in s6)
    <3>1. s5' = [s5 EXCEPT ![j] = [Media!IdleJob EXCEPT !.pc = "found", !.op = op, !.asset = a, !.seen = m]]
      BY <2>5 DEF Media!createGeneratedMedia
    <3> HIDE DEF q
    <3> QED BY <1>2, <2>4, <3>1
  <2> HIDE DEF q
  <2>7. Media!RecordFits(m, s2[a].final, a \in s6') /\ m.version > s1[a].version
    BY <1>1, <2>2, <2>4 DEF Media!RecordFits
  <2>8. s5' \in [Jobs -> Media!Job] /\ \A k \in Jobs : s5'[k] = IF k = j THEN q(m) ELSE s5[k]
    BY <1>1, <2>6
  <2>9. \A k \in Jobs : s5'[k] # s5[k] /\ s5'[k].pc # "idle" => s5'[k].asset = a /\ Media!JobFits(s5'[k], m, s2[a].final, a \in s6')
    BY <1>1, <2>6, <2>8
  <2>10. \A k \in Jobs : s5'[k] = s5[k] /\ s5[k].pc # "idle" /\ s5[k].asset = a /\ s2[a].final = "absent"
                           => s2[a].final = "absent" \/ a \in s6'
    OBVIOUS
  <2>11. s6' = s6
    BY <1>1
  <2> QED BY <1>1, <2>1, <2>4, <2>7, <2>8, <2>9, <2>10, <2>11, RecordMoves
<1>4. CASE s1[a].status = "pending"
  <2>1. s1' = s1 /\ s5' = [s5 EXCEPT ![j] = [Media!IdleJob EXCEPT !.pc = "found", !.op = op, !.asset = a, !.seen = s1[a]]]
    BY <1>4 DEF Media!createGeneratedMedia
  <2> HIDE DEF q
  <2>2. /\ s5' = [s5 EXCEPT ![j] = q(s1[a])] /\ q(s1[a]) \in Media!Job /\ q(s1[a]).asset = a
        /\ Media!JobFits(q(s1[a]), s1[a], s2[a].final, a \in s6)
    BY <1>1, <1>2, <1>4, <2>1
  <2> QED BY <1>1, <2>1, <2>2, JobMoves
<1> QED BY <1>3, <1>4 DEF Media!createGeneratedMedia

\* The invariant of the library holds before the first upload.
LEMMA MediaInitially == Media!MediaInit => Media!MediaInv
<1> SUFFICES ASSUME Media!MediaInit PROVE Media!MediaInv
  OBVIOUS
<1>1. Media!NoMedia \in Media!MediaAsset /\ Media!IdleJob \in Media!Job /\ Media!IdleJob.pc = "idle"
  BY IdleFits
<1>2. Media!MediaTypeOK
  BY <1>1 DEF Media!MediaInit, Media!MediaTypeOK, Media!Content
<1>3. \A ex : Media!RecordFits(Media!NoMedia, "absent", ex)
  BY DEF Media!RecordFits, Media!NoMedia
<1>4. \A a \in Assets : s1[a] = Media!NoMedia /\ s2[a].final = "absent"
  BY DEF Media!MediaInit
<1>5. \A j \in Jobs : s5[j].pc = "idle"
  BY <1>1 DEF Media!MediaInit
<1> QED BY <1>2, <1>3, <1>4, <1>5 DEF Media!MediaInv

\* Every step of the library keeps its invariant.
LEMMA MediaMoves == Media!MediaInv /\ [Media!MediaNext]_Media!mediaVars => Media!MediaInv'
<1> SUFFICES ASSUME Media!MediaInv, [Media!MediaNext]_Media!mediaVars PROVE Media!MediaInv'
  OBVIOUS
<1>1. CASE UNCHANGED Media!mediaVars
  BY <1>1 DEF Media!MediaInv, Media!MediaTypeOK, Media!RecordFits, Media!JobFits, Media!mediaVars
<1>2. ASSUME NEW a \in Assets, Media!createUpload(a) \/ Media!timePasses(a) \/ \E content \in Media!Content : Media!put(a, content) PROVE Media!MediaInv'
  BY <1>2, PeopleSteps
<1>3. ASSUME NEW a \in Assets, NEW j \in Jobs, Media!complete(j, a) \/ Media!trash(j, a) \/ Media!restore(j, a) \/ Media!cleanupDue(j, a) \/ Media!attach(j, a)
      PROVE  Media!MediaInv'
  BY <1>3, RequestsBegin
<1>4. ASSUME NEW a \in Assets, NEW j \in Jobs, NEW op \in {"generate", "materialize"}, Media!createGeneratedMedia(j, a, op)
      PROVE  Media!MediaInv'
  BY <1>4, GenerationBegins
<1>5. ASSUME NEW j \in Jobs,
             \/ Media!readUpload(j) \/ Media!saveDraft(j) \/ Media!fails(j)
             \/ \E answer \in Media!MediaMalwareScanResult : Media!scanFinalized(j, answer)
             \/ \E answer \in Media!MediaInspectionResult : Media!inspectFinalized(j, answer)
      PROVE  Media!MediaInv'
  BY <1>5, PassesOn
<1>6. ASSUME NEW j \in Jobs, Media!finalize(j) \/ Media!writeGenerated(j) \/ Media!deleteUpload(j) \/ Media!deleteRejected(j) \/ Media!deleteObject(j)
      PROVE  Media!MediaInv'
  BY <1>6, ObjectsStep
<1>7. ASSUME NEW j \in Jobs,
             Media!saveReady(j) \/ Media!reject(j) \/ Media!completeMediaCleanup(j) \/ Media!failMediaCleanup(j) \/ Media!requestMediaTrash(j)
             \/ Media!restoreMediaFromTrash(j) \/ Media!materializeShareCapture(j)
      PROVE  Media!MediaInv'
  BY <1>7, RecordsStep
<1> QED BY <1>1, <1>2, <1>3, <1>4, <1>5, <1>6, <1>7 DEF Media!MediaNext

\* It contains what the library promises.
LEMMA MediaHolds == Media!MediaInv => Media!MediaTypeOK /\ Media!ReadyIsDeclared /\ Media!ReadyKeepsObject
  BY DEF Media!MediaInv, Media!RecordFits, Media!ReadyIsDeclared, Media!ReadyKeepsObject

\* A step of the library brings back no file that was refused, that expired or that was deleted.
LEMMA MediaEnded == Media!MediaInv /\ [Media!MediaNext]_Media!mediaVars => Media!EndedStaysEnded
<1> SUFFICES ASSUME Media!MediaInv, [Media!MediaNext]_Media!mediaVars, NEW b \in Assets, s1[b].status \in {"rejected", "expired", "deleted"}
             PROVE  s1'[b].status \notin {"pending", "ready"}
  BY DEF Media!EndedStaysEnded
<1>1. s1 \in [Assets -> Media!MediaAsset] /\ \A a \in Assets : \A m : s1' = [s1 EXCEPT ![a] = m] => s1'[b] = IF a = b THEN m ELSE s1[b]
  BY MediaParts
<1>2. CASE s1' = s1
  BY <1>2
<1>3. ASSUME NEW a \in Assets, Media!createUpload(a) \/ \E j \in Jobs, op \in {"generate", "materialize"} : Media!createGeneratedMedia(j, a, op),
             s1' # s1
      PROVE  s1'[b].status \notin {"pending", "ready"}
  <2>1. s1[a].status = "none" /\ a # b
    BY <1>3 DEF Media!createUpload, Media!createGeneratedMedia
  <2> QED BY <1>1, <1>3, <2>1 DEF Media!createUpload, Media!createGeneratedMedia
<1>4. ASSUME NEW j \in Jobs, NEW z \in Media!MediaAsset, NEW st \in Media!MediaStatus, s5[j].pc # "idle", z.version = s5[j].seen.version,
             Media!save(s5[j].asset, z, st),
             st \in {"pending", "ready"} => s5[j].seen.status \in {"pending", "trashed"}
      PROVE  s1'[b].status \notin {"pending", "ready"}
  <2>1. s1[s5[j].asset] = s5[j].seen /\ \E m \in Media!MediaAsset : s1' = [s1 EXCEPT ![s5[j].asset] = m] /\ m.status = st
    BY <1>4, SaveWrites
  <2>2. s5[j].asset \in Assets
    BY MediaParts
  <2> QED BY <1>1, <1>4, <2>1, <2>2
<1>5. ASSUME NEW j \in Jobs,
             Media!saveReady(j) \/ Media!reject(j) \/ Media!completeMediaCleanup(j) \/ Media!failMediaCleanup(j) \/ Media!requestMediaTrash(j)
             \/ Media!restoreMediaFromTrash(j) \/ Media!materializeShareCapture(j)
      PROVE  s1'[b].status \notin {"pending", "ready"}
  <2> DEFINE a == s5[j].asset
             seen == s5[j].seen
  <2>0. /\ a \in Assets /\ seen \in Media!MediaAsset /\ s5[j].pc # "idle" /\ s1[a] \in Media!MediaAsset
        /\ Media!JobFits(s5[j], s1[a], s2[a].final, a \in s6)
        /\ {"ready", "rejected", "expired", "deleted", "cleanup_failed", "trashed"} \subseteq Media!MediaStatus
    BY <1>5, MediaParts DEF Media!saveReady, Media!reject, Media!completeMediaCleanup, Media!failMediaCleanup,
       Media!requestMediaTrash,
         Media!restoreMediaFromTrash, Media!materializeShareCapture, Media!MediaStatus
  <2>1. CASE Media!saveReady(j)
    <3>1. Media!save(a, seen, "ready") \/ s1' = s1
      BY <2>1 DEF Media!saveReady
    <3>2. seen.status = "pending"
      BY <2>0, <2>1 DEF Media!saveReady, Media!JobFits
    <3> QED BY <1>2, <1>4, <2>0, <3>1, <3>2
  <2>2. CASE Media!reject(j)
    <3>1. Media!save(a, seen, "rejected") \/ s1' = s1
      BY <2>2 DEF Media!reject
    <3> QED BY <1>2, <1>4, <2>0, <3>1
  <2>3. CASE Media!completeMediaCleanup(j)
    <3>1. Media!save(a, seen, "expired") \/ Media!save(a, seen, "deleted")
      BY <2>3 DEF Media!completeMediaCleanup
    <3> QED BY <1>4, <2>0, <3>1
  <2>4. CASE Media!failMediaCleanup(j)
    <3>1. Media!save(a, seen, "cleanup_failed") \/ s1' = s1
      BY <2>4 DEF Media!failMediaCleanup
    <3> QED BY <1>2, <1>4, <2>0, <3>1
  <2>5. CASE Media!requestMediaTrash(j)
    <3> DEFINE z == [seen EXCEPT !.before = seen.status]
    <3>1. Media!save(a, z, "trashed")
      BY <2>5 DEF Media!requestMediaTrash
    <3>2. z \in Media!MediaAsset /\ z.version = seen.version
      BY <2>0 DEF Media!MediaAsset
    <3> HIDE DEF z
    <3> QED BY <1>4, <2>0, <3>1, <3>2
  <2>6. CASE Media!restoreMediaFromTrash(j)
    <3> DEFINE z == [seen EXCEPT !.before = "none"]
    <3>1. Media!save(a, z, seen.before)
      BY <2>6 DEF Media!restoreMediaFromTrash
    <3>2. z \in Media!MediaAsset /\ z.version = seen.version /\ seen.before \in Media!MediaStatus
      BY <2>0 DEF Media!MediaAsset, Media!MediaStatus
    <3>3. seen.status = "trashed"
      BY <2>0, <2>6 DEF Media!restoreMediaFromTrash, Media!JobFits
    <3> HIDE DEF z
    <3> QED BY <1>4, <2>0, <3>1, <3>2, <3>3
  <2>7. CASE Media!materializeShareCapture(j)
    <3>1. s1' = s1 \/ s1' = [s1 EXCEPT ![a] = Media!next(s1[a], "rejected")]
      BY <2>7 DEF Media!materializeShareCapture, Media!save
    <3>2. s1' # s1 => Media!next(s1[a], "rejected").status = "rejected"
      BY <2>0 DEF Media!next, Media!MediaAsset
    <3> QED BY <1>1, <1>2, <2>0, <3>1, <3>2
  <2> QED BY <1>5, <2>1, <2>2, <2>3, <2>4, <2>5, <2>6, <2>7
<1>6. CASE Media!MediaNext
  <2>1. ASSUME NEW a \in Assets, Media!timePasses(a) \/ \E content \in Media!Content : Media!put(a, content) PROVE s1' = s1
    BY <2>1 DEF Media!timePasses, Media!put
  <2>2. ASSUME NEW a \in Assets, NEW j \in Jobs, Media!complete(j, a) \/ Media!trash(j, a) \/ Media!restore(j, a) \/ Media!cleanupDue(j, a) \/ Media!attach(j, a)
        PROVE  s1' = s1
    BY <2>2 DEF Media!complete, Media!trash, Media!restore, Media!cleanupDue, Media!attach
  <2>3. ASSUME NEW j \in Jobs,
               \/ Media!readUpload(j) \/ Media!saveDraft(j) \/ Media!fails(j)
               \/ Media!finalize(j) \/ Media!writeGenerated(j) \/ Media!deleteUpload(j) \/ Media!deleteRejected(j) \/ Media!deleteObject(j)
               \/ \E answer \in Media!MediaMalwareScanResult : Media!scanFinalized(j, answer)
               \/ \E answer \in Media!MediaInspectionResult : Media!inspectFinalized(j, answer)
        PROVE  s1' = s1
    BY <2>3 DEF Media!readUpload, Media!saveDraft, Media!fails, Media!finalize, Media!writeGenerated,
       Media!deleteUpload, Media!deleteRejected, Media!deleteObject,
         Media!scanFinalized, Media!inspectFinalized
  <2> QED BY <1>2, <1>3, <1>5, <1>6, <2>1, <2>2, <2>3 DEF Media!MediaNext
<1> QED BY <1>2, <1>6 DEF Media!mediaVars

-----------------------------------------------------------------------------
(* Proofs.  The publishing panel.                                          *)

\* The constants of the panel as its module reads them.
LEMMA PanelConstants ==
  /\ {MaxNow + 1} \subseteq 1..MaxNow + 1 /\ MaxItem \in Nat \ {0}
  /\ {MaxCalendar, MaxOptions, MaxNow, MaxReads} \subseteq Nat /\ NoRequest \notin Panel!Detail
  BY PanelNumbers, PanelAssumption

\* The invariant of the panel holds when the page is opened.
LEMMA PanelInitially == Panel!PanelInit => Panel!PanelInv
<1> SUFFICES ASSUME Panel!PanelInit PROVE Panel!PanelInv
  OBVIOUS
<1>1. s1 \in Panel!Item /\ s3 \in Panel!Options /\ s4 \in 0..MaxNow /\ s2 \in 0..MaxCalendar
  BY PanelConstants DEF Panel!PanelInit, Panel!Item, Panel!Options
<1>2. s5 \in Panel!Panel
  BY PanelConstants DEF Panel!PanelInit, Panel!Panel, Panel!Form
<1>3. Panel!ScreenFits(s5)
  BY <1>2 DEF Panel!PanelInit, Panel!ScreenFits
<1> QED BY <1>1, <1>3 DEF Panel!PanelInit, Panel!PanelInv, Panel!CallFits, Panel!MadeFits

\* A call is of one of its kinds.
LEMMA CallKinds ==
  ASSUME NEW c \in Panel!Calls
  PROVE  /\ c.kind = "approve" => c \in [kind : {"approve"}, at : {"sent", "done"}, version : 1..MaxItem]
         /\ c.kind = "load" /\ c.at = "sent" => c \in [kind : {"load"}, at : {"sent"}]
         /\ c.kind = "load" /\ c.at = "done" => c \in [kind : {"load"}, at : {"done"}, detail : Panel!Detail]
         /\ c.kind = "options" => c \in [kind : {"options"}, at : {"sent", "done"}, pending : 0..MaxOptions]
         /\ c.kind = "prepare" /\ c.at = "sent" => c \in [kind : {"prepare"}, at : {"sent"}, form : Panel!Form, time : Panel!Time]
         /\ c.kind = "prepare" /\ c.at = "done" => c \in [kind : {"prepare"}, at : {"done"}, preview : Panel!Preview \cup {NoRequest}]
         /\ c.kind = "confirm" => c \in [kind : {"confirm"}, at : {"sent", "done"}, click : Panel!Click]
  BY DEF Panel!Calls

\* The calls that the panel makes are calls.
LEMMA CallsMade ==
  /\ \A at \in {"sent", "done"} : /\ \A v \in 1..MaxItem : [kind |-> "approve", at |-> at, version |-> v] \in Panel!Calls
                                  /\ \A p \in 0..MaxOptions : [kind |-> "options", at |-> at, pending |-> p] \in Panel!Calls
                                  /\ \A c \in Panel!Click : [kind |-> "confirm", at |-> at, click |-> c] \in Panel!Calls
  /\ [kind |-> "load", at |-> "sent"] \in Panel!Calls
  /\ \A d \in Panel!Detail : [kind |-> "load", at |-> "done", detail |-> d] \in Panel!Calls
  /\ \A f \in Panel!Form, t \in Panel!Time : [kind |-> "prepare", at |-> "sent", form |-> f, time |-> t] \in Panel!Calls
  /\ \A p \in Panel!Preview \cup {NoRequest} : [kind |-> "prepare", at |-> "done", preview |-> p] \in Panel!Calls
  BY DEF Panel!Calls

\* What the invariant says of the item and its targets.
LEMMA ItemTargets ==
  ASSUME Panel!PanelInv
  PROVE  /\ s1.version \in 1..MaxItem /\ s1.approved \in BOOLEAN /\ s1.targets \in [PanelAccounts -> Panel!Time \cup {0}]
         /\ \A v \in 1..MaxItem, b \in BOOLEAN : [version |-> v, approved |-> b, targets |-> s1.targets] \in Panel!Item
  BY DEF Panel!PanelInv, Panel!Item

\* Whatever changes behind the panel leaves what it shows as it was shown.
LEMMA WorldMoves ==
  ASSUME Panel!PanelInv, s1' \in Panel!Item, s1'.targets = s1.targets, s2' \in 0..MaxCalendar, s3' \in Panel!Options,
         s4' \in 0..MaxNow, s6' \subseteq Panel!Detail, s5' = s5, s7' = s7, s8' = s8, s9' = s9
  PROVE  Panel!PanelInv'
<1>1. Panel!ScreenFits(s5') /\ Panel!CallFits(s7', s5'.form) /\ Panel!MadeFits(s1'.targets, s9') /\ (s8' # NoRequest => Panel!ClickFits(s8'))
  BY DEF Panel!PanelInv
<1> QED BY <1>1 DEF Panel!PanelInv, Panel!ScreenFits, Panel!CallFits, Panel!MadeFits, Panel!ClickFits

\* An item with another version or approval is an item with the same targets.
LEMMA ItemApproved ==
  ASSUME Panel!PanelInv, s1.version < MaxItem, NEW b \in BOOLEAN
  PROVE  /\ [s1 EXCEPT !.version = @ + 1, !.approved = b] \in Panel!Item /\ [s1 EXCEPT !.version = @ + 1] \in Panel!Item
         /\ [s1 EXCEPT !.version = @ + 1, !.approved = b].targets = s1.targets
         /\ [s1 EXCEPT !.version = @ + 1].targets = s1.targets
<1>1. s1.version \in 1..MaxItem /\ s1.approved \in BOOLEAN /\ s1 \in Panel!Item
  BY ItemTargets DEF Panel!PanelInv
<1>2. s1.version + 1 \in 1..MaxItem
  BY <1>1, PanelConstants
<1> QED BY <1>1, <1>2 DEF Panel!Item

\* Edits by others, time and other readers keep the invariant.
LEMMA WorldSteps ==
  ASSUME Panel!PanelInv, Panel!editItem \/ Panel!editOptions \/ Panel!fillCalendar \/ Panel!timePasses \/ Panel!refresh
  PROVE  Panel!PanelInv'
<1>0. /\ s1 \in Panel!Item /\ s2 \in 0..MaxCalendar /\ s3 \in Panel!Options /\ s4 \in 0..MaxNow /\ s6 \subseteq Panel!Detail
      /\ s3.number \in 0..MaxOptions /\ s3.approved \in BOOLEAN
  BY DEF Panel!PanelInv, Panel!Options
<1>1. CASE Panel!editItem
  BY <1>0, <1>1, ItemApproved, WorldMoves DEF Panel!editItem
<1>2. CASE Panel!editOptions
  <2>1. ASSUME Panel!newOptions PROVE s3' \in Panel!Options /\ s1' = s1
    <3>1. s3.number + 1 \in 0..MaxOptions
      BY <1>0, <2>1, PanelConstants DEF Panel!newOptions
    <3> QED BY <2>1, <3>1 DEF Panel!newOptions, Panel!Options
  <2>2. ASSUME Panel!approveOptions(s3.number) PROVE s3' \in Panel!Options /\ s1' \in Panel!Item /\ s1'.targets = s1.targets
    <3>1. [s3 EXCEPT !.approved = TRUE] \in Panel!Options
      BY <1>0 DEF Panel!Options
    <3> QED BY <2>2, <3>1, ItemApproved DEF Panel!approveOptions
  <2> QED BY <1>0, <1>2, <2>1, <2>2, WorldMoves DEF Panel!editOptions
<1>3. CASE Panel!fillCalendar
  <2>1. s2' \in 0..MaxCalendar
    BY <1>0, <1>3, PanelConstants DEF Panel!fillCalendar
  <2> QED BY <1>0, <1>3, <2>1, WorldMoves DEF Panel!fillCalendar
<1>4. CASE Panel!timePasses
  <2>1. s4' \in 0..MaxNow
    BY <1>0, <1>4, PanelConstants DEF Panel!timePasses
  <2> QED BY <1>0, <1>4, <2>1, WorldMoves DEF Panel!timePasses
<1>5. CASE Panel!refresh
  <2>1. Panel!publication \in Panel!Detail
    BY <1>0, ItemTargets, PanelConstants DEF Panel!publication, Panel!Detail
  <2>2. s6' \subseteq Panel!Detail
    BY <1>0, <1>5, <2>1 DEF Panel!refresh
  <2> QED BY <1>0, <1>5, <2>2, WorldMoves DEF Panel!refresh
<1> QED BY <1>1, <1>2, <1>3, <1>4, <1>5

\* A change of the screen alone keeps the invariant when the screen fits itself and the open call.
LEMMA ScreenMoves ==
  ASSUME Panel!PanelInv, UNCHANGED <<s1, s2, s3, s4, s8, s9>>, s6' \subseteq Panel!Detail, Panel!ScreenFits(s5'),
         Panel!CallFits(s7', s5'.form)
  PROVE  Panel!PanelInv'
<1>1. Panel!MadeFits(s1'.targets, s9') /\ (s8' # NoRequest => Panel!ClickFits(s8'))
  BY DEF Panel!PanelInv
<1>2. s1' \in Panel!Item /\ s2' \in 0..MaxCalendar /\ s3' \in Panel!Options /\ s4' \in 0..MaxNow
  BY DEF Panel!PanelInv
<1> QED BY <1>1, <1>2 DEF Panel!PanelInv, Panel!ScreenFits, Panel!CallFits, Panel!MadeFits, Panel!ClickFits

\* What the invariant says of the screen.
LEMMA ScreenParts ==
  ASSUME Panel!PanelInv
  PROVE  /\ s5 \in Panel!Panel /\ s5.form \in Panel!Form /\ s5.detail \in Panel!Detail \cup {NoRequest} /\ s5.preview \in Panel!Preview \cup {NoRequest}
         /\ s5.ticked \in 0..MaxCalendar /\ s5.open \in BOOLEAN
         /\ Panel!ScreenFits(s5) /\ Panel!CallFits(s7, s5.form) /\ s6 \subseteq Panel!Detail
  BY DEF Panel!PanelInv, Panel!ScreenFits, Panel!Panel

\* A newer detail on the screen leaves the preview of the form it was asked for.
LEMMA DetailIsSet ==
  ASSUME Panel!PanelInv, NEW d \in Panel!Detail
  PROVE  /\ Panel!ScreenFits(Panel!setDetail(s5, d)) /\ Panel!setDetail(s5, d).form = s5.form
         /\ Panel!setDetail(s5, d).detail = Panel!newest(s5.detail, d) /\ Panel!newest(s5.detail, d) \in Panel!Detail
<1>0. /\ s5 \in Panel!Panel /\ s5.form \in Panel!Form /\ s5.detail \in Panel!Detail \cup {NoRequest} /\ s5.preview \in Panel!Preview \cup {NoRequest}
      /\ s5.ticked \in 0..MaxCalendar /\ s5.open \in BOOLEAN /\ Panel!ScreenFits(s5)
  BY ScreenParts
<1>1. Panel!newest(s5.detail, d) \in Panel!Detail
  BY <1>0 DEF Panel!newest
<1> DEFINE n == [s5 EXCEPT !.detail = Panel!newest(s5.detail, d)]
<1>2. /\ n \in Panel!Panel /\ n.form = s5.form /\ n.preview = s5.preview /\ n.ticked = s5.ticked
      /\ n.detail = Panel!newest(s5.detail, d)
  BY <1>0, <1>1 DEF Panel!Panel
<1>3. Panel!ScreenFits(n)
  BY <1>0, <1>2 DEF Panel!ScreenFits
<1> DEFINE f == Panel!forgetPreview(n)
<1>3a. 0 \in 0..MaxCalendar
  BY PanelConstants
<1>4. f \in Panel!Panel /\ f.form = n.form /\ f.preview = NoRequest /\ f.detail = n.detail
  <2> HIDE DEF n
  <2> QED BY <1>2, <1>3a DEF Panel!Panel, Panel!forgetPreview
<1>5. Panel!ScreenFits(f)
  BY <1>4 DEF Panel!ScreenFits
<1>6. Panel!setDetail(s5, d) = n \/ Panel!setDetail(s5, d) = f
  BY DEF Panel!setDetail
<1> HIDE DEF n, f
<1> QED BY <1>1, <1>2, <1>3, <1>4, <1>5, <1>6

\* What the person enters and what the page reads keep the invariant.
LEMMA ScreenSteps ==
  ASSUME Panel!PanelInv,
         \/ Panel!toggle \/ Panel!setAcknowledged \/ Panel!prepared \/ Panel!answered \/ Panel!loaded
         \/ (\E r \in s6 : Panel!refreshed(r)) \/ \E form \in Panel!Form : Panel!setForm(form)
  PROVE  Panel!PanelInv'
<1>0. /\ s5 \in Panel!Panel /\ s5.form \in Panel!Form /\ s5.detail \in Panel!Detail \cup {NoRequest} /\ s5.preview \in Panel!Preview \cup {NoRequest}
      /\ s5.ticked \in 0..MaxCalendar /\ s5.open \in BOOLEAN /\ Panel!ScreenFits(s5)
      /\ Panel!CallFits(s7, s5.form) /\ s6 \subseteq Panel!Detail
  BY ScreenParts
<1>1. \A form : Panel!CallFits(NoRequest, form)
  BY DEF Panel!CallFits
<1>9. 0 \in 0..MaxCalendar
  BY PanelConstants
<1>2. CASE Panel!toggle
  <2> DEFINE p == [s5 EXCEPT !.open = ~ s5.open]
  <2>1. s5' = p /\ p \in Panel!Panel /\ p.form = s5.form /\ p.preview = s5.preview /\ p.ticked = s5.ticked
    BY <1>0, <1>2 DEF Panel!toggle, Panel!Panel
  <2> HIDE DEF p
  <2>2. Panel!ScreenFits(p)
    BY <1>0, <2>1 DEF Panel!ScreenFits
  <2> QED BY <1>0, <1>2, <2>1, <2>2, ScreenMoves DEF Panel!toggle
<1>3. CASE Panel!setAcknowledged
  <2> DEFINE t == IF s5.ticked = 0 THEN s5.preview.conflicts ELSE 0
             p == [s5 EXCEPT !.ticked = t]
  <2>1. s5' = p /\ s5.preview # NoRequest
    BY <1>3 DEF Panel!setAcknowledged
  <2>2. t \in {0, s5.preview.conflicts} /\ t \in 0..MaxCalendar
    BY <1>0, <2>1, PanelConstants DEF Panel!Preview
  <2> HIDE DEF t
  <2>3. p \in Panel!Panel /\ p.form = s5.form /\ p.preview = s5.preview /\ p.ticked = t
    BY <1>0, <2>2 DEF Panel!Panel
  <2> HIDE DEF p
  <2>4. Panel!ScreenFits(p)
    BY <1>0, <2>2, <2>3 DEF Panel!ScreenFits
  <2> QED BY <1>0, <1>3, <2>1, <2>3, <2>4, ScreenMoves DEF Panel!setAcknowledged
<1>4. CASE Panel!prepared
  <2>1. s7 # NoRequest /\ s7.kind = "prepare" /\ s7.at = "done" /\ s7 \in Panel!Calls
    BY <1>0, <1>4 DEF Panel!prepared, Panel!CallFits
  <2>2. s7.preview \in Panel!Preview \cup {NoRequest}
    BY <2>1, CallKinds
  <2>3. CASE s7.preview = NoRequest
    BY <1>0, <1>1, <1>4, <2>3, ScreenMoves DEF Panel!prepared
  <2>4. CASE s7.preview # NoRequest
    <3> DEFINE p == Panel!showPreview(s5, s7.preview)
    <3>1. p \in Panel!Panel /\ p.form = s5.form /\ p.preview = s7.preview /\ p.ticked = 0
      BY <1>0, <1>9, <2>2 DEF Panel!Panel, Panel!showPreview
    <3>2. s5' = p /\ s7' = NoRequest
      BY <1>4, <2>4 DEF Panel!prepared
    <3> HIDE DEF p
    <3>3. Panel!ScreenFits(p)
      BY <1>0, <2>1, <3>1 DEF Panel!ScreenFits, Panel!CallFits
    <3> QED BY <1>0, <1>1, <1>4, <3>2, <3>3, ScreenMoves DEF Panel!prepared
  <2> QED BY <2>3, <2>4
<1>5. CASE Panel!answered
  <2>1. Panel!CallFits([kind |-> "load", at |-> "sent"], s5.form)
    BY CallsMade DEF Panel!CallFits
  <2> DEFINE p == [s5 EXCEPT !.preview = NoRequest]
  <2>2. p \in Panel!Panel /\ p.form = s5.form /\ p.preview = NoRequest
    BY <1>0 DEF Panel!Panel
  <2>3. s5' = s5 \/ s5' = p
    BY <1>5 DEF Panel!answered
  <2> HIDE DEF p
  <2>4. Panel!ScreenFits(p)
    BY <2>2 DEF Panel!ScreenFits
  <2>5. s5'.form = s5.form /\ Panel!ScreenFits(s5')
    BY <1>0, <2>2, <2>3, <2>4
  <2> QED BY <1>0, <1>5, <2>1, <2>5, ScreenMoves DEF Panel!answered
<1>6. CASE Panel!loaded
  <2>1. s7 # NoRequest /\ s7.kind = "load" /\ s7.at = "done" /\ s7 \in Panel!Calls
    BY <1>0, <1>6 DEF Panel!loaded, Panel!CallFits
  <2>2. s7.detail \in Panel!Detail
    BY <2>1, CallKinds
  <2>3. Panel!ScreenFits(s5')
    BY <1>6, <2>2, DetailIsSet DEF Panel!loaded
  <2> QED BY <1>0, <1>1, <1>6, <2>3, ScreenMoves DEF Panel!loaded
<1>7. ASSUME NEW r \in s6, Panel!refreshed(r) PROVE Panel!PanelInv'
  <2>1. r \in Panel!Detail
    BY <1>0, <1>7
  <2>2. Panel!ScreenFits(s5') /\ s5'.form = s5.form
    BY <1>7, <2>1, DetailIsSet DEF Panel!refreshed
  <2> QED BY <1>0, <1>7, <2>2, ScreenMoves DEF Panel!refreshed
<1>8. ASSUME NEW form \in Panel!Form, Panel!setForm(form) PROVE Panel!PanelInv'
  <2>1. s7 = NoRequest
    BY <1>8 DEF Panel!setForm, Panel!fieldsEnabled, Panel!busy
  <2>2. s5' = [s5 EXCEPT !.form = form, !.preview = NoRequest, !.ticked = 0]
    BY <1>8 DEF Panel!setForm, Panel!forgetPreview
  <2>3. s5' \in Panel!Panel /\ s5'.preview = NoRequest
    BY <1>0, <1>9, <2>2 DEF Panel!Panel
  <2>4. Panel!ScreenFits(s5')
    BY <2>3 DEF Panel!ScreenFits
  <2> QED BY <1>0, <1>1, <1>8, <2>1, <2>4, ScreenMoves DEF Panel!setForm
<1> QED BY <1>2, <1>3, <1>4, <1>5, <1>6, <1>7, <1>8

\* A call that begins carries what is on the screen.
LEMMA AsksFits ==
  ASSUME Panel!PanelInv, Panel!approve \/ Panel!prepare \/ Panel!confirm \/ \E pending \in 0..MaxOptions : Panel!setOptions(pending)
  PROVE  Panel!PanelInv'
<1>0. /\ s5 \in Panel!Panel /\ s5.form \in Panel!Form /\ s5.detail \in Panel!Detail \cup {NoRequest} /\ s5.preview \in Panel!Preview \cup {NoRequest}
      /\ s5.ticked \in 0..MaxCalendar /\ s5.open \in BOOLEAN /\ Panel!ScreenFits(s5)
      /\ Panel!CallFits(s7, s5.form) /\ s6 \subseteq Panel!Detail
  BY ScreenParts
<1>1. CASE Panel!approve
  <2>1. s5.detail \in Panel!Detail
    BY <1>0, <1>1 DEF Panel!approve, Panel!fieldsEnabled
  <2>2. s5.detail.version \in 1..MaxItem
    BY <2>1 DEF Panel!Detail
  <2> DEFINE c == [kind |-> "approve", at |-> "sent", version |-> s5.detail.version]
  <2>3. c \in Panel!Calls /\ c.kind = "approve"
    BY <2>2, CallsMade
  <2>4. Panel!CallFits(c, s5.form)
    BY <2>3 DEF Panel!CallFits
  <2> QED BY <1>0, <1>1, <2>4, ScreenMoves DEF Panel!approve
<1>2. ASSUME NEW pending \in 0..MaxOptions, Panel!setOptions(pending) PROVE Panel!PanelInv'
  <2> DEFINE c == [kind |-> "options", at |-> "sent", pending |-> pending]
  <2>3. c \in Panel!Calls /\ c.kind = "options"
    BY CallsMade
  <2>4. Panel!CallFits(c, s5.form)
    BY <2>3 DEF Panel!CallFits
  <2> QED BY <1>0, <1>2, <2>4, ScreenMoves DEF Panel!setOptions
<1>3. CASE Panel!prepare
  <2> DEFINE p == [s5 EXCEPT !.preview = NoRequest]
             t == Panel!scheduledFor(s5.form)
             c == [kind |-> "prepare", at |-> "sent", form |-> s5.form, time |-> t]
  <2>1. p \in Panel!Panel /\ p.form = s5.form /\ p.preview = NoRequest /\ s5' = p
    BY <1>0, <1>3 DEF Panel!Panel, Panel!prepare
  <2>2. t \in Panel!Time
    <3>1. s4 + 1 \in Panel!Time
      BY PanelConstants DEF Panel!PanelInv, Panel!Time
    <3>2. s5.form.when \in {MaxNow + 1} \cup {Panel!Soon}
      BY <1>0 DEF Panel!Form
    <3> QED BY <3>1, <3>2, PanelConstants DEF Panel!scheduledFor, Panel!Time
  <2>3. s7' = c /\ s5.form.account # NoRequest
    BY <1>3 DEF Panel!prepare
  <2> HIDE DEF p, t
  <2>4. c \in Panel!Calls /\ c.kind = "prepare" /\ c.at = "sent" /\ c.form = s5.form
    BY <1>0, <2>2, CallsMade
  <2> HIDE DEF c
  <2>5. Panel!CallFits(c, p.form) /\ Panel!ScreenFits(p)
    BY <2>1, <2>3, <2>4 DEF Panel!CallFits, Panel!ScreenFits
  <2> QED BY <1>0, <1>3, <2>1, <2>3, <2>5, ScreenMoves DEF Panel!prepare
<1>4. CASE Panel!confirm
  <2> DEFINE p == s5.preview
             k == [account |-> p.account, time |-> p.time, version |-> p.version, conflicts |-> p.conflicts,
                   options |-> p.options, ticked |-> s5.ticked]
             c == [kind |-> "confirm", at |-> "sent", click |-> k]
  <2>1. p \in Panel!Preview /\ s7' = c
    BY <1>0, <1>4 DEF Panel!confirm
  <2>2. k \in Panel!Click /\ k.conflicts = p.conflicts /\ k.ticked = s5.ticked
    BY <1>0, <2>1 DEF Panel!Preview, Panel!Click
  <2>3. Panel!ClickFits(k)
    <3> HIDE DEF k
    <3> QED BY <1>0, <1>4, <2>1, <2>2 DEF Panel!ClickFits, Panel!ScreenFits, Panel!confirm
  <2> HIDE DEF k
  <2>4. c \in Panel!Calls /\ c.kind = "confirm" /\ c.click = k
    BY <2>2, CallsMade
  <2> HIDE DEF c
  <2>5. Panel!CallFits(c, s5.form)
    BY <2>3, <2>4 DEF Panel!CallFits
  <2> QED BY <1>0, <1>4, <2>1, <2>5, ScreenMoves DEF Panel!confirm
<1> QED BY <1>1, <1>2, <1>3, <1>4

\* A call that is answered fits as it did.
LEMMA CallIsDone ==
  ASSUME NEW c \in Panel!Calls, c # NoRequest, c.kind \in {"approve", "options", "confirm"}, NEW form, Panel!CallFits(c, form)
  PROVE  Panel!CallFits([c EXCEPT !.at = "done"], form)
<1> DEFINE d == [c EXCEPT !.at = "done"]
<1>1. d \in Panel!Calls /\ d.kind = c.kind
  BY DEF Panel!Calls
<1>2. c.kind = "confirm" => d.click = c.click
  BY DEF Panel!Calls
<1> HIDE DEF d
<1>3. Panel!CallFits(d, form)
  BY <1>1, <1>2 DEF Panel!CallFits
<1> QED BY <1>3 DEF d

\* The target that a click makes is the one on the screen of that click.
LEMMA TargetIsMade ==
  ASSUME Panel!PanelInv, NEW c, Panel!ClickFits(c), Panel!schedule(c)
  PROVE  s1' \in Panel!Item /\ Panel!MadeFits(s1'.targets, s9')
<1>0. /\ s1.version \in 1..MaxItem /\ s1.approved \in BOOLEAN /\ s1.targets \in [PanelAccounts -> Panel!Time \cup {0}] /\ s1 \in Panel!Item
      /\ Panel!MadeFits(s1.targets, s9) /\ s2 \in 0..MaxCalendar /\ s3.number \in 0..MaxOptions
  BY ItemTargets DEF Panel!PanelInv, Panel!Options
<1>1. /\ c \in Panel!Click /\ c.account \in PanelAccounts /\ c.time \in Panel!Time /\ c.ticked \in {0, c.conflicts}
      /\ c.version \in 1..MaxItem /\ c.conflicts \in 0..MaxCalendar /\ c.options \in 0..MaxOptions
  BY DEF Panel!ClickFits, Panel!Click
<1>2. CASE UNCHANGED <<s1, s9>>
  BY <1>0, <1>2
<1>3. CASE ~ UNCHANGED <<s1, s9>>
  <2> DEFINE tg == [s1.targets EXCEPT ![c.account] = c.time]
             i == [s1 EXCEPT !.version = s1.version + 1, !.targets = tg]
             m == Panel!receipt(c)
  <2>1. /\ s1' = [s1 EXCEPT !.version = @ + 1, !.targets[c.account] = c.time] /\ s9' = s9 \cup {m}
        /\ s1.targets[c.account] = 0 /\ Panel!samePreview(c) /\ Panel!acknowledges(c) /\ s1.version < MaxItem
    BY <1>3 DEF Panel!schedule
  <2>2. tg \in [PanelAccounts -> Panel!Time \cup {0}] /\ tg[c.account] # 0 /\ \A a \in PanelAccounts : a # c.account => tg[a] = s1.targets[a]
    BY <1>0, <1>1, PanelConstants DEF Panel!Time
  <2>3. s1' = i
    BY <1>0, <2>1 DEF Panel!Item
  <2>4. s1.version + 1 \in 1..MaxItem
    BY <1>0, <2>1, PanelConstants
  <2> HIDE DEF tg
  <2>5. i \in Panel!Item /\ i.targets = tg
    BY <1>0, <2>2, <2>4 DEF Panel!Item
  <2> HIDE DEF i
  <2>6. m \in Panel!Receipt /\ m.click = c /\ m.version = s1.version /\ m.conflicts = s2 /\ m.options = s3.number
    BY <1>0, <1>1 DEF Panel!receipt, Panel!Receipt
  <2> HIDE DEF m
  <2>7. m.click.version = m.version /\ m.click.conflicts = m.conflicts /\ m.click.options = m.options
    BY <2>1, <2>6 DEF Panel!samePreview
  <2>8. m.conflicts > 0 => m.click.ticked = m.conflicts
    BY <1>0, <1>1, <2>1, <2>6, PanelConstants DEF Panel!acknowledges
  <2>9. \A n \in s9 : n \in Panel!Receipt /\ n.click.account \in PanelAccounts /\ n.click.account # c.account
    BY <1>0, <2>1 DEF Panel!MadeFits, Panel!Receipt, Panel!Click
  <2>10. s9' \subseteq Panel!Receipt
    BY <1>0, <2>1, <2>6 DEF Panel!MadeFits
  <2>11. Panel!MadeFits(tg, s9')
    BY <1>0, <2>1, <2>2, <2>6, <2>7, <2>8, <2>9, <2>10 DEF Panel!MadeFits
  <2> QED BY <2>3, <2>5, <2>11
<1> QED BY <1>2, <1>3

\* What the server does with a call keeps the invariant.
LEMMA AnswersFit ==
  ASSUME Panel!PanelInv, Panel!approvals \/ Panel!candidates \/ Panel!preview \/ Panel!publish \/ Panel!publishLate \/ Panel!load \/ Panel!actionFails
  PROVE  Panel!PanelInv'
<1>0. /\ s1 \in Panel!Item /\ s2 \in 0..MaxCalendar /\ s3 \in Panel!Options /\ s4 \in 0..MaxNow /\ s6 \subseteq Panel!Detail
      /\ Panel!ScreenFits(s5) /\ Panel!CallFits(s7, s5.form) /\ Panel!MadeFits(s1.targets, s9)
      /\ (s8 # NoRequest => Panel!ClickFits(s8))
      /\ s3.number \in 0..MaxOptions /\ s3.approved \in BOOLEAN /\ s5.form \in Panel!Form
  BY ScreenParts DEF Panel!PanelInv, Panel!Options
<1>1. ASSUME s1' \in Panel!Item, s1'.targets = s1.targets, s3' \in Panel!Options, UNCHANGED <<s2, s4, s5, s6, s8, s9>>,
             Panel!CallFits(s7', s5.form)
      PROVE  Panel!PanelInv'
  BY <1>0, <1>1 DEF Panel!PanelInv, Panel!ScreenFits, Panel!CallFits, Panel!MadeFits, Panel!ClickFits
<1>2. \A form : Panel!CallFits(NoRequest, form)
  BY DEF Panel!CallFits
<1>3. s7 # NoRequest => s7 \in Panel!Calls
  BY <1>0 DEF Panel!CallFits
<1>4. CASE Panel!approvals
  <2>1. Panel!CallFits(s7', s5.form)
    BY <1>0, <1>2, <1>3, <1>4, CallIsDone DEF Panel!approvals
  <2>2. s1' \in Panel!Item /\ s1'.targets = s1.targets
    BY <1>0, <1>4, ItemApproved DEF Panel!approvals
  <2> QED BY <1>0, <1>1, <1>4, <2>1, <2>2 DEF Panel!approvals
<1>5. CASE Panel!candidates
  <2>1. Panel!CallFits(s7', s5.form)
    BY <1>0, <1>2, <1>3, <1>5, CallIsDone DEF Panel!candidates
  <2>2. s3' \in Panel!Options /\ s1' \in Panel!Item /\ s1'.targets = s1.targets
    <3>1. CASE Panel!newOptions
      <4>1. s3.number + 1 \in 0..MaxOptions
        BY <1>0, <3>1, PanelConstants DEF Panel!newOptions
      <4> QED BY <1>0, <3>1, <4>1 DEF Panel!newOptions, Panel!Options
    <3>2. CASE Panel!approveOptions(s7.pending)
      <4>1. [s3 EXCEPT !.approved = TRUE] \in Panel!Options
        BY <1>0 DEF Panel!Options
      <4> QED BY <3>2, <4>1, ItemApproved DEF Panel!approveOptions
    <3> QED BY <1>5, <3>1, <3>2 DEF Panel!candidates
  <2> QED BY <1>1, <1>5, <2>1, <2>2 DEF Panel!candidates
<1>6. CASE Panel!preview
  <2> DEFINE r == [account |-> s7.form.account, when |-> s7.form.when, time |-> s7.time, version |-> s1.version,
                   conflicts |-> s2, options |-> s3.number]
  <2>1. s7 # NoRequest /\ s7.kind = "prepare" /\ s7.at = "sent" /\ s7 \in Panel!Calls
    BY <1>3, <1>6 DEF Panel!preview
  <2>2. s7.form = s5.form /\ s5.form.account # NoRequest /\ s7.time \in Panel!Time
    BY <1>0, <2>1, CallKinds DEF Panel!CallFits
  <2>3. s5.form.account \in PanelAccounts /\ s5.form.when \in {MaxNow + 1} \cup {Panel!Soon}
    BY <1>0, <2>2 DEF Panel!Form
  <2>4. r \in Panel!Preview
    BY <1>0, <2>2, <2>3, ItemTargets DEF Panel!Preview
  <2>5. r.account = s5.form.account /\ r.when = s5.form.when
    BY <2>2
  <2> HIDE DEF r
  <2>6. PICK p \in {r, NoRequest} : s7' = [kind |-> "prepare", at |-> "done", preview |-> p]
    BY <1>6 DEF Panel!preview, r
  <2>7. s7' \in Panel!Calls /\ s7'.kind = "prepare" /\ s7'.at = "done" /\ s7'.preview = p
    BY <2>4, <2>6, CallsMade
  <2>8. Panel!CallFits(s7', s5.form)
    BY <2>5, <2>6, <2>7 DEF Panel!CallFits
  <2> QED BY <1>0, <1>1, <1>6, <2>8 DEF Panel!preview
<1>7. CASE Panel!publish
  <2>1. s7 # NoRequest /\ s7.kind = "confirm" /\ s7 \in Panel!Calls /\ Panel!ClickFits(s7.click)
    BY <1>0, <1>3, <1>7 DEF Panel!publish, Panel!CallFits
  <2>2. Panel!CallFits(s7', s5.form)
    BY <1>0, <1>2, <1>7, <2>1, CallIsDone DEF Panel!publish
  <2>3. s1' \in Panel!Item /\ Panel!MadeFits(s1'.targets, s9')
    BY <1>7, <2>1, TargetIsMade DEF Panel!publish
  <2> QED BY <1>0, <1>7, <2>2, <2>3 DEF Panel!publish, Panel!PanelInv, Panel!ScreenFits, Panel!CallFits, Panel!MadeFits,
     Panel!ClickFits
<1>8. CASE Panel!publishLate
  <2>1. s1' \in Panel!Item /\ Panel!MadeFits(s1'.targets, s9')
    BY <1>0, <1>8, TargetIsMade DEF Panel!publishLate
  <2> QED BY <1>0, <1>8, <2>1 DEF Panel!publishLate, Panel!PanelInv, Panel!ScreenFits, Panel!CallFits, Panel!MadeFits,
     Panel!ClickFits
<1>9. CASE Panel!load
  <2>1. Panel!publication \in Panel!Detail
    BY <1>0, ItemTargets, PanelConstants DEF Panel!publication, Panel!Detail
  <2>2. s7' = [kind |-> "load", at |-> "done", detail |-> Panel!publication]
    BY <1>9 DEF Panel!load
  <2>3. s7' \in Panel!Calls /\ s7'.kind = "load"
    BY <2>1, <2>2, CallsMade
  <2>4. Panel!CallFits(s7', s5.form)
    BY <2>3 DEF Panel!CallFits
  <2> QED BY <1>0, <1>1, <1>9, <2>4 DEF Panel!load
<1>10. CASE Panel!actionFails
  <2>1. s8' # NoRequest => Panel!ClickFits(s8')
    BY <1>0, <1>10 DEF Panel!actionFails, Panel!CallFits, Panel!busy
  <2> QED BY <1>0, <1>2, <1>10, <2>1 DEF Panel!actionFails, Panel!PanelInv, Panel!ScreenFits, Panel!CallFits,
     Panel!MadeFits, Panel!ClickFits
<1> QED BY <1>4, <1>5, <1>6, <1>7, <1>8, <1>9, <1>10

\* Every step of the panel keeps its invariant.
LEMMA PanelMoves == Panel!PanelInv /\ [Panel!PanelNext]_Panel!panelVars => Panel!PanelInv'
<1> SUFFICES ASSUME Panel!PanelInv, [Panel!PanelNext]_Panel!panelVars PROVE Panel!PanelInv'
  OBVIOUS
<1>1. CASE UNCHANGED Panel!panelVars
  BY <1>1 DEF Panel!PanelInv, Panel!ScreenFits, Panel!CallFits, Panel!MadeFits, Panel!ClickFits, Panel!panelVars
<1>2. CASE Panel!editItem \/ Panel!editOptions \/ Panel!fillCalendar \/ Panel!timePasses \/ Panel!refresh
  BY <1>2, WorldSteps
<1>3. CASE \/ Panel!toggle \/ Panel!setAcknowledged \/ Panel!prepared \/ Panel!answered \/ Panel!loaded
           \/ (\E r \in s6 : Panel!refreshed(r)) \/ \E form \in Panel!Form : Panel!setForm(form)
  BY <1>3, ScreenSteps
<1>4. CASE Panel!approve \/ Panel!prepare \/ Panel!confirm \/ \E pending \in 0..MaxOptions : Panel!setOptions(pending)
  BY <1>4, AsksFits
<1>5. CASE Panel!approvals \/ Panel!candidates \/ Panel!preview \/ Panel!publish \/ Panel!publishLate \/ Panel!load \/ Panel!actionFails
  BY <1>5, AnswersFit
<1> QED BY <1>1, <1>2, <1>3, <1>4, <1>5 DEF Panel!PanelNext

\* It contains what the panel promises.
LEMMA PanelHolds == Panel!PanelInv => Panel!PanelTypeOK /\ Panel!PreviewIsOfTheForm /\ Panel!ScheduledAsShown
<1> SUFFICES ASSUME Panel!PanelInv PROVE Panel!PanelTypeOK /\ Panel!PreviewIsOfTheForm /\ Panel!ScheduledAsShown
  OBVIOUS
<1>1. Panel!PanelTypeOK
  BY DEF Panel!PanelInv, Panel!PanelTypeOK, Panel!ScreenFits, Panel!CallFits, Panel!MadeFits, Panel!ClickFits
<1>2. Panel!PreviewIsOfTheForm
  BY DEF Panel!PanelInv, Panel!ScreenFits, Panel!PreviewIsOfTheForm
<1>3. Panel!ScheduledAsShown
  BY DEF Panel!PanelInv, Panel!MadeFits, Panel!ScheduledAsShown
<1> QED BY <1>1, <1>2, <1>3

\* A step of the panel puts no older item on the screen.
LEMMA PanelNewer == Panel!PanelInv /\ [Panel!PanelNext]_Panel!panelVars => Panel!DetailNeverOlder
<1> SUFFICES ASSUME Panel!PanelInv, [Panel!PanelNext]_Panel!panelVars, s5.detail # NoRequest
             PROVE  s5'.detail # NoRequest /\ s5'.detail.version >= s5.detail.version
  BY DEF Panel!DetailNeverOlder
<1>0. /\ s5 \in Panel!Panel /\ s5.detail \in Panel!Detail /\ s5.detail.version \in Nat /\ Panel!CallFits(s7, s5.form) /\ s6 \subseteq Panel!Detail
  BY ScreenParts, PanelConstants DEF Panel!Detail
<1>1. ASSUME s5'.detail = s5.detail PROVE s5'.detail # NoRequest /\ s5'.detail.version >= s5.detail.version
  BY <1>0, <1>1
<1>2. ASSUME NEW d \in Panel!Detail, s5' = Panel!setDetail(s5, d)
      PROVE  s5'.detail # NoRequest /\ s5'.detail.version >= s5.detail.version
  <2>1. s5'.detail = Panel!newest(s5.detail, d) /\ s5'.detail \in Panel!Detail
    BY <1>2, DetailIsSet
  <2>2. d.version \in Nat
    BY PanelConstants DEF Panel!Detail
  <2>3. Panel!newest(s5.detail, d).version >= s5.detail.version
    BY <1>0, <2>2 DEF Panel!newest
  <2> QED BY <2>1, <2>3, PanelConstants
<1>3. CASE UNCHANGED s5
  BY <1>1, <1>3
<1>4. CASE Panel!toggle \/ Panel!setAcknowledged \/ Panel!prepared \/ Panel!answered \/ Panel!prepare \/ \E form \in Panel!Form : Panel!setForm(form)
  <2>1. s5'.detail = s5.detail
    BY <1>0, <1>4 DEF Panel!toggle, Panel!setAcknowledged, Panel!prepared, Panel!answered, Panel!prepare, Panel!setForm,
       Panel!forgetPreview, Panel!showPreview, Panel!Panel
  <2> QED BY <1>1, <2>1
<1>5. CASE Panel!loaded
  <2>1. s7 # NoRequest /\ s7.kind = "load" /\ s7.at = "done" /\ s7 \in Panel!Calls
    BY <1>0, <1>5 DEF Panel!loaded, Panel!CallFits
  <2> QED BY <1>2, <1>5, <2>1, CallKinds DEF Panel!loaded
<1>6. ASSUME NEW r \in s6, Panel!refreshed(r) PROVE s5'.detail # NoRequest /\ s5'.detail.version >= s5.detail.version
  BY <1>0, <1>2, <1>6 DEF Panel!refreshed
<1>7. CASE \/ Panel!editItem \/ Panel!editOptions \/ Panel!fillCalendar \/ Panel!timePasses \/ Panel!refresh \/ Panel!approve \/ Panel!confirm
           \/ (\E pending \in 0..MaxOptions : Panel!setOptions(pending))
           \/ Panel!approvals \/ Panel!candidates \/ Panel!preview \/ Panel!publish \/ Panel!publishLate \/ Panel!load \/ Panel!actionFails
  BY <1>3, <1>7 DEF Panel!editItem, Panel!editOptions, Panel!fillCalendar, Panel!timePasses, Panel!refresh,
     Panel!approve, Panel!confirm, Panel!setOptions,
     Panel!approvals, Panel!candidates, Panel!preview, Panel!publish, Panel!publishLate, Panel!load, Panel!actionFails
<1> QED BY <1>3, <1>4, <1>5, <1>6, <1>7 DEF Panel!PanelNext, Panel!panelVars

-----------------------------------------------------------------------------
(* Proofs.  Board tasks.                                                   *)

\* What the invariant says of each task and each execution.
LEMMA TasksParts ==
  ASSUME Task!TasksFit
  PROVE  /\ \A t \in Tasks : s1[t] \in Task!AgentBoardTask /\ Task!TaskFits(s1[t]) /\ s1[t].status \in Task!AgentBoardTaskStatus \cup {"none"}
                             /\ s1[t].active \in Executions \cup {NoExecution} /\ s1[t].parents \subseteq Tasks
                             /\ s1[t].completed \in BOOLEAN /\ s1[t].last \in Executions \cup {NoExecution}
         /\ \A e \in Executions : s2[e] \in Task!AgentBoardTaskExecution /\ s2[e].task \in Tasks
                             /\ s2[e].status \in Task!AgentBoardTaskExecutionStatus
         /\ \A e \in Executions : s2[e].status \in Task!Open => /\ s1[s2[e].task].active = e
                                                                  /\ s1[s2[e].task].status = "running"
  BY TaskAssumption DEF Task!TasksFit, Task!AgentBoardTask, Task!AgentBoardTaskExecution

\* One task and one execution move together: an open execution is the active one of its running task.
LEMMA TasksMove ==
  ASSUME Task!TasksFit, NEW t \in Tasks, NEW m \in Task!AgentBoardTask, NEW e \in Executions, NEW x \in Task!AgentBoardTaskExecution,
         s1' = [s1 EXCEPT ![t] = m], s2' = [s2 EXCEPT ![e] = x],
         Task!TaskFits(m), Task!Complete(t) => m.completed /\ m.status \in {"done", "archived"},
         m.status \in Task!Forward => \A p \in m.parents : Task!Complete(p),
         \/ /\ x.status = s2[e].status /\ x.task = s2[e].task
            /\ m.active = s1[t].active /\ (m.active # NoExecution => m.status = "running")
         \/ /\ s1[t].active \in {NoExecution, e} /\ (s2[e].status \in Task!Open => s2[e].task = t)
            /\ x.task = t
            /\ \/ m.active = e /\ m.status = "running" /\ x.status \in Task!Open
               \/ m.active = NoExecution /\ x.status \notin Task!Open
  PROVE  Task!TasksFit'
<1>0. /\ s1 \in [Tasks -> Task!AgentBoardTask] /\ s2 \in [Executions -> Task!AgentBoardTaskExecution]
      /\ \A u \in Tasks : s1'[u] = IF u = t THEN m ELSE s1[u]
      /\ \A u \in Executions : s2'[u] = IF u = e THEN x ELSE s2[u]
      /\ s1' \in [Tasks -> Task!AgentBoardTask] /\ s2' \in [Executions -> Task!AgentBoardTaskExecution]
  BY DEF Task!TasksFit
<1>1. \A p \in Tasks : Task!Complete(p) => Task!Complete(p)'
  BY <1>0 DEF Task!Complete
<1>2. ASSUME NEW u \in Tasks
      PROVE  Task!TaskFits(s1'[u]) /\ (s1'[u].status \in Task!Forward => \A p \in s1'[u].parents : Task!Complete(p)')
  <2>1. m.parents \subseteq Tasks /\ s1[u].parents \subseteq Tasks
    BY TasksParts DEF Task!AgentBoardTask
  <2>2. CASE u = t
    BY <1>0, <1>1, <2>1, <2>2
  <2>3. CASE u # t
    BY <1>0, <1>1, <2>1, <2>3 DEF Task!TasksFit
  <2> QED BY <2>2, <2>3
<1>3. ASSUME NEW u \in Tasks, s1'[u].active # NoExecution
      PROVE  /\ s1'[u].status = "running" /\ s2'[s1'[u].active].task = u
             /\ s2'[s1'[u].active].status \in Task!Open
  <2>1. s1[u].active \in Executions \cup {NoExecution} /\ m.active \in Executions \cup {NoExecution}
    BY TasksParts DEF Task!AgentBoardTask
  <2>2. s1[u].active # NoExecution =>
          s1[u].status = "running" /\ s2[s1[u].active].task = u /\ s2[s1[u].active].status \in Task!Open
    BY DEF Task!TasksFit
  <2>3. s1[t].active # NoExecution =>
          s1[t].status = "running" /\ s2[s1[t].active].task = t /\ s2[s1[t].active].status \in Task!Open
    BY DEF Task!TasksFit
  <2>4. s1[t].active \in Executions \cup {NoExecution}
    BY TasksParts
  <2> QED BY <1>0, <1>3, <2>1, <2>2, <2>3, <2>4, TaskAssumption
<1>4. ASSUME NEW f \in Executions, s2'[f].status \in Task!Open
      PROVE  s1'[s2'[f].task].active = f
  <2>1. s2[f].task \in Tasks /\ x.task \in Tasks /\ s2[e].task \in Tasks
    BY TasksParts DEF Task!AgentBoardTaskExecution
  <2>2. s2[f].status \in Task!Open => s1[s2[f].task].active = f
    BY DEF Task!TasksFit
  <2>3. s2[e].status \in Task!Open => s1[s2[e].task].active = e
    BY DEF Task!TasksFit
  <2> QED BY <1>0, <1>4, <2>1, <2>2, <2>3, TaskAssumption
<1> QED BY <1>0, <1>2, <1>3, <1>4 DEF Task!TasksFit

\* One task without an active execution moves.
LEMMA TaskMoves ==
  ASSUME Task!TasksFit, NEW t \in Tasks, NEW m \in Task!AgentBoardTask, s1' = [s1 EXCEPT ![t] = m], s2' = s2,
         Task!TaskFits(m), Task!Complete(t) => m.completed /\ m.status \in {"done", "archived"},
         m.status \in Task!Forward => \A p \in m.parents : Task!Complete(p),
         s1[t].active = NoExecution, m.active = NoExecution
  PROVE  Task!TasksFit'
<1>0. /\ s1 \in [Tasks -> Task!AgentBoardTask] /\ s2 \in [Executions -> Task!AgentBoardTaskExecution]
      /\ \A u \in Tasks : s1'[u] = IF u = t THEN m ELSE s1[u]
      /\ s1' \in [Tasks -> Task!AgentBoardTask]
  BY DEF Task!TasksFit
<1>1. \A p \in Tasks : Task!Complete(p) => Task!Complete(p)'
  BY <1>0 DEF Task!Complete
<1>2. ASSUME NEW u \in Tasks
      PROVE  Task!TaskFits(s1'[u]) /\ (s1'[u].status \in Task!Forward => \A p \in s1'[u].parents : Task!Complete(p)')
  <2>1. m.parents \subseteq Tasks /\ s1[u].parents \subseteq Tasks
    BY TasksParts DEF Task!AgentBoardTask
  <2>2. CASE u = t
    BY <1>0, <1>1, <2>1, <2>2
  <2>3. CASE u # t
    BY <1>0, <1>1, <2>1, <2>3 DEF Task!TasksFit
  <2> QED BY <2>2, <2>3
<1>3. \A u \in Tasks : s1'[u].active = s1[u].active /\ (s1[u].active # NoExecution => s1'[u].status = s1[u].status)
  BY <1>0
<1>4. \A f \in Executions : s2[f].task \in Tasks
  BY TasksParts
<1> QED BY <1>0, <1>2, <1>3, <1>4 DEF Task!TasksFit

\* The deliveries that nobody moves fit, as long as no execution succeeds meanwhile.
LEMMA TaskRuns ==
  ASSUME Task!RunsFit, UNCHANGED <<s3, s6, s7, s8>>,
         \A e \in Executions : s2'[e].status = "succeeded" => s2[e].status = "succeeded"
  PROVE  Task!RunsFit'
  BY DEF Task!RunsFit, Task!DeliveryFits, Task!At, Task!Of

\* Creating, arranging and updating a task keep the invariant of the tasks.
LEMMA TasksEdited ==
  ASSUME Task!TasksFit, NEW t \in Tasks,
         Task!createTask(t) \/ Task!rearrangeTask(t) \/ \E actor \in People : Task!updateTask(t, actor)
  PROVE  Task!TasksFit'
<1>0. /\ s1[t] \in Task!AgentBoardTask /\ Task!TaskFits(s1[t]) /\ s1[t].status \in Task!AgentBoardTaskStatus \cup {"none"}
      /\ s1[t].completed \in BOOLEAN
  BY TasksParts
<1>1. CASE Task!createTask(t)
  <2>1. PICK parents \in SUBSET Tasks, assignee \in {"human", "agent"} : Task!StoreTask(t, Task!createAgentBoardTask(parents, assignee))
    BY <1>1 DEF Task!createTask
  <2> DEFINE m == Task!createAgentBoardTask(parents, assignee)
  <2>2. m \in Task!AgentBoardTask /\ m.status = "triage" /\ m.active = NoExecution /\ m.completed = FALSE
    BY <2>1 DEF Task!createAgentBoardTask, Task!NoTask, Task!AgentBoardTask, Task!AgentBoardTaskStatus
  <2>3. s1' = [s1 EXCEPT ![t] = m] /\ s2' = s2 /\ s1[t].status = "none"
    BY <1>1, <2>1 DEF Task!createTask, Task!StoreTask
  <2> HIDE DEF m
  <2>4. ~ Task!Complete(t) /\ s1[t].active = NoExecution
    BY <2>3, TasksParts DEF Task!Complete, Task!TasksFit
  <2>5. Task!TaskFits(m) /\ m.status \notin Task!Forward
    BY <2>2 DEF Task!TaskFits, Task!Forward
  <2> QED BY <2>2, <2>3, <2>4, <2>5, TaskMoves
<1>2. CASE Task!rearrangeTask(t)
  <2>1. PICK parents \in SUBSET Tasks, assignee \in {"human", "agent"} :
          /\ s1[t].status \in {"triage", "todo", "blocked"} /\ s1[t].active = NoExecution
          /\ Task!StoreTask(t, [s1[t] EXCEPT !.parents = parents, !.assignee = assignee]) /\ s2' = s2
    BY <1>2 DEF Task!rearrangeTask
  <2> DEFINE m == [s1[t] EXCEPT !.parents = parents, !.assignee = assignee]
  <2>2. /\ m \in Task!AgentBoardTask /\ m.status = s1[t].status /\ m.active = s1[t].active /\ m.completed = s1[t].completed
    BY <1>0, <2>1 DEF Task!AgentBoardTask
  <2>3. s1' = [s1 EXCEPT ![t] = m]
    BY <2>1 DEF Task!StoreTask
  <2> HIDE DEF m
  <2>4. ~ Task!Complete(t) /\ ~ m.completed
    BY <1>0, <2>1, <2>2 DEF Task!Complete, Task!TaskFits
  <2>5. Task!TaskFits(m) /\ m.status \notin Task!Forward
    BY <2>1, <2>2, <2>4 DEF Task!TaskFits, Task!Forward
  <2> QED BY <2>1, <2>2, <2>3, <2>4, <2>5, TaskMoves
<1>3. ASSUME NEW actor \in People, Task!updateTask(t, actor) PROVE Task!TasksFit'
  <2>1. PICK to \in Task!AgentBoardTaskStatus :
          /\ Task!mayRevise(s1[t], to, actor) /\ Task!assertDependenciesComplete(s1[t].parents, to)
          /\ Task!StoreTask(t, Task!reviseAgentBoardTask(s1[t], to, actor)) /\ s2' = s2
    BY <1>3 DEF Task!updateTask
  <2> DEFINE m == Task!reviseAgentBoardTask(s1[t], to, actor)
  <2>2. to \in Task!statusTransitions[s1[t].status] /\ s1[t].active = NoExecution
        /\ (to = "done" => actor \in Managers /\ s1[t].implementedBy # actor)
    BY <2>1 DEF Task!mayRevise
  <2>3. (s1[t].status = "done" => to = "archived") /\ s1[t].status # "archived"
    BY <2>2 DEF Task!statusTransitions
  <2>4. /\ m \in Task!AgentBoardTask /\ m.status = to /\ m.active = s1[t].active /\ m.parents = s1[t].parents
    BY <1>0, <2>1 DEF Task!reviseAgentBoardTask, Task!AgentBoardTask
  <2>5. /\ m.completed = (s1[t].completed \/ to = "done")
        /\ to # "running" => m.implementedBy = s1[t].implementedBy
        /\ m.reviewedBy = IF to = "done" THEN actor ELSE s1[t].reviewedBy
    BY <1>0 DEF Task!reviseAgentBoardTask, Task!AgentBoardTask
  <2>6. s1' = [s1 EXCEPT ![t] = m]
    BY <2>1 DEF Task!StoreTask
  <2> HIDE DEF m
  <2>7. Task!TaskFits(m)
    BY <1>0, <2>2, <2>3, <2>4, <2>5 DEF Task!TaskFits
  <2>8. Task!Complete(t) => m.completed /\ m.status \in {"done", "archived"}
    BY <2>3, <2>4, <2>5 DEF Task!Complete
  <2>9. m.status \in Task!Forward => \A p \in m.parents : Task!Complete(p)
    BY <2>1, <2>4 DEF Task!assertDependenciesComplete
  <2> QED BY <2>1, <2>2, <2>4, <2>6, <2>7, <2>8, <2>9, TaskMoves
<1> QED BY <1>1, <1>2, <1>3

\* So does starting an execution of it.
LEMMA TaskReleased ==
  ASSUME Task!TasksFit, s4 \in 1..MaxTaskEpoch, NEW t \in Tasks, NEW e \in Executions, Task!releaseTask(t, e)
  PROVE  Task!TasksFit' /\ \A f \in Executions : s2'[f].status = "succeeded" => s2[f].status = "succeeded"
<1>0. /\ s1[t] \in Task!AgentBoardTask /\ Task!TaskFits(s1[t]) /\ s2[e] \in Task!AgentBoardTaskExecution
      /\ s2 \in [Executions -> Task!AgentBoardTaskExecution]
  BY TasksParts DEF Task!TasksFit
<1> DEFINE m == Task!releaseAgentBoardTaskToAgent(s1[t], e)
           x == [s2[e] EXCEPT !.status = "queued", !.task = t, !.epoch = s4]
<1>1. /\ s1' = [s1 EXCEPT ![t] = m] /\ s2' = [s2 EXCEPT ![e] = x] /\ s1[t].status = "ready"
      /\ s1[t].active = NoExecution /\ s2[e].status = "none" /\ Task!assertDependenciesComplete(s1[t].parents, "running")
  BY DEF Task!releaseTask, Task!StoreTask, Task!StoreExecution, Task!mayRelease
<1>2. /\ m \in Task!AgentBoardTask /\ m.status = "running" /\ m.active = e /\ m.parents = s1[t].parents /\ m.completed = s1[t].completed
  BY <1>0 DEF Task!releaseAgentBoardTaskToAgent, Task!AgentBoardTask, Task!AgentBoardTaskStatus
<1>3. s4 \in 0..MaxTaskEpoch
  BY TaskAssumption
<1>4. x \in Task!AgentBoardTaskExecution /\ x.status = "queued" /\ x.task = t
  BY <1>0, <1>3 DEF Task!AgentBoardTaskExecution, Task!AgentBoardTaskExecutionStatus
<1> HIDE DEF m, x
<1>5. Task!TaskFits(m) /\ ~ Task!Complete(t)
  BY <1>0, <1>1, <1>2 DEF Task!TaskFits, Task!Complete
<1>6. \A p \in m.parents : Task!Complete(p)
  BY <1>1, <1>2 DEF Task!assertDependenciesComplete, Task!Forward
<1>7. s2[e].status \notin Task!Open /\ x.status \in Task!Open
  BY <1>1, <1>4 DEF Task!Open
<1>8. Task!TasksFit'
  BY <1>1, <1>2, <1>4, <1>5, <1>6, <1>7, TasksMove
<1> QED BY <1>0, <1>1, <1>4, <1>8

\* So does closing an execution, which releases its task.
LEMMA ExecutionCloses ==
  ASSUME Task!TasksFit, NEW e \in Executions, NEW result \in {"succeeded", "failed", "uncertain"}, s2[e].status \in Task!Open,
         Task!StoreExecution(e, [s2[e] EXCEPT !.status = result, !.claim = Nobody, !.leased = FALSE]),
         Task!StoreTask(s2[e].task, Task!finishAgentBoardTaskExecution(s1[s2[e].task], e, result))
  PROVE  Task!TasksFit' /\ \A f \in Executions : s2'[f].status = IF f = e THEN result ELSE s2[f].status
<1> DEFINE t == s2[e].task
           m == Task!finishAgentBoardTaskExecution(s1[t], e, result)
           x == [s2[e] EXCEPT !.status = result, !.claim = Nobody, !.leased = FALSE]
<1>0. /\ t \in Tasks /\ s1[t] \in Task!AgentBoardTask /\ Task!TaskFits(s1[t]) /\ s2[e] \in Task!AgentBoardTaskExecution
      /\ s2 \in [Executions -> Task!AgentBoardTaskExecution] /\ s1[t].active = e /\ s1[t].status = "running"
  BY TasksParts DEF Task!TasksFit
<1>1. s1' = [s1 EXCEPT ![t] = m] /\ s2' = [s2 EXCEPT ![e] = x]
  BY DEF Task!StoreTask, Task!StoreExecution
<1>2. /\ m \in Task!AgentBoardTask /\ m.status \in {"review", "blocked"} /\ m.active = NoExecution /\ m.parents = s1[t].parents
      /\ m.completed = s1[t].completed
  BY <1>0 DEF Task!finishAgentBoardTaskExecution, Task!AgentBoardTask, Task!AgentBoardTaskStatus
<1>3. x \in Task!AgentBoardTaskExecution /\ x.status = result /\ x.task = t
  BY <1>0 DEF Task!AgentBoardTaskExecution, Task!AgentBoardTaskExecutionStatus
<1> HIDE DEF m, x
<1>4. Task!TaskFits(m) /\ ~ Task!Complete(t)
  BY <1>0, <1>2 DEF Task!TaskFits, Task!Complete
<1>5. \A p \in m.parents : Task!Complete(p)
  BY <1>0, <1>2 DEF Task!TasksFit, Task!Forward
<1>6. x.status \notin Task!Open
  BY <1>3 DEF Task!Open
<1>7. Task!TasksFit'
  BY <1>0, <1>1, <1>2, <1>3, <1>4, <1>5, <1>6, TasksMove
<1> QED BY <1>0, <1>1, <1>3, <1>7

\* So does an execution that stays open, or closed.
LEMMA ExecutionMoves ==
  ASSUME Task!TasksFit, NEW e \in Executions, NEW x \in Task!AgentBoardTaskExecution, s1' = s1,
         s2' = [s2 EXCEPT ![e] = x], x.task = s2[e].task,
         x.status = s2[e].status \/ {x.status, s2[e].status} \subseteq Task!Open
  PROVE  Task!TasksFit'
<1>0. /\ s1 \in [Tasks -> Task!AgentBoardTask] /\ s2 \in [Executions -> Task!AgentBoardTaskExecution]
      /\ \A u \in Executions : s2'[u] = IF u = e THEN x ELSE s2[u]
      /\ s2' \in [Executions -> Task!AgentBoardTaskExecution]
  BY DEF Task!TasksFit
<1>1. \A u \in Executions : s2'[u].task = s2[u].task /\ (s2'[u].status \in Task!Open <=> s2[u].status \in Task!Open)
  BY <1>0
<1>2. \A p \in Tasks : Task!Complete(p) <=> Task!Complete(p)'
  BY DEF Task!Complete
<1>3. \A u \in Tasks : s1[u].parents \subseteq Tasks /\ s1[u].active \in Executions \cup {NoExecution}
  BY TasksParts
<1> QED BY <1>0, <1>1, <1>2, <1>3 DEF Task!TasksFit

\* One delivery moves, with the receipt and the call of one execution: at most one delivery calls its agent.
LEMMA RunsMove ==
  ASSUME Task!RunsFit, NEW d \in Deliveries, NEW q \in Task!Delivery, s3' = [s3 EXCEPT ![d] = q],
         s6' \in [Executions -> {"none", "applying", "complete"}], s7' \in [Executions -> {0, 1}],
         s8' = s8,
         NEW e \in Executions, \A f \in Executions \ {e} : s6'[f] = s6[f] /\ s7'[f] = s7[f],
         s6[e] = "complete" => s6'[e] = "complete",
         s6'[e] = "none" => s7'[e] = 0, s6'[e] = "complete" => s7'[e] = 1,
         \A f \in Executions : s2'[f].status = "succeeded" => s6'[f] = "complete",
         Task!DeliveryFits(q, s6', s7'),
         \/ s6'[e] = s6[e] /\ s7'[e] = s7[e]
         \/ \A b \in Deliveries \ {d} : Task!At(b, "executing") => Task!Of(b) # e,
         q.pc = "executing" => \A b \in Deliveries \ {d} : Task!At(b, "executing") => Task!Of(b) # q.execution
  PROVE  Task!RunsFit'
<1>0. /\ s3 \in [Deliveries -> Task!Delivery] /\ s3' \in [Deliveries -> Task!Delivery] /\ s8 \subseteq Executions
      /\ \A b \in Deliveries : s3'[b] = IF b = d THEN q ELSE s3[b]
  BY DEF Task!RunsFit
<1>1. ASSUME NEW f \in Executions
      PROVE  /\ s6'[f] = "none" => s7'[f] = 0
             /\ s6'[f] = "complete" => s7'[f] = 1
             /\ s2'[f].status = "succeeded" \/ f \in s8' => s6'[f] = "complete"
  BY DEF Task!RunsFit
<1>2. ASSUME NEW b \in Deliveries
      PROVE  Task!DeliveryFits(s3'[b], s6', s7')
  <2>1. CASE b = d
    BY <1>0, <2>1
  <2>2. CASE b # d
    <3>1. Task!DeliveryFits(s3[b], s6, s7) /\ s3'[b] = s3[b]
      BY <1>0, <2>2 DEF Task!RunsFit
    <3>2. s3[b].pc # "idle" => s3[b].execution \in Executions
      BY <3>1 DEF Task!DeliveryFits
    <3>3. \A f \in Executions : s6[f] = "complete" => s6'[f] = "complete"
      OBVIOUS
    <3>4. s3[b].pc = "executing" => /\ s6'[s3[b].execution] = s6[s3[b].execution]
                                    /\ s7'[s3[b].execution] = s7[s3[b].execution]
      BY <2>2, <3>2 DEF Task!At, Task!Of
    <3> QED BY <3>1, <3>2, <3>3, <3>4 DEF Task!DeliveryFits
  <2> QED BY <2>1, <2>2
<1>3. ASSUME NEW c \in Deliveries, NEW b \in Deliveries, s3'[c].pc = "executing", s3'[b].pc = "executing",
             s3'[c].execution = s3'[b].execution
      PROVE  c = b
  BY <1>0, <1>3 DEF Task!RunsFit, Task!At, Task!Of
<1> QED BY <1>0, <1>1, <1>2, <1>3 DEF Task!RunsFit, Task!At, Task!Of

\* What the invariant says of receipts, calls and deliveries.
LEMMA RunsParts ==
  ASSUME Task!RunsFit
  PROVE  /\ s6 \in [Executions -> {"none", "applying", "complete"}] /\ s7 \in [Executions -> {0, 1}]
         /\ \A e \in Executions : /\ s6[e] = "none" => s7[e] = 0
                                  /\ s6[e] = "complete" => s7[e] = 1
                                  /\ s2[e].status = "succeeded" => s6[e] = "complete"
         /\ \A d \in Deliveries : s3[d] \in Task!Delivery /\ Task!DeliveryFits(s3[d], s6, s7)
         /\ \A d, b \in Deliveries : Task!At(d, "executing") /\ Task!At(b, "executing") /\ Task!Of(d) = Task!Of(b) => d = b
  BY DEF Task!RunsFit

\* A delivery that moves, and calls no agent, keeps it.
LEMMA DeliveryMoves ==
  ASSUME Task!RunsFit, NEW d \in Deliveries, NEW q \in Task!Delivery, s3' = [s3 EXCEPT ![d] = q],
         UNCHANGED <<s6, s7, s8>>, q.execution \in Executions,
         \A f \in Executions : s2'[f].status = "succeeded" => s6[f] = "complete",
         Task!DeliveryFits(q, s6, s7), q.pc # "executing"
  PROVE  Task!RunsFit'
<1>1. Task!DeliveryFits(q, s6', s7')
  OBVIOUS
<1> DEFINE e == q.execution
<1>2. /\ s6[e] = "complete" => s6'[e] = "complete"
      /\ s6'[e] = "none" => s7'[e] = 0
      /\ s6'[e] = "complete" => s7'[e] = 1
      /\ s6'[e] = s6[e] /\ s7'[e] = s7[e] /\ s8' = s8
      /\ s6' \in [Executions -> {"none", "applying", "complete"}] /\ s7' \in [Executions -> {0, 1}]
  BY RunsParts
<1>3. \A f \in Executions : s2'[f].status = "succeeded" => s6'[f] = "complete"
  OBVIOUS
<1>4. \A f \in Executions \ {e} : s6'[f] = s6[f] /\ s7'[f] = s7[f]
  OBVIOUS
<1> QED BY <1>1, <1>2, <1>3, <1>4, RunsMove

\* A delivery that goes on is a delivery, of the same execution.
LEMMA StepsTo ==
  ASSUME Task!RunsFit, NEW d \in Deliveries, ~ Task!At(d, "idle"), NEW pc \in {"claimed", "calling", "executing", "returned", "finishing", "done"},
         NEW result \in {"none", "succeeded", "failed", "uncertain"}, Task!StepTo(d, pc, result)
  PROVE  \E q \in Task!Delivery : /\ s3' = [s3 EXCEPT ![d] = q] /\ q.pc = pc /\ q.result = result
                                  /\ q.execution = Task!Of(d) /\ q.execution \in Executions
<1> DEFINE q == [s3[d] EXCEPT !.pc = pc, !.result = result]
<1>1. s3[d] \in Task!Delivery /\ s3 \in [Deliveries -> Task!Delivery] /\ Task!Of(d) \in Executions
  BY DEF Task!RunsFit, Task!DeliveryFits, Task!At, Task!Of
<1>2. q \in Task!Delivery /\ q.pc = pc /\ q.result = result /\ q.execution = Task!Of(d)
  BY <1>1 DEF Task!Delivery, Task!Of
<1>3. s3' = [s3 EXCEPT ![d] = q]
  BY <1>1 DEF Task!StepTo
<1> HIDE DEF q
<1> QED BY <1>1, <1>2, <1>3

\* Every step of a delivery keeps the invariant.
LEMMA TaskWorkerSteps ==
  ASSUME Task!TaskInv, NEW d \in Deliveries,
         \/ Task!checkPolicy(d) \/ Task!create_task_receipt(d) \/ Task!execute(d) \/ Task!recheckPolicy(d) \/ Task!finishExecution(d) \/ Task!DeliveryStops(d)
         \/ \E e \in Executions : Task!claimExecution(d, e)
  PROVE  Task!TaskInv'
<1>0. /\ Task!TasksFit /\ Task!RunsFit /\ s4' \in 1..MaxTaskEpoch /\ s5' \in BOOLEAN
      /\ Task!DeliveryFits(s3[d], s6, s7) /\ s3[d] \in Task!Delivery
      /\ \A f \in Executions : s2[f].status = "succeeded" => s6[f] = "complete"
  BY RunsParts DEF Task!TaskInv, Task!checkPolicy, Task!create_task_receipt, Task!execute, Task!recheckPolicy,
     Task!finishExecution, Task!DeliveryStops, Task!claimExecution
<1>1. ASSUME s1' = s1, s2' = s2 PROVE Task!TasksFit'
  BY <1>0, <1>1 DEF Task!TasksFit, Task!Complete
<1>2. ASSUME NEW pc \in {"calling", "finishing", "done"}, NEW result \in {"none", "failed", "uncertain"}, Task!StepTo(d, pc, result), ~ Task!At(d, "idle"),
             UNCHANGED <<s1, s2, s6, s7, s8>>, pc = "finishing" => result # "none"
      PROVE  Task!TaskInv'
  <2>1. PICK q \in Task!Delivery : /\ s3' = [s3 EXCEPT ![d] = q] /\ q.pc = pc /\ q.result = result
                                   /\ q.execution = Task!Of(d) /\ q.execution \in Executions
    BY <1>0, <1>2, StepsTo
  <2>2. Task!DeliveryFits(q, s6, s7) /\ q.pc # "executing"
    BY <1>2, <2>1 DEF Task!DeliveryFits
  <2>3. Task!RunsFit'
    BY <1>0, <1>2, <2>1, <2>2, DeliveryMoves
  <2> QED BY <1>0, <1>1, <1>2, <2>3 DEF Task!TaskInv
<1>3. CASE Task!checkPolicy(d)
  <2>1. ~ Task!At(d, "idle") /\ UNCHANGED <<s1, s2, s6, s7, s8>>
        /\ (Task!StepTo(d, "calling", "none") \/ Task!StepTo(d, "finishing", "failed"))
    BY <1>3 DEF Task!checkPolicy, Task!At
  <2> QED BY <1>2, <2>1
<1>4. CASE Task!DeliveryStops(d)
  <2>1. ~ Task!At(d, "idle") /\ UNCHANGED <<s1, s2, s6, s7, s8>> /\ Task!StepTo(d, "done", "none")
    BY <1>4 DEF Task!DeliveryStops, Task!At
  <2> QED BY <1>2, <2>1
<1>5. CASE Task!create_task_receipt(d)
  <2>0. ~ Task!At(d, "idle") /\ UNCHANGED <<s1, s2, s7, s8>>
    BY <1>5 DEF Task!create_task_receipt, Task!At
  <2>1. CASE Task!StepTo(d, "finishing", "uncertain") /\ UNCHANGED s6
    BY <1>2, <2>0, <2>1
  <2>2. CASE s6[Task!Of(d)] = "none" /\ s6' = Task!TaskReceipt(Task!Of(d), "applying") /\ Task!StepTo(d, "executing", "none")
    <3>1. PICK q \in Task!Delivery : /\ s3' = [s3 EXCEPT ![d] = q] /\ q.pc = "executing" /\ q.result = "none"
                                     /\ q.execution = Task!Of(d) /\ q.execution \in Executions
      BY <1>0, <2>0, <2>2, StepsTo
    <3> DEFINE e == q.execution
    <3>2. /\ s6' \in [Executions -> {"none", "applying", "complete"}] /\ s7' \in [Executions -> {0, 1}]
          /\ s6'[e] = "applying" /\ s7'[e] = 0 /\ s6[e] = "none"
          /\ \A f \in Executions \ {e} : s6'[f] = s6[f] /\ s7'[f] = s7[f]
      BY <1>0, <2>0, <2>2, <3>1, RunsParts DEF Task!TaskReceipt
    <3>3. \A b \in Deliveries \ {d} : Task!At(b, "executing") => Task!Of(b) # e
      BY <1>0, <3>2, RunsParts DEF Task!DeliveryFits, Task!At, Task!Of
    <3>4. \A f \in Executions : s2'[f].status = "succeeded" => s6'[f] = "complete"
      BY <1>0, <2>0, <3>2
    <3>5. Task!DeliveryFits(q, s6', s7')
      BY <3>1, <3>2 DEF Task!DeliveryFits
    <3>6. Task!RunsFit'
      BY <1>0, <2>0, <3>1, <3>2, <3>3, <3>4, <3>5, RunsMove
    <3> QED BY <1>0, <1>1, <2>0, <3>6 DEF Task!TaskInv
  <2> QED BY <1>5, <2>1, <2>2 DEF Task!create_task_receipt
<1>6. CASE Task!execute(d)
  <2>0. ~ Task!At(d, "idle") /\ Task!At(d, "executing") /\ UNCHANGED <<s1, s2, s8>> /\ s7' = [s7 EXCEPT ![Task!Of(d)] = @ + 1]
    BY <1>6 DEF Task!execute, Task!At
  <2>1. \/ Task!StepTo(d, "returned", "succeeded") /\ s6' = Task!TaskReceipt(Task!Of(d), "complete")
        \/ Task!StepTo(d, "finishing", "uncertain") /\ UNCHANGED s6
    BY <1>6 DEF Task!execute
  <2>2. PICK pc \in {"returned", "finishing"}, result \in {"succeeded", "uncertain"} :
          /\ Task!StepTo(d, pc, result)
          /\ \/ pc = "returned" /\ result = "succeeded" /\ s6' = Task!TaskReceipt(Task!Of(d), "complete")
             \/ pc = "finishing" /\ result = "uncertain" /\ UNCHANGED s6
    BY <2>1
  <2>3. PICK q \in Task!Delivery : /\ s3' = [s3 EXCEPT ![d] = q] /\ q.pc = pc /\ q.result = result
                                   /\ q.execution = Task!Of(d) /\ q.execution \in Executions
    BY <1>0, <2>0, <2>2, StepsTo
  <2> DEFINE e == q.execution
  <2>4. s6[e] = "applying" /\ s7[e] = 0
    BY <1>0, <2>0, <2>3 DEF Task!DeliveryFits, Task!At, Task!Of
  <2>5. /\ s6' \in [Executions -> {"none", "applying", "complete"}] /\ s7' \in [Executions -> {0, 1}]
        /\ s6'[e] = (IF result = "succeeded" THEN "complete" ELSE "applying") /\ s7'[e] = 1
        /\ \A f \in Executions \ {e} : s6'[f] = s6[f] /\ s7'[f] = s7[f]
    BY <1>0, <2>0, <2>2, <2>3, <2>4, RunsParts DEF Task!TaskReceipt
  <2>6. \A b \in Deliveries \ {d} : Task!At(b, "executing") => Task!Of(b) # e
    BY <1>0, <2>0, <2>3, RunsParts DEF Task!At, Task!Of
  <2>7. \A f \in Executions : s2'[f].status = "succeeded" => s6'[f] = "complete"
    BY <1>0, <2>0, <2>4, <2>5
  <2>8. Task!DeliveryFits(q, s6', s7') /\ q.pc # "executing"
    BY <2>2, <2>3, <2>5 DEF Task!DeliveryFits
  <2>9. s6'[e] # "none"
    BY <2>5
  <2>10. Task!RunsFit'
    BY <1>0, <2>0, <2>3, <2>4, <2>5, <2>6, <2>7, <2>8, <2>9, RunsMove
  <2> QED BY <1>0, <1>1, <2>0, <2>10 DEF Task!TaskInv
<1>7. CASE Task!recheckPolicy(d)
  <2>0. ~ Task!At(d, "idle") /\ Task!At(d, "returned") /\ UNCHANGED <<s1, s2, s6, s7, s8>>
        /\ (Task!StepTo(d, "finishing", "succeeded") \/ Task!StepTo(d, "finishing", "uncertain"))
    BY <1>7 DEF Task!recheckPolicy, Task!At
  <2>1. CASE Task!StepTo(d, "finishing", "uncertain")
    BY <1>2, <2>0, <2>1
  <2>2. CASE Task!StepTo(d, "finishing", "succeeded")
    <3>1. PICK q \in Task!Delivery : /\ s3' = [s3 EXCEPT ![d] = q] /\ q.pc = "finishing" /\ q.result = "succeeded"
                                     /\ q.execution = Task!Of(d) /\ q.execution \in Executions
      BY <1>0, <2>0, <2>2, StepsTo
    <3>2. Task!DeliveryFits(q, s6, s7) /\ q.pc # "executing"
      BY <1>0, <2>0, <3>1 DEF Task!DeliveryFits, Task!At, Task!Of
    <3>3. Task!RunsFit'
      BY <1>0, <2>0, <3>1, <3>2, DeliveryMoves
    <3> QED BY <1>0, <1>1, <2>0, <3>3 DEF Task!TaskInv
  <2> QED BY <2>0, <2>1, <2>2
<1>8. CASE Task!finishExecution(d)
  <2> DEFINE e == Task!Of(d)
             result == s3[d].result
  <2>0. ~ Task!At(d, "idle") /\ Task!At(d, "finishing") /\ UNCHANGED <<s6, s7, s8>> /\ Task!StepTo(d, "done", result)
    BY <1>8 DEF Task!finishExecution, Task!At
  <2>1. e \in Executions /\ result \in {"succeeded", "failed", "uncertain"} /\ (result = "succeeded" => s6[e] = "complete")
    BY <1>0, <2>0 DEF Task!DeliveryFits, Task!At, Task!Of, Task!Delivery
  <2>2. Task!TasksFit' /\ \A f \in Executions : s2'[f].status = "succeeded" => s6[f] = "complete"
    <3>1. CASE Task!mayFinish(e, d)
      <4>1. s2[e].status \in Task!Open
        BY <3>1 DEF Task!mayFinish, Task!Open
      <4>2. /\ Task!StoreExecution(e, [s2[e] EXCEPT !.status = result, !.claim = Nobody, !.leased = FALSE])
            /\ Task!StoreTask(s2[e].task, Task!finishAgentBoardTaskExecution(s1[s2[e].task], e, result))
        BY <1>8, <3>1 DEF Task!finishExecution
      <4> HIDE DEF e, result
      <4>3. Task!TasksFit' /\ \A f \in Executions : s2'[f].status = IF f = e THEN result ELSE s2[f].status
        BY <1>0, <2>1, <4>1, <4>2, ExecutionCloses
      <4> QED BY <1>0, <2>1, <4>3
    <3>2. CASE ~ Task!mayFinish(e, d)
      BY <1>0, <1>1, <1>8, <3>2 DEF Task!finishExecution
    <3> QED BY <3>1, <3>2
  <2>3. PICK q \in Task!Delivery : /\ s3' = [s3 EXCEPT ![d] = q] /\ q.pc = "done" /\ q.result = result
                                   /\ q.execution = Task!Of(d) /\ q.execution \in Executions
    BY <1>0, <2>0, <2>1, StepsTo
  <2>4. Task!DeliveryFits(q, s6, s7) /\ q.pc # "executing"
    BY <2>1, <2>3 DEF Task!DeliveryFits
  <2>5. Task!RunsFit'
    BY <1>0, <2>0, <2>2, <2>3, <2>4, DeliveryMoves
  <2> QED BY <1>0, <2>2, <2>5 DEF Task!TaskInv
<1>9. ASSUME NEW e \in Executions, Task!claimExecution(d, e) PROVE Task!TaskInv'
  <2> DEFINE x == Task!claimAgentBoardTaskExecution(s2[e], d)
             q == [pc |-> "claimed", execution |-> e, result |-> "none"]
  <2>1. /\ s1' = s1 /\ s2' = [s2 EXCEPT ![e] = x] /\ s2[e].status = "queued"
        /\ s3' = [s3 EXCEPT ![d] = q] /\ UNCHANGED <<s6, s7, s8>>
    BY <1>9 DEF Task!claimExecution, Task!StoreExecution
  <2>2. s2 \in [Executions -> Task!AgentBoardTaskExecution]
    BY <1>0 DEF Task!TasksFit
  <2>3. x \in Task!AgentBoardTaskExecution /\ x.status = "running" /\ x.task = s2[e].task
    BY <2>2 DEF Task!claimAgentBoardTaskExecution, Task!AgentBoardTaskExecution, Task!AgentBoardTaskExecutionStatus
  <2> HIDE DEF x
  <2>4. {x.status, s2[e].status} \subseteq Task!Open
    BY <2>1, <2>3 DEF Task!Open
  <2>5. Task!TasksFit'
    BY <1>0, <2>1, <2>3, <2>4, ExecutionMoves
  <2>6. \A f \in Executions : s2'[f].status = "succeeded" => s6[f] = "complete"
    BY <1>0, <2>1, <2>2, <2>3
  <2>7. q \in Task!Delivery /\ q.pc = "claimed" /\ q.result = "none" /\ q.execution = e
    BY DEF Task!Delivery
  <2> HIDE DEF q
  <2>8. Task!DeliveryFits(q, s6, s7) /\ q.pc # "executing"
    BY <2>7 DEF Task!DeliveryFits
  <2>9. Task!RunsFit'
    BY <1>0, <2>1, <2>6, <2>7, <2>8, DeliveryMoves
  <2> QED BY <1>0, <2>5, <2>9 DEF Task!TaskInv
<1> QED BY <1>3, <1>4, <1>5, <1>6, <1>7, <1>8, <1>9

\* The invariant of the tasks holds before there is one.
LEMMA TaskInitially == Task!TaskInit => Task!TaskInv
<1> SUFFICES ASSUME Task!TaskInit PROVE Task!TaskInv
  OBVIOUS
<1> DEFINE x == [status |-> "none", task |-> CHOOSE t \in Tasks : TRUE, epoch |-> 0, claim |-> Nobody, leased |-> FALSE]
           q == [pc |-> "idle", execution |-> NoExecution, result |-> "none"]
<1>1. (CHOOSE t \in Tasks : TRUE) \in Tasks /\ 0 \in 0..MaxTaskEpoch /\ 1 \in 1..MaxTaskEpoch
  BY TaskAssumption
<1>2. x \in Task!AgentBoardTaskExecution /\ x.status = "none"
  BY <1>1 DEF Task!AgentBoardTaskExecution, Task!AgentBoardTaskExecutionStatus
<1>3. q \in Task!Delivery /\ q.pc = "idle" /\ q.result = "none"
  BY DEF Task!Delivery
<1>4. Task!NoTask \in Task!AgentBoardTask /\ Task!NoTask.status = "none" /\ Task!NoTask.active = NoExecution /\ Task!NoTask.completed = FALSE
  BY DEF Task!NoTask, Task!AgentBoardTask
<1>5. /\ s1 = [t \in Tasks |-> Task!NoTask] /\ s2 = [e \in Executions |-> x] /\ s3 = [d \in Deliveries |-> q]
      /\ s4 = 1 /\ s5 = FALSE /\ s6 = [e \in Executions |-> "none"] /\ s7 = [e \in Executions |-> 0] /\ s8 = {}
  BY DEF Task!TaskInit
<1> HIDE DEF x, q
<1>6. Task!TasksFit
  BY <1>2, <1>4, <1>5 DEF Task!TasksFit, Task!TaskFits, Task!Forward, Task!Open
<1>7. Task!RunsFit
  BY <1>2, <1>3, <1>5 DEF Task!RunsFit, Task!DeliveryFits, Task!At
<1> QED BY <1>1, <1>5, <1>6, <1>7 DEF Task!TaskInv

\* Every step of the tasks keeps their invariant.
LEMMA TasksGoOn == Task!TaskInv /\ [Task!TaskNext]_Task!taskVars => Task!TaskInv'
<1> SUFFICES ASSUME Task!TaskInv, [Task!TaskNext]_Task!taskVars PROVE Task!TaskInv'
  OBVIOUS
<1>0. Task!TasksFit /\ Task!RunsFit /\ s4 \in 1..MaxTaskEpoch /\ s5 \in BOOLEAN
  BY DEF Task!TaskInv
<1>1. ASSUME s1' = s1, s2' = s2 PROVE Task!TasksFit'
  BY <1>0, <1>1 DEF Task!TasksFit, Task!Complete
<1>2. CASE UNCHANGED Task!taskVars
  BY <1>0, <1>1, <1>2, TaskRuns DEF Task!TaskInv, Task!taskVars
<1>3. ASSUME NEW t \in Tasks, Task!createTask(t) \/ Task!rearrangeTask(t) \/ \E actor \in People : Task!updateTask(t, actor)
      PROVE  Task!TaskInv'
  <2>1. UNCHANGED <<s2, s3, s4, s5, s6, s7, s8>>
    BY <1>3 DEF Task!createTask, Task!rearrangeTask, Task!updateTask
  <2> QED BY <1>0, <1>3, <2>1, TasksEdited, TaskRuns DEF Task!TaskInv
<1>4. ASSUME NEW t \in Tasks, NEW e \in Executions, Task!releaseTask(t, e) PROVE Task!TaskInv'
  <2>1. UNCHANGED <<s3, s4, s5, s6, s7, s8>>
    BY <1>4 DEF Task!releaseTask
  <2> QED BY <1>0, <1>4, <2>1, TaskReleased, TaskRuns DEF Task!TaskInv
<1>5. ASSUME NEW t \in Tasks, Task!handoffTask(t) PROVE Task!TaskInv'
  <2>1. /\ UNCHANGED <<s1, s2, s3, s4, s5, s6, s7>>
        /\ s1[t].last \in Executions \cup {NoExecution} /\ s1[t].last # NoExecution
        /\ s2[s1[t].last].status = "succeeded" /\ s8' = s8 \cup {s1[t].last}
    BY <1>0, <1>5, TasksParts DEF Task!handoffTask, Task!createContentHandoff, Task!mayHandoff
  <2>2. Task!RunsFit'
    BY <1>0, <2>1 DEF Task!RunsFit, Task!DeliveryFits, Task!At, Task!Of
  <2> QED BY <1>0, <1>1, <2>1, <2>2 DEF Task!TaskInv
<1>6. CASE Task!PolicyChanges \/ Task!PolicySettles
  <2>1. UNCHANGED <<s1, s2, s3, s6, s7, s8>> /\ s4' \in 1..MaxTaskEpoch /\ s5' \in BOOLEAN
    <3>1. s4 < MaxTaskEpoch => s4 + 1 \in 1..MaxTaskEpoch
      BY <1>0, TaskAssumption
    <3> QED BY <1>0, <1>6, <3>1 DEF Task!PolicyChanges, Task!PolicySettles
  <2> QED BY <1>0, <1>1, <2>1, TaskRuns DEF Task!TaskInv
<1>7. ASSUME NEW d \in Deliveries,
             \/ Task!checkPolicy(d) \/ Task!create_task_receipt(d) \/ Task!execute(d) \/ Task!recheckPolicy(d) \/ Task!finishExecution(d) \/ Task!DeliveryStops(d)
             \/ \E e \in Executions : Task!claimExecution(d, e)
      PROVE  Task!TaskInv'
  BY <1>7, TaskWorkerSteps
<1>8. ASSUME NEW e \in Executions, Task!recoverExpiredExecutions(e) PROVE Task!TaskInv'
  <2>1. s2[e].status \in Task!Open /\ UNCHANGED <<s3, s4, s5, s6, s7, s8>>
    BY <1>8 DEF Task!recoverExpiredExecutions, Task!Open
  <2>2. Task!StoreExecution(e, [s2[e] EXCEPT !.status = "uncertain", !.claim = Nobody, !.leased = FALSE])
        /\ Task!StoreTask(s2[e].task, Task!finishAgentBoardTaskExecution(s1[s2[e].task], e, "uncertain"))
    BY <1>8 DEF Task!recoverExpiredExecutions, Task!expireAgentBoardTaskExecution
  <2>3. Task!TasksFit' /\ \A f \in Executions : s2'[f].status = IF f = e THEN "uncertain" ELSE s2[f].status
    BY <1>0, <2>1, <2>2, ExecutionCloses
  <2> QED BY <1>0, <2>1, <2>3, TaskRuns DEF Task!TaskInv
<1>9. ASSUME NEW e \in Executions, Task!ExecutionLeaseExpires(e) PROVE Task!TaskInv'
  <2> DEFINE x == [s2[e] EXCEPT !.leased = FALSE]
  <2>1. UNCHANGED <<s1, s3, s4, s5, s6, s7, s8>> /\ s2' = [s2 EXCEPT ![e] = x]
    BY <1>9 DEF Task!ExecutionLeaseExpires, Task!StoreExecution
  <2>2. s2 \in [Executions -> Task!AgentBoardTaskExecution]
    BY <1>0 DEF Task!TasksFit
  <2>3. x \in Task!AgentBoardTaskExecution /\ x.status = s2[e].status /\ x.task = s2[e].task
    BY <2>2 DEF Task!AgentBoardTaskExecution
  <2> HIDE DEF x
  <2>4. Task!TasksFit'
    BY <1>0, <2>1, <2>3, ExecutionMoves
  <2>5. \A f \in Executions : s2'[f].status = s2[f].status
    BY <2>1, <2>2, <2>3
  <2> QED BY <1>0, <2>1, <2>4, <2>5, TaskRuns DEF Task!TaskInv
<1> QED BY <1>2, <1>3, <1>4, <1>5, <1>6, <1>7, <1>8, <1>9 DEF Task!TaskNext, Task!TaskPeople, Task!TaskWorker

\* It contains what the tasks promise.
LEMMA TaskHolds ==
  Task!TaskInv => /\ Task!TaskTypeOK /\ Task!InvokedOnce /\ Task!DependenciesFinished /\ Task!ApprovedByAnother /\ Task!ActiveExecutionAnswers /\ Task!HandoffIsAResult
<1> SUFFICES ASSUME Task!TaskInv PROVE /\ Task!TaskTypeOK /\ Task!InvokedOnce /\ Task!DependenciesFinished /\ Task!ApprovedByAnother /\ Task!ActiveExecutionAnswers /\ Task!HandoffIsAResult
  OBVIOUS
<1>0. Task!TasksFit /\ Task!RunsFit
  BY DEF Task!TaskInv
<1>1. s7 \in [Executions -> Nat] /\ \A e \in Executions : s7[e] <= 1
  BY <1>0 DEF Task!RunsFit
<1>2. Task!TaskTypeOK
  BY <1>0, <1>1 DEF Task!TaskTypeOK, Task!TaskInv, Task!TasksFit, Task!RunsFit
<1>3. \A p \in Tasks : Task!Complete(p) => s1[p].reviewedBy # Nobody /\ s1[p].status \in {"done", "archived"}
  BY <1>0, TaskAssumption DEF Task!Complete, Task!TasksFit, Task!TaskFits
<1>4. Task!DependenciesFinished
  BY <1>0, <1>3, TasksParts DEF Task!DependenciesFinished, Task!TasksFit
<1>5. Task!ApprovedByAnother
  BY <1>0 DEF Task!ApprovedByAnother, Task!TasksFit, Task!TaskFits
<1>6. Task!ActiveExecutionAnswers
  BY <1>0, TaskAssumption DEF Task!ActiveExecutionAnswers, Task!TasksFit, Task!Open
<1>7. Task!HandoffIsAResult
  BY <1>0 DEF Task!HandoffIsAResult, Task!RunsFit
<1> QED BY <1>1, <1>2, <1>4, <1>5, <1>6, <1>7 DEF Task!InvokedOnce

-----------------------------------------------------------------------------
(* Proofs.  Agent posts.                                                   *)

\* What it means that a run is before a stage.
LEMMA BeforeStages ==
  ASSUME NEW run
  PROVE  /\ Post!Before(run, "writing") <=> run.status \in Post!Early
         /\ Post!Before(run, "reviewing-copy") <=> run.status \in Post!Early \cup {"writing"}
         /\ Post!Before(run, "reviewing-image") <=> ~ run.output
         /\ Post!Before(run, "drafting") <=> run.imageReview # "passed"
         /\ Post!Once = {"writing", "reviewing-copy", "reviewing-image", "drafting"}
  BY DEF Post!Before, Post!Once, Post!Stages

\* A run continues another one when what is settled stays and no stage is taken twice.
LEMMA ContinuesMeans ==
  ASSUME NEW run, NEW new, Post!RunFits(new), new.item = run.item, new.status # "none",
         run.status \notin Post!Early => new.status \notin Post!Early /\ new.evidence = run.evidence,
         run.output => new.output,
         run.copyReview = "passed" /\ run.output => new.copyReview = "passed",
         run.imageReview = "passed" => new.imageReview = "passed",
         new.status = "writing" => run.status \in Post!Early,
         new.status = "reviewing-copy" => run.status \in Post!Early \cup {"writing"},
         new.status = "reviewing-image" => ~ run.output,
         new.status = "drafting" => run.imageReview # "passed",
         new.status \in Post!Early => run.status \in Post!Early,
         new.status \in Post!Early \cup {"writing"} => run.status \in Post!Early \cup {"writing"}
  PROVE  Post!Continues(run, new)
<1>1. ASSUME NEW s \in Post!Once
      PROVE  /\ new.status = s => Post!Before(run, s)
             /\ Post!Before(new, s) => Post!Before(run, s)
  <2>1. s \in {"writing", "reviewing-copy", "reviewing-image", "drafting"}
    BY BeforeStages
  <2>2. CASE s = "writing"
    BY <2>2, BeforeStages
  <2>3. CASE s = "reviewing-copy"
    BY <2>3, BeforeStages
  <2>4. CASE s = "reviewing-image"
    BY <2>4, BeforeStages
  <2>5. CASE s = "drafting"
    BY <2>5, BeforeStages
  <2> QED BY <2>1, <2>2, <2>3, <2>4, <2>5
<1> QED BY <1>1 DEF Post!Continues

\* Posts and workers that nobody moves fit, as long as the drafts of the items stay.
LEMMA WorldFits ==
  ASSUME Post!PostInv, UNCHANGED <<s1, s5, s7>>,
         \A i, r \in Posts : s2'[i].drafts[r] = s2[i].drafts[r],
         \A r \in Posts : Post!DraftsFit(r)'
  PROVE  (\A r \in Posts : Post!PostFits(r)') /\ \A w \in Tickers : Post!TickerFits(w)'
<1>1. \A w \in Tickers : \A s : Post!At(w, s)' <=> Post!At(w, s)
  BY DEF Post!At
<1>2. \A r \in Posts : \A s \in Post!Once : Post!Unspent(r, s)' <=> Post!Unspent(r, s)
  BY DEF Post!Unspent
<1>3. \A r \in Posts : \A s \in Post!Once : Post!Fresh(r, s)' <=> Post!Fresh(r, s)
  BY <1>1, <1>2 DEF Post!Fresh
<1>4. ASSUME NEW r \in Posts
      PROVE  Post!PostFits(r)'
  <2>1. Post!PostFits(r)
    BY DEF Post!PostInv
  <2>2. Post!DraftsFit(r)'
    OBVIOUS
  <2> QED BY <1>3, <2>1, <2>2 DEF Post!PostFits
<1>5. ASSUME NEW w \in Tickers
      PROVE  Post!TickerFits(w)'
  <2>1. Post!TickerFits(w) /\ s5[w].post \in Posts
    BY DEF Post!PostInv, Post!PostTypeOK, Post!Ticker
  <2>2. \A s \in Post!Once : Post!Alone(w, s) => Post!Alone(w, s)'
    BY <1>1, <1>2, <2>1 DEF Post!Alone
  <2>3. Post!ClaimFits(s5[w].run, s5[w].post) => Post!ClaimFits(s5[w].run, s5[w].post)'
    BY DEF Post!ClaimFits
  <2> QED BY <2>1, <2>2, <2>3 DEF Post!TickerFits
<1> QED BY <1>4, <1>5

\* A run that is saved as a continuation of itself, by nobody, keeps posts and workers fitting.
LEMMA RunContinues ==
  ASSUME Post!PostInv, NEW r \in Posts, NEW new \in Post!AgentPostRun, Post!Continues(s1[r], new), new.inFlight = NoTicker,
         s1[r].status \notin {"none", "ready"}, s1' = [s1 EXCEPT ![r] = new],
         NEW w0, s5' = s5 \/ s5' = [s5 EXCEPT ![w0] = Post!IdleTicker],
         UNCHANGED <<s2, s7, s8, s9>>
  PROVE  (\A q \in Posts : Post!PostFits(q)') /\ \A w \in Tickers : Post!TickerFits(w)'
<1>0. /\ s1 \in [Posts -> Post!AgentPostRun] /\ \A q \in Posts : s1'[q] = IF q = r THEN new ELSE s1[q]
      /\ \A w \in Tickers : s5'[w] = s5[w] \/ s5'[w] = Post!IdleTicker
      /\ Post!IdleTicker.pc = "idle" /\ \A w \in Tickers : s5[w].post \in Posts
  BY DEF Post!PostInv, Post!PostTypeOK, Post!IdleTicker, Post!Ticker
<1>c. Post!RunFits(s1[r]) /\ Post!RunFits(new) /\ Post!PostFits(r)
  BY DEF Post!Continues, Post!PostInv, Post!PostFits
<1>1. \A w \in Tickers : \A s : Post!At(w, s)' => Post!At(w, s) /\ s5'[w] = s5[w]
  BY <1>0 DEF Post!At
<1>2. \A q \in Posts : \A s \in Post!Once : Post!Unspent(q, s)' <=> Post!Unspent(q, s)
  BY DEF Post!Unspent
<1>3. \A q \in Posts : \A s \in Post!Once : Post!Fresh(q, s) => Post!Fresh(q, s)'
  BY <1>1, <1>2 DEF Post!Fresh
<1>4. ASSUME NEW q \in Posts
      PROVE  Post!PostFits(q)'
  <2>1. Post!PostFits(q)
    BY DEF Post!PostInv
  <2>2. CASE q = r
    <3>1. \A s \in Post!Once : Post!Before(new, s) \/ new.status = s => Post!Before(s1[r], s)
      BY DEF Post!Continues
    <3>2. \A s \in Post!Once : Post!Before(new, s) \/ (new.status = s /\ new.inFlight = NoTicker) => Post!Fresh(r, s)'
      BY <1>3, <1>c, <3>1 DEF Post!PostFits
    <3>3. s1[r].imageReview = "passed" =>
            /\ new.imageReview = "passed" /\ new.copyReview = "passed" /\ new.evidence = s1[r].evidence
      BY <1>c DEF Post!Continues, Post!RunFits, Post!Early, Post!agentPostStages, Post!postRunTerminal
    <3>4. Post!DraftsFit(r)'
      <4>1. ASSUME NEW i \in Posts
            PROVE  /\ s2[i].drafts[r] <= 1
                   /\ s2[i].drafts[r] > 0 => /\ i = new.item /\ new.status # "none" /\ s8[r] = new.evidence
                                             /\ new.copyReview = "passed" /\ new.imageReview = "passed"
                   /\ r \notin s2[i].targets
        BY <1>c, <3>3 DEF Post!PostFits, Post!DraftsFit, Post!Continues
      <4>2. s1'[r] = new
        BY <1>0
      <4> QED BY <4>1, <4>2 DEF Post!DraftsFit
    <3> QED BY <1>0, <1>c, <2>2, <3>2, <3>4 DEF Post!PostFits
  <2>3. CASE q # r
    <3>1. Post!DraftsFit(q)'
      BY <1>0, <2>1, <2>3 DEF Post!PostFits, Post!DraftsFit
    <3> QED BY <1>0, <1>3, <2>1, <2>3, <3>1 DEF Post!PostFits
  <2> QED BY <2>2, <2>3
<1>5. ASSUME NEW w \in Tickers
      PROVE  Post!TickerFits(w)'
  <2>1. Post!TickerFits(w)
    BY DEF Post!PostInv
  <2>2. CASE s5'[w] = Post!IdleTicker
    BY <1>0, <2>2 DEF Post!TickerFits
  <2>3. CASE s5'[w] = s5[w]
    <3>1. \A s \in Post!Once : Post!Alone(w, s) => Post!Alone(w, s)'
      BY <1>0, <1>1, <1>2, <2>3 DEF Post!Alone
    <3>2. s5[w].post # r => s1'[s5[w].post] = s1[s5[w].post]
      BY <1>0
    <3>3. Post!ClaimFits(s5[w].run, s5[w].post) => Post!ClaimFits(s5[w].run, s5[w].post)'
      <4>1. CASE s5[w].post = r
        <5>1. s1[r].imageReview = "passed" /\ s1[r].copyReview = "passed" => new.imageReview = "passed" /\ new.copyReview = "passed"
          BY <1>c DEF Post!Continues, Post!RunFits
        <5>2. new.item = s1[r].item /\ (s1[r].status \notin Post!Early => new.status \notin Post!Early /\ new.evidence = s1[r].evidence)
          BY DEF Post!Continues
        <5> QED BY <1>0, <2>3, <4>1, <5>1, <5>2 DEF Post!ClaimFits
      <4>2. CASE s5[w].post # r
        BY <1>0, <2>3, <3>2, <4>2 DEF Post!ClaimFits
      <4> QED BY <4>1, <4>2
    <3>4. s1'[s5[w].post].status # "none" \/ s5[w].pc = "idle"
      BY <1>0, <2>1, <3>2 DEF Post!TickerFits, Post!Continues
    <3>5. s1'[s5[w].post].inFlight = w => s1'[s5[w].post] = s1[s5[w].post]
      BY <1>0, <3>2, PostAssumption
    <3> QED BY <1>0, <2>1, <2>3, <3>1, <3>3, <3>4, <3>5 DEF Post!TickerFits
  <2> QED BY <1>0, <2>2, <2>3
<1> QED BY <1>4, <1>5

\* So does a run that is new.
LEMMA RunStarts ==
  ASSUME Post!PostInv, NEW r \in Posts, NEW new \in Post!AgentPostRun, Post!RunFits(new), new.inFlight = NoTicker, new.status # "none",
         s1[r].status = "none", s1' = [s1 EXCEPT ![r] = new], UNCHANGED <<s5, s2, s7, s8, s9>>
  PROVE  (\A q \in Posts : Post!PostFits(q)') /\ \A w \in Tickers : Post!TickerFits(w)'
<1>0. /\ s1 \in [Posts -> Post!AgentPostRun] /\ \A q \in Posts : s1'[q] = IF q = r THEN new ELSE s1[q]
      /\ \A w \in Tickers : s5[w].post \in Posts
  BY DEF Post!PostInv, Post!PostTypeOK, Post!Ticker
<1>1. \A w \in Tickers : \A s : Post!At(w, s)' <=> Post!At(w, s)
  BY DEF Post!At
<1>2. \A q \in Posts : \A s \in Post!Once : Post!Unspent(q, s)' <=> Post!Unspent(q, s)
  BY DEF Post!Unspent
<1>3. \A q \in Posts : \A s \in Post!Once : Post!Fresh(q, s) => Post!Fresh(q, s)'
  BY <1>1, <1>2 DEF Post!Fresh
<1>c. Post!PostFits(r)
  BY DEF Post!PostInv
<1>b. \A s \in Post!Once : Post!Before(s1[r], s)
  <2>1. ~ s1[r].output /\ s1[r].imageReview # "passed"
    BY <1>c DEF Post!PostFits, Post!RunFits, Post!Early
  <2>2. "none" \in Post!Early
    BY DEF Post!Early
  <2>3. /\ Post!Before(s1[r], "writing") /\ Post!Before(s1[r], "reviewing-copy") /\ Post!Before(s1[r], "reviewing-image")
        /\ Post!Before(s1[r], "drafting")
    BY <2>1, <2>2, BeforeStages
  <2> QED BY <2>3, BeforeStages
<1>4. ASSUME NEW q \in Posts
      PROVE  Post!PostFits(q)'
  <2>1. Post!PostFits(q)
    BY DEF Post!PostInv
  <2>2. CASE q = r
    <3>1. \A s \in Post!Once : Post!Fresh(r, s)
      BY <1>b, <1>c DEF Post!PostFits
    <3>4. Post!DraftsFit(r)'
      <4>1. ASSUME NEW i \in Posts
            PROVE  /\ s2[i].drafts[r] <= 1 /\ ~ s2[i].drafts[r] > 0
                   /\ r \notin s2[i].targets
        <5>1. Post!DraftsFit(r) /\ "drafting" \in Post!Once
          BY <1>c DEF Post!PostFits, Post!Once
        <5> QED BY <5>1 DEF Post!DraftsFit
      <4> QED BY <4>1 DEF Post!DraftsFit
    <3> QED BY <1>0, <1>3, <1>c, <2>2, <3>1, <3>4 DEF Post!PostFits
  <2>3. CASE q # r
    <3>1. Post!DraftsFit(q)'
      BY <1>0, <2>1, <2>3 DEF Post!PostFits, Post!DraftsFit
    <3> QED BY <1>0, <1>3, <2>1, <2>3, <3>1 DEF Post!PostFits
  <2> QED BY <2>2, <2>3
<1>5. ASSUME NEW w \in Tickers
      PROVE  Post!TickerFits(w)'
  <2>1. Post!TickerFits(w)
    BY DEF Post!PostInv
  <2>2. \A s \in Post!Once : Post!Alone(w, s) => Post!Alone(w, s)'
    BY <1>0, <1>1, <1>2 DEF Post!Alone
  <2>3. s5[w].pc = "idle" \/ s1'[s5[w].post] = s1[s5[w].post]
    BY <1>0, <2>1 DEF Post!TickerFits
  <2>4. s1'[s5[w].post] = s1[s5[w].post] /\ Post!ClaimFits(s5[w].run, s5[w].post) => Post!ClaimFits(s5[w].run, s5[w].post)'
    BY DEF Post!ClaimFits
  <2> QED BY <2>1, <2>2, <2>3, <2>4 DEF Post!TickerFits
<1> QED BY <1>4, <1>5

\* So does a claim of it by a worker.
LEMMA RunClaimed ==
  ASSUME Post!PostInv, NEW r \in Posts, NEW w \in Tickers, Post!Claim(w, r)
  PROVE  (\A q \in Posts : Post!PostFits(q)') /\ \A v \in Tickers : Post!TickerFits(v)'
<1> DEFINE new == [s1[r] EXCEPT !.inFlight = w]
<1>a. s1 \in [Posts -> Post!AgentPostRun] /\ s1[r] \in Post!AgentPostRun
  BY DEF Post!PostInv, Post!PostTypeOK
<1>b. s1' = [s1 EXCEPT ![r].inFlight = w] /\ s1[r].inFlight = NoTicker /\ Post!pending(s1[r])
  BY DEF Post!Claim
<1>g. /\ new \in Post!AgentPostRun /\ new.inFlight = w /\ new.status = s1[r].status /\ new.item = s1[r].item
      /\ new.evidence = s1[r].evidence /\ new.copyReview = s1[r].copyReview /\ new.output = s1[r].output
      /\ new.imageReview = s1[r].imageReview
  BY <1>a DEF Post!AgentPostRun
<1>h. s1' = [s1 EXCEPT ![r] = new]
  BY <1>a, <1>b
<1>0. /\ s1 \in [Posts -> Post!AgentPostRun] /\ s1' = [s1 EXCEPT ![r] = new]
      /\ new \in Post!AgentPostRun /\ new.inFlight = w /\ new.status = s1[r].status /\ new.item = s1[r].item
      /\ new.evidence = s1[r].evidence /\ new.copyReview = s1[r].copyReview /\ new.output = s1[r].output
      /\ new.imageReview = s1[r].imageReview /\ s1[r].inFlight = NoTicker /\ Post!pending(s1[r]) /\ w # NoTicker
  BY <1>a, <1>b, <1>g, <1>h, PostAssumption
<1>e. s1[r] = [new EXCEPT !.inFlight = NoTicker]
  <2>1. s1[r] \in Post!AgentPostRun
    BY <1>0
  <2> QED BY <1>0, <2>1 DEF Post!AgentPostRun
<1> HIDE DEF new
<1>1. /\ \A q \in Posts : s1'[q] = IF q = r THEN new ELSE s1[q]
      /\ s5[w].pc = "idle" /\ \A v \in Tickers : v # w => s5'[v] = s5[v]
      /\ s5'[w].pc = "step" /\ s5'[w].post = r /\ s5'[w].run = s1[r]
      /\ \A v \in Tickers : s5[v].post \in Posts
      /\ UNCHANGED <<s2, s7, s8, s9>>
  BY <1>0 DEF Post!PostInv, Post!PostTypeOK, Post!Claim, Post!Ticker
<1>c. Post!PostFits(r) /\ Post!RunFits(s1[r])
  BY DEF Post!PostInv, Post!PostFits
<1>f. Post!RunFits(new)
  BY <1>0, <1>c DEF Post!RunFits, Post!pending
<1>2. /\ \A v \in Tickers : \A s : v # w => (Post!At(v, s)' <=> Post!At(v, s))
      /\ \A s : Post!At(w, s)' <=> s1[r].status = s
      /\ \A s : ~ Post!At(w, s)
  BY <1>1 DEF Post!At
<1>3. \A q \in Posts : \A s \in Post!Once : Post!Unspent(q, s)' <=> Post!Unspent(q, s)
  BY <1>1 DEF Post!Unspent
<1>4. \A s \in Post!Once : (Post!Before(new, s) <=> Post!Before(s1[r], s)) /\ (Post!Before(new, s) => s1[r].status # s)
  <2>1. ASSUME NEW s \in Post!Once
        PROVE  (Post!Before(new, s) <=> Post!Before(s1[r], s)) /\ (Post!Before(new, s) => s1[r].status # s)
    <3>1. CASE s = "writing"
      BY <1>0, <3>1, BeforeStages DEF Post!Early
    <3>2. CASE s = "reviewing-copy"
      BY <1>0, <3>2, BeforeStages DEF Post!Early
    <3>3. CASE s = "reviewing-image"
      BY <1>0, <1>c, <3>3, BeforeStages DEF Post!RunFits
    <3>4. CASE s = "drafting"
      BY <1>0, <1>c, <3>4, BeforeStages DEF Post!RunFits
    <3> QED BY <3>1, <3>2, <3>3, <3>4, BeforeStages
  <2> QED BY <2>1
<1>5. ASSUME NEW q \in Posts
      PROVE  Post!PostFits(q)'
  <2>1. Post!PostFits(q)
    BY DEF Post!PostInv
  <2>2. CASE q = r
    <3>1. ASSUME NEW s \in Post!Once, Post!Before(new, s)
          PROVE  Post!Fresh(r, s)'
      BY <1>0, <1>1, <1>2, <1>3, <1>4, <1>c, <3>1 DEF Post!PostFits, Post!Fresh
    <3>2. Post!DraftsFit(r)'
      BY <1>0, <1>1, <1>c DEF Post!PostFits, Post!DraftsFit
    <3> QED BY <1>0, <1>1, <1>f, <1>c, <2>2, <3>1, <3>2 DEF Post!PostFits
  <2>3. CASE q # r
    <3>1. Post!DraftsFit(q)'
      BY <1>1, <2>1, <2>3 DEF Post!PostFits, Post!DraftsFit
    <3>2. \A s \in Post!Once : Post!Fresh(q, s) => Post!Fresh(q, s)'
      BY <1>1, <1>2, <1>3, <2>3 DEF Post!Fresh
    <3> QED BY <1>1, <2>1, <2>3, <3>1, <3>2 DEF Post!PostFits
  <2> QED BY <2>2, <2>3
<1>6. ASSUME NEW v \in Tickers
      PROVE  Post!TickerFits(v)'
  <2>1. Post!TickerFits(v)
    BY DEF Post!PostInv
  <2>2. CASE v = w
    <3>1. Post!ClaimFits(s5[w].run, s5[w].post)'
      BY <1>0, <1>1, <1>c DEF Post!ClaimFits, Post!RunFits, Post!pending
    <3>2. ASSUME NEW s \in Post!Once
          PROVE  Post!Alone(w, s)'
      BY <1>0, <1>1, <1>2, <1>3, <1>c DEF Post!Alone, Post!PostFits, Post!Fresh
    <3> QED BY <1>0, <1>1, <1>e, <2>2, <3>1, <3>2 DEF Post!TickerFits, Post!pending
  <2>3. CASE v # w
    <3>0. s5'[v] = s5[v]
      BY <1>1, <2>3
    <3>1. s5[v].pc = "step" => \A s \in Post!Once : Post!Alone(v, s)'
      <4>1. ASSUME NEW s \in Post!Once, s5[v].pc = "step", Post!At(v, s)', NEW u \in Tickers, Post!At(u, s)', s5'[u].post = s5'[v].post
            PROVE  u = v
        <5>1. Post!At(v, s)
          BY <1>2, <2>3, <4>1
        <5>2. CASE u = w
          <6>1. s1[r].status = s /\ s5[v].post = r
            BY <1>1, <1>2, <3>0, <4>1, <5>2
          <6> QED BY <1>0, <1>c, <5>1, <6>1 DEF Post!PostFits, Post!Fresh
        <5>3. CASE u # w
          BY <1>1, <1>2, <2>1, <3>0, <4>1, <5>1, <5>3 DEF Post!TickerFits, Post!Alone
        <5> QED BY <5>2, <5>3
      <4>2. ASSUME NEW s \in Post!Once, s5[v].pc = "step", Post!At(v, s)'
            PROVE  Post!Unspent(s5[v].post, s)'
        BY <1>1, <1>2, <1>3, <2>1, <2>3, <4>2 DEF Post!TickerFits, Post!Alone
      <4> QED BY <3>0, <4>1, <4>2 DEF Post!Alone
    <3>2. Post!ClaimFits(s5[v].run, s5[v].post) => Post!ClaimFits(s5[v].run, s5[v].post)'
      <4>1. CASE s5[v].post = r
        BY <1>0, <1>1, <3>0, <4>1 DEF Post!ClaimFits
      <4>2. CASE s5[v].post # r
        BY <1>1, <3>0, <4>2 DEF Post!ClaimFits
      <4> QED BY <4>1, <4>2
    <3>3. /\ s1'[s5[v].post].status = s1[s5[v].post].status
          /\ s1'[s5[v].post].inFlight = v => s1'[s5[v].post] = s1[s5[v].post]
      BY <1>0, <1>1, <2>3
    <3> QED BY <2>1, <3>0, <3>1, <3>2, <3>3 DEF Post!TickerFits
  <2> QED BY <2>2, <2>3
<1> QED BY <1>5, <1>6

\* So does a worker that ends its stage with a continuation of the run it claimed.
LEMMA StageEnds ==
  ASSUME Post!PostInv, NEW w \in Tickers, NEW t, s5' = [s5 EXCEPT ![w] = t], NEW e,
         \/ t.pc = "idle"
         \/ /\ t.pc = "done" /\ t.post = s5[w].post /\ s5[w].pc # "idle"
            /\ s1[t.post].inFlight = w => Post!Continues(s1[t.post], t.run),
         Post!Spends(w, e)
  PROVE  (\A q \in Posts : Post!PostFits(q)') /\ \A v \in Tickers : Post!TickerFits(v)'
<1> DEFINE r == s5[w].post
<1>0. /\ r \in Posts /\ \A v \in Tickers : v # w => s5'[v] = s5[v]
      /\ s5'[w] = t /\ Post!TickerFits(w) /\ Post!PostFits(r) /\ \A v \in Tickers : s5[v].post \in Posts
  BY DEF Post!PostInv, Post!PostTypeOK, Post!Ticker
<1>s. /\ e # "none" => e \in Post!Once /\ Post!At(w, e)
      /\ s1' = s1 /\ s9' = s9
  BY DEF Post!Spends
<1>u. /\ \A q \in Posts : \A s \in Post!Stages : s7'[q][s] = IF q = s5[w].post /\ s = e THEN s7[q][s] + 1 ELSE s7[q][s]
      /\ \A i, q \in Posts : /\ s2'[i].targets = s2[i].targets
                             /\ s2'[i].drafts[q] = IF e = "drafting" /\ q = s5[w].post /\ i = s1[q].item
                                                      THEN s2[i].drafts[q] + 1 ELSE s2[i].drafts[q]
      /\ \A q \in Posts : s8'[q] = IF e = "drafting" /\ q = s5[w].post THEN s1[q].evidence ELSE s8[q]
  BY DEF Post!Spends
<1>1. \A v \in Tickers : \A s : Post!At(v, s)' => v # w /\ Post!At(v, s) /\ s5'[v] = s5[v]
  BY <1>s, <1>u, <1>0 DEF Post!At
<1>2. \A q \in Posts : \A s \in Post!Once : ~ (q = r /\ s = e) => (Post!Unspent(q, s) => Post!Unspent(q, s)')
  BY <1>s, <1>u DEF Post!Unspent, Post!Once
<1>3. e # "none" => /\ Post!Alone(w, e) /\ Post!Unspent(r, e) /\ s5[w].pc = "step" /\ Post!ClaimFits(s5[w].run, r)
                    /\ s5[w].run.status = e /\ s1[r].status # "none"
  BY <1>s, <1>u, <1>0 DEF Post!TickerFits, Post!Alone, Post!At
<1>4. ASSUME NEW q \in Posts
      PROVE  Post!PostFits(q)'
  <2>1. Post!PostFits(q)
    BY <1>s, <1>u DEF Post!PostInv
  <2>2. ASSUME NEW s \in Post!Once, Post!Fresh(q, s)
        PROVE  Post!Fresh(q, s)'
    <3>1. ~ (q = r /\ s = e)
      BY <1>s, <1>u, <1>3, <2>2 DEF Post!Fresh, Post!Once, Post!Stages
    <3> QED BY <1>s, <1>u, <1>1, <1>2, <2>2, <3>1 DEF Post!Fresh
  <2>3. ASSUME NEW s \in Post!Stages
        PROVE  s7'[q][s] <= 1
    <3>1. s7[q][s] <= 1 /\ s7[q][s] \in Nat
      BY <1>s, <1>u, <2>1 DEF Post!PostFits, Post!PostInv, Post!PostTypeOK
    <3>2. q = r /\ s = e => s7[q][s] = 0
      BY <1>s, <1>u, <1>3 DEF Post!Unspent, Post!Stages
    <3> QED BY <1>s, <1>u, <3>1, <3>2
  <2>4. Post!DraftsFit(q)'
    <3>1. Post!DraftsFit(q)
      BY <1>s, <1>u, <2>1 DEF Post!PostFits
    <3>2. CASE e = "drafting" /\ q = r
      <4>1. \A i \in Posts : s2[i].drafts[r] = 0
        BY <1>s, <1>u, <1>3, <3>2 DEF Post!Unspent
      <4>2. s1[r].imageReview = "passed" /\ s1[r].copyReview = "passed" /\ s1[r].status # "none"
        BY <1>s, <1>u, <1>3, <3>2 DEF Post!ClaimFits, Post!RunFits
      <4>3. ASSUME NEW i \in Posts
            PROVE  /\ s2'[i].drafts[q] <= 1 /\ (s2'[i].drafts[q] > 0 => i = s1[q].item)
                   /\ s8'[q] = s1[q].evidence
        BY <1>s, <1>u, <4>1, <3>2
      <4> QED BY <1>s, <1>u, <3>1, <3>2, <4>2, <4>3 DEF Post!DraftsFit
    <3>3. CASE ~ (e = "drafting" /\ q = r)
      BY <1>s, <1>u, <3>1, <3>3 DEF Post!DraftsFit
    <3> QED BY <1>s, <1>u, <3>2, <3>3
  <2> QED BY <1>s, <1>u, <2>1, <2>2, <2>3, <2>4 DEF Post!PostFits
<1>5. ASSUME NEW v \in Tickers
      PROVE  Post!TickerFits(v)'
  <2>1. Post!TickerFits(v)
    BY <1>s, <1>u DEF Post!PostInv
  <2>2. CASE v = w
    <3>1. CASE t.pc = "idle"
      BY <1>s, <1>u, <1>0, <2>2, <3>1 DEF Post!TickerFits
    <3>2. CASE t.pc = "done"
      BY <1>s, <1>u, <1>0, <2>2, <3>2 DEF Post!TickerFits
    <3> QED BY <1>s, <1>u, <3>1, <3>2
  <2>3. CASE v # w
    <3>0. s5'[v] = s5[v]
      BY <1>s, <1>u, <1>0, <2>3
    <3>1. ASSUME NEW s \in Post!Once, Post!Alone(v, s)
          PROVE  Post!Alone(v, s)'
      <4>1. Post!At(v, s)' => ~ (s5[v].post = r /\ s = e)
        BY <1>s, <1>u, <1>0, <1>1, <1>3, <2>3, <3>0 DEF Post!Alone, Post!Once, Post!Stages
      <4> QED BY <1>s, <1>u, <1>0, <1>1, <1>2, <3>0, <3>1, <4>1 DEF Post!Alone
    <3>2. Post!ClaimFits(s5[v].run, s5[v].post) => Post!ClaimFits(s5[v].run, s5[v].post)'
      BY <1>s, <1>u, <3>0 DEF Post!ClaimFits
    <3> QED BY <1>s, <1>u, <2>1, <3>0, <3>1, <3>2 DEF Post!TickerFits
  <2> QED BY <1>s, <1>u, <2>2, <2>3
<1> QED BY <1>s, <1>u, <1>4, <1>5

\* What the invariant says of a worker in a stage and of its copy of the run.
LEMMA StepHasRun ==
  ASSUME Post!PostInv, NEW w \in Tickers, s5[w].pc = "step"
  PROVE  /\ s5[w].post \in Posts /\ s5[w].run \in Post!AgentPostRun /\ Post!RunFits(s5[w].run)
         /\ s5[w].run.status \in Post!agentPostStages /\ s5[w].run.inFlight = NoTicker /\ s5[w].run.item \in Posts
         /\ s5[w].run.item = s1[s5[w].post].item
         /\ s5[w].run.status \notin Post!Early => s5[w].run.evidence = s1[s5[w].post].evidence
         /\ s1[s5[w].post] \in Post!AgentPostRun
  BY DEF Post!PostInv, Post!PostTypeOK, Post!TickerFits, Post!ClaimFits, Post!AgentPostRun, Post!Ticker

\* While the claim stands, what continues the copy of the worker continues the stored run.
LEMMA OwnContinues ==
  ASSUME Post!PostInv, NEW w \in Tickers, s5[w].pc = "step", NEW new, Post!Continues(s5[w].run, new),
         s1[s5[w].post].inFlight = w
  PROVE  Post!Continues(s1[s5[w].post], new)
<1> DEFINE run == s5[w].run
<1> DEFINE old == s1[s5[w].post]
<1>1. run = [old EXCEPT !.inFlight = NoTicker] /\ old \in Post!AgentPostRun
  BY StepHasRun DEF Post!PostInv, Post!TickerFits
<1>2. /\ run.item = old.item /\ run.status = old.status /\ run.evidence = old.evidence /\ run.output = old.output
      /\ run.copyReview = old.copyReview /\ run.imageReview = old.imageReview
  BY <1>1 DEF Post!AgentPostRun
<1>3. \A s \in Post!Once : Post!Before(run, s) => Post!Before(old, s)
  <2>1. /\ Post!Before(run, "writing") <=> Post!Before(old, "writing")
        /\ Post!Before(run, "reviewing-copy") <=> Post!Before(old, "reviewing-copy")
        /\ Post!Before(run, "reviewing-image") <=> Post!Before(old, "reviewing-image")
        /\ Post!Before(run, "drafting") <=> Post!Before(old, "drafting")
    BY <1>2, BeforeStages
  <2> QED BY <2>1, BeforeStages
<1>4. Post!Continues(run, new)
  OBVIOUS
<1> HIDE DEF run, old
<1>5. Post!Continues(old, new)
  BY <1>2, <1>3, <1>4 DEF Post!Continues
<1> QED BY <1>5 DEF old

\* A worker that is done keeps posts and workers fitting.
LEMMA StageDone ==
  ASSUME Post!PostInv, NEW w \in Tickers, s5[w].pc = "step", NEW new \in Post!AgentPostRun, Post!Continues(s5[w].run, new),
         Post!Done(w, new), NEW e, Post!Spends(w, e)
  PROVE  /\ (\A q \in Posts : Post!PostFits(q)') /\ (\A v \in Tickers : Post!TickerFits(v)')
         /\ s5' \in [Tickers -> Post!Ticker]
<1>t. PICK t : t = [s5[w] EXCEPT !.pc = "done", !.run = new]
  OBVIOUS
<1>1. /\ s5 \in [Tickers -> Post!Ticker]
      /\ s5[w] \in Post!Ticker
  BY DEF Post!PostInv, Post!PostTypeOK
<1>2. t \in Post!Ticker /\ t.pc = "done" /\ t.post = s5[w].post /\ t.run = new
  BY <1>1, <1>t DEF Post!Ticker
<1>3. s5' = [s5 EXCEPT ![w] = t]
  BY <1>1, <1>t DEF Post!Done
<1>4. s5' \in [Tickers -> Post!Ticker]
  BY <1>1, <1>2, <1>3
<1>5. s1[t.post].inFlight = w => Post!Continues(s1[t.post], t.run)
  BY <1>2, OwnContinues
<1>6. \/ t.pc = "idle"
      \/ /\ t.pc = "done" /\ t.post = s5[w].post /\ s5[w].pc # "idle"
         /\ s1[t.post].inFlight = w => Post!Continues(s1[t.post], t.run)
  BY <1>2, <1>5
<1>7. (\A q \in Posts : Post!PostFits(q)') /\ (\A v \in Tickers : Post!TickerFits(v)')
  BY <1>3, <1>6, StageEnds
<1> QED BY <1>4, <1>7

\* A stage that calls nothing paid keeps the invariant.
LEMMA QuietStageDone ==
  ASSUME Post!PostInv, NEW w \in Tickers, s5[w].pc = "step", NEW new \in Post!AgentPostRun, Post!Continues(s5[w].run, new),
         Post!Done(w, new), UNCHANGED <<s1, s2, s6, s7, s8, s9>>,
         s3' \in [Posts -> Post!ImageGenerationRecord], s4' \in [Posts -> {"none", "rendering", "ready", "failed"}]
  PROVE  Post!PostInv'
<1>e. PICK e : e = "none"
  OBVIOUS
<1>1. Post!Spends(w, e)
  BY <1>e DEF Post!Spends, Post!Stages
<1>6. /\ (\A q \in Posts : Post!PostFits(q)') /\ (\A v \in Tickers : Post!TickerFits(v)')
      /\ s5' \in [Tickers -> Post!Ticker]
  BY <1>1, StageDone
<1>7. Post!PostTypeOK'
  BY <1>6 DEF Post!PostInv, Post!PostTypeOK
<1> QED BY <1>6, <1>7 DEF Post!PostInv

\* So does a stage that counts one call.
LEMMA CallStageDone ==
  ASSUME Post!PostInv, NEW w \in Tickers, NEW new \in Post!AgentPostRun, Post!Continues(s5[w].run, new),
         Post!Done(w, new), UNCHANGED <<s1, s2, s3, s4, s6, s8, s9>>, NEW e \in Post!Stages, Post!At(w, e),
         s7' = [s7 EXCEPT ![s5[w].post][e] = @ + 1]
  PROVE  Post!PostInv'
<1>0. s7 \in [Posts -> [Post!Stages -> Nat]] /\ e # "drafting" /\ s5[w].pc = "step" /\ s5[w].post \in Posts
  BY StepHasRun DEF Post!PostInv, Post!PostTypeOK, Post!Stages, Post!At
<1>1. e \in Post!Once
  BY DEF Post!Once
<1>2. \A q \in Posts : \A s \in Post!Stages : s7'[q][s] = IF q = s5[w].post /\ s = e THEN s7[q][s] + 1 ELSE s7[q][s]
  BY <1>0
<1>t. s7' \in [Posts -> [Post!Stages -> Nat]]
  BY <1>0
<1>3. \A i, q \in Posts : /\ s2'[i].targets = s2[i].targets
                          /\ s2'[i].drafts[q] = IF e = "drafting" /\ q = s5[w].post /\ i = s1[q].item
                                                   THEN s2[i].drafts[q] + 1 ELSE s2[i].drafts[q]
  BY <1>0
<1>4. \A q \in Posts : s8'[q] = IF e = "drafting" /\ q = s5[w].post THEN s1[q].evidence ELSE s8[q]
  BY <1>0
<1>5. UNCHANGED <<s1, s9>>
  OBVIOUS
<1>s. Post!Spends(w, e)
  BY <1>0, <1>1, <1>2, <1>3, <1>4, <1>5 DEF Post!Spends
<1>6. /\ (\A q \in Posts : Post!PostFits(q)') /\ (\A v \in Tickers : Post!TickerFits(v)')
      /\ s5' \in [Tickers -> Post!Ticker]
  BY <1>0, <1>s, StageDone
<1>7. Post!PostTypeOK'
  BY <1>6, <1>t DEF Post!PostInv, Post!PostTypeOK
<1> QED BY <1>6, <1>7 DEF Post!PostInv

\* Every result of a stage continues the run.
LEMMA StageResults ==
  ASSUME NEW run \in Post!AgentPostRun, Post!RunFits(run), NEW new, new.item = run.item, new.inFlight = NoTicker,
         new.evidence = run.evidence \/ run.status = "researching",
         new.output = run.output \/ (run.status = "composing" /\ new.status = "reviewing-image" /\ new.output = TRUE),
         new.copyReview = run.copyReview \/ run.status = "reviewing-copy",
         new.imageReview = run.imageReview \/ run.status = "reviewing-image",
         \/ new.status \in {"failed", "uncertain", "blocked"}
         \/ new.status = run.status /\ run.status \in {"researching", "generating", "composing"}
         \/ run.status = "queued" /\ new.status = "researching"
         \/ run.status = "researching" /\ new.status = "writing"
         \/ run.status = "writing" /\ new.status = "reviewing-copy"
         \/ run.status = "reviewing-copy" /\ new.status \in {"awaiting-image", "generating"} /\ new.copyReview = "passed"
         \/ run.status = "generating" /\ new.status = "composing"
         \/ run.status = "composing" /\ new.status = "reviewing-image" /\ new.output = TRUE
         \/ run.status = "reviewing-image" /\ new.status = "drafting" /\ new.imageReview = "passed"
         \/ run.status = "drafting" /\ new.status = "ready"
  PROVE  Post!Continues(run, new)
<1>1. Post!RunFits(new)
  BY DEF Post!RunFits, Post!pending, Post!postRunTerminal, Post!agentPostStages, Post!Early, Post!AgentPostRun
<1>2. /\ run.status \notin Post!Early => new.status \notin Post!Early /\ new.evidence = run.evidence
      /\ new.status \in Post!Early => run.status \in Post!Early
      /\ new.status \in Post!Early \cup {"writing"} => run.status \in Post!Early \cup {"writing"}
      /\ new.status = "writing" => run.status \in Post!Early
      /\ new.status = "reviewing-copy" => run.status \in Post!Early \cup {"writing"}
      /\ new.status # "none"
  BY DEF Post!Early
<1>3. /\ run.output => new.output
      /\ new.status = "reviewing-image" => ~ run.output
      /\ new.status = "drafting" => run.imageReview # "passed"
      /\ run.imageReview = "passed" => new.imageReview = "passed"
      /\ run.copyReview = "passed" /\ run.output => new.copyReview = "passed"
  BY DEF Post!RunFits, Post!Early, Post!AgentPostRun, Post!postRunTerminal, Post!agentPostStages
<1> QED BY <1>1, <1>2, <1>3, ContinuesMeans

\* The stages that call nothing paid keep the invariant.
LEMMA QuietSteps ==
  ASSUME Post!PostInv, NEW w \in Tickers,
         Post!Refuse(w) \/ Post!stepResearching(w) \/ Post!stepGeneratingUpload(w) \/ Post!createGeneration(w) \/ Post!stepGenerating(w) \/ Post!stepComposing(w)
  PROVE  Post!PostInv'
<1> DEFINE run == s5[w].run
<1> DEFINE Kept(new) ==
  new.item = run.item /\ new.inFlight = NoTicker /\ new.evidence = run.evidence /\ new.output = run.output
<1> DEFINE Unread(new) == new.copyReview = run.copyReview /\ new.imageReview = run.imageReview
<1> DEFINE r == s5[w].post
<1>0. s5[w].pc = "step"
  BY DEF Post!Refuse, Post!stepResearching, Post!stepGeneratingUpload, Post!createGeneration, Post!stepGenerating,
     Post!stepComposing, Post!At
<1>1. /\ r \in Posts /\ run \in Post!AgentPostRun /\ Post!RunFits(run) /\ run.status \in Post!agentPostStages /\ run.inFlight = NoTicker
      /\ run.item \in Posts
  BY <1>0, StepHasRun
<1>t. /\ s3 \in [Posts -> Post!ImageGenerationRecord] /\ s4 \in [Posts -> {"none", "rendering", "ready", "failed"}]
      /\ s2 \in [Posts -> Post!PostItem]
  BY DEF Post!PostInv, Post!PostTypeOK
<1>2. SUFFICES
        /\ \E new \in Post!AgentPostRun : Post!Done(w, new) /\ Post!Continues(run, new)
        /\ UNCHANGED <<s1, s2, s6, s7, s8, s9>>
        /\ s3' \in [Posts -> Post!ImageGenerationRecord] /\ s4' \in [Posts -> {"none", "rendering", "ready", "failed"}]
  BY <1>0, QuietStageDone
<1>b. ASSUME Post!Refused(w, run)
      PROVE  \E new \in Post!AgentPostRun : Post!Done(w, new) /\ Post!Continues(run, new)
  <2>1. PICK new : new = [run EXCEPT !.status = "blocked"]
    OBVIOUS
  <2>2. new \in Post!AgentPostRun /\ Post!Done(w, new)
    BY <1>1, <1>b, <2>1 DEF Post!AgentPostRun, Post!agentPostStages, Post!Refused
  <2>3. /\ Kept(new) /\ Unread(new) /\ new.status = "blocked"
    BY <1>1, <2>1 DEF Post!AgentPostRun
  <2>4. Post!Continues(run, new)
    BY <1>1, <2>3, StageResults
  <2> QED BY <2>2, <2>4
<1>s. ASSUME NEW status \in {"failed", "uncertain"}, Post!Done(w, [run EXCEPT !.status = status])
      PROVE  \E new \in Post!AgentPostRun : Post!Done(w, new) /\ Post!Continues(run, new)
  <2>1. PICK new : new = [run EXCEPT !.status = status]
    OBVIOUS
  <2>2. new \in Post!AgentPostRun /\ Post!Done(w, new)
    BY <1>1, <1>s, <2>1 DEF Post!AgentPostRun, Post!agentPostStages
  <2>3. /\ Kept(new) /\ Unread(new) /\ new.status \in {"failed", "uncertain"}
    BY <1>1, <2>1 DEF Post!AgentPostRun
  <2>4. Post!Continues(run, new)
    BY <1>1, <2>3, StageResults
  <2> QED BY <2>2, <2>4
<1>k. ASSUME run.status \in {"researching", "generating", "composing"}, Post!Done(w, run)
      PROVE  \E new \in Post!AgentPostRun : Post!Done(w, new) /\ Post!Continues(run, new)
  <2>1. Post!Continues(run, run)
    BY <1>1, <1>k, StageResults
  <2> QED BY <1>1, <1>k, <2>1
<1>3. CASE Post!Refuse(w)
  BY <1>b, <1>t, <1>3 DEF Post!Refuse
<1>4. CASE Post!stepResearching(w)
  <2>0. run.status = "researching" /\ UNCHANGED <<s1, s2, s3, s4, s6, s7, s8, s9>>
    BY <1>4 DEF Post!stepResearching, Post!At
  <2>1. CASE Post!Done(w, [run EXCEPT !.status = "writing", !.evidence = s2[run.item].evidence])
    <3>1. PICK new : new = [run EXCEPT !.status = "writing", !.evidence = s2[run.item].evidence]
      OBVIOUS
    <3>e. s2[run.item].evidence \in 0..MaxEvidence
      BY <1>1, <1>t DEF Post!PostItem
    <3>2. new \in Post!AgentPostRun /\ Post!Done(w, new)
      BY <1>1, <2>1, <3>1, <3>e DEF Post!AgentPostRun, Post!agentPostStages
    <3>3. /\ new.item = run.item /\ new.inFlight = NoTicker /\ new.output = run.output
          /\ Unread(new) /\ new.status = "writing"
      BY <1>1, <3>1 DEF Post!AgentPostRun
    <3>4. Post!Continues(run, new)
      BY <1>1, <2>0, <3>3, StageResults
    <3> QED BY <1>t, <2>0, <3>2, <3>4
  <2>2. Post!Refused(w, run) \/ Post!Done(w, [run EXCEPT !.status = "writing", !.evidence = s2[run.item].evidence]) \/ Post!Done(w, run)
    BY <1>4 DEF Post!stepResearching
  <2> QED BY <1>b, <1>k, <1>t, <2>0, <2>1, <2>2
<1>c. ASSUME Post!compose(w), run.status = "generating"
      PROVE  /\ \E new \in Post!AgentPostRun : Post!Done(w, new) /\ Post!Continues(run, new)
             /\ s4' \in [Posts -> {"none", "rendering", "ready", "failed"}]
  <2>1. PICK new : new = [run EXCEPT !.project = TRUE, !.status = "composing"]
    OBVIOUS
  <2>2. new \in Post!AgentPostRun /\ Post!Done(w, new)
    BY <1>1, <1>c, <2>1 DEF Post!AgentPostRun, Post!agentPostStages, Post!compose
  <2>3. /\ Kept(new) /\ Unread(new) /\ new.status = "composing"
    BY <1>1, <2>1 DEF Post!AgentPostRun
  <2>4. Post!Continues(run, new)
    BY <1>1, <1>c, <2>3, StageResults
  <2>5. s4' \in [Posts -> {"none", "rendering", "ready", "failed"}]
    BY <1>1, <1>c, <1>t DEF Post!compose
  <2> QED BY <2>2, <2>4, <2>5
<1>5. CASE Post!stepGeneratingUpload(w)
  BY <1>5, <1>c, <1>t DEF Post!stepGeneratingUpload, Post!At
<1>6. CASE Post!createGeneration(w)
  <2>0. /\ run.status = "generating" /\ UNCHANGED <<s1, s2, s4, s6, s7, s8, s9>>
        /\ Post!Done(w, [run EXCEPT !.generation = TRUE])
    BY <1>6 DEF Post!createGeneration, Post!At
  <2>1. PICK new : new = [run EXCEPT !.generation = TRUE]
    OBVIOUS
  <2>2. new \in Post!AgentPostRun /\ Post!Done(w, new)
    BY <1>1, <2>0, <2>1 DEF Post!AgentPostRun
  <2>3. /\ Kept(new) /\ Unread(new) /\ new.status = run.status
    BY <1>1, <2>1 DEF Post!AgentPostRun
  <2>4. Post!Continues(run, new)
    BY <1>1, <2>0, <2>3, StageResults
  <2>5. Post!createImageGeneration \in Post!ImageGenerationRecord
    BY DEF Post!createImageGeneration, Post!ImageGenerationRecord, Post!imageGenerationStatuses
  <2>6. s3' \in [Posts -> Post!ImageGenerationRecord]
    BY <1>1, <1>6, <1>t, <2>5 DEF Post!createGeneration
  <2> QED BY <1>t, <2>0, <2>2, <2>4, <2>6
<1>7. CASE Post!stepGenerating(w)
  <2>0. run.status = "generating" /\ UNCHANGED <<s1, s2, s3, s6, s7, s8, s9>>
    BY <1>7 DEF Post!stepGenerating, Post!At
  <2>1. s3[r].status \in Post!imageGenerationStatuses \cup {"none"}
    BY <1>1, <1>t DEF Post!ImageGenerationRecord
  <2>2. CASE s3[r].status = "none"
    BY <1>7, <2>2 DEF Post!stepGenerating
  <2>3. CASE s3[r].status = "ready"
    <3>1. Post!compose(w)
      BY <1>7, <2>3 DEF Post!stepGenerating
    <3> QED BY <1>c, <1>t, <2>0, <3>1
  <2>4. CASE s3[r].status = "generating"
    <3>1. Post!Done(w, run) /\ UNCHANGED s4
      BY <1>7, <2>4 DEF Post!stepGenerating
    <3> QED BY <1>k, <1>t, <2>0, <3>1
  <2>5. CASE s3[r].status \in {"failed", "uncertain"}
    <3>1. Post!Done(w, [run EXCEPT !.status = s3[r].status]) /\ UNCHANGED s4
      BY <1>7, <2>5 DEF Post!stepGenerating
    <3> QED BY <1>s, <1>t, <2>0, <2>5, <3>1
  <2> QED BY <2>1, <2>2, <2>3, <2>4, <2>5 DEF Post!imageGenerationStatuses
<1>8. CASE Post!stepComposing(w)
  <2>0. run.status = "composing" /\ UNCHANGED <<s1, s2, s3, s4, s6, s7, s8, s9>>
    BY <1>8 DEF Post!stepComposing, Post!At
  <2>1. CASE s4[r] = "ready"
    <3>0. Post!Done(w, [run EXCEPT !.output = TRUE, !.status = "reviewing-image"])
      BY <1>8, <2>1 DEF Post!stepComposing
    <3>1. PICK new : new = [run EXCEPT !.output = TRUE, !.status = "reviewing-image"]
      OBVIOUS
    <3>2. new \in Post!AgentPostRun /\ Post!Done(w, new)
      BY <1>1, <3>0, <3>1 DEF Post!AgentPostRun, Post!agentPostStages
    <3>3. /\ new.item = run.item /\ new.inFlight = NoTicker /\ new.evidence = run.evidence /\ new.output = TRUE
          /\ Unread(new) /\ new.status = "reviewing-image"
      BY <1>1, <3>1 DEF Post!AgentPostRun
    <3>4. Post!Continues(run, new)
      BY <1>1, <2>0, <3>3, StageResults
    <3> QED BY <1>t, <2>0, <3>2, <3>4
  <2>2. CASE s4[r] = "failed"
    <3>0. Post!Done(w, [run EXCEPT !.status = "failed"])
      BY <1>8, <2>2 DEF Post!stepComposing
    <3> QED BY <1>s, <1>t, <2>0, <3>0
  <2>3. CASE s4[r] \notin {"ready", "failed"}
    <3>0. Post!Done(w, run)
      BY <1>8, <2>3 DEF Post!stepComposing
    <3> QED BY <1>k, <1>t, <2>0, <3>0
  <2> QED BY <2>1, <2>2, <2>3
<1> QED BY <1>3, <1>4, <1>5, <1>6, <1>7, <1>8

\* The stages that call the agent keep it.
LEMMA CallSteps ==
  ASSUME Post!PostInv, NEW w \in Tickers, Post!stepWriting(w) \/ Post!stepReviewingCopy(w) \/ Post!stepReviewingImage(w)
  PROVE  Post!PostInv'
<1> DEFINE run == s5[w].run
<1> DEFINE Kept(new) ==
  new.item = run.item /\ new.inFlight = NoTicker /\ new.evidence = run.evidence /\ new.output = run.output
<1> DEFINE Unread(new) == new.copyReview = run.copyReview /\ new.imageReview = run.imageReview
<1>0. s5[w].pc = "step"
  BY DEF Post!stepWriting, Post!stepReviewingCopy, Post!stepReviewingImage, Post!At
<1>1. run \in Post!AgentPostRun /\ Post!RunFits(run) /\ run.status \in Post!agentPostStages /\ run.inFlight = NoTicker
  BY <1>0, StepHasRun
<1>2. SUFFICES
        /\ \E new \in Post!AgentPostRun : Post!Done(w, new) /\ Post!Continues(run, new)
        /\ UNCHANGED <<s1, s2, s3, s4, s6, s8, s9>>
        /\ \E e \in Post!Stages : Post!At(w, e) /\ s7' = [s7 EXCEPT ![s5[w].post][e] = @ + 1]
  BY CallStageDone
<1>3. CASE Post!stepWriting(w)
  <2>0. /\ Post!Done(w, [run EXCEPT !.copy = TRUE, !.status = "reviewing-copy"]) /\ run.status = "writing"
        /\ UNCHANGED <<s1, s2, s3, s4, s6, s8, s9>>
        /\ Post!At(w, "writing") /\ s7' = [s7 EXCEPT ![s5[w].post]["writing"] = @ + 1] /\ "writing" \in Post!Stages
    BY <1>3 DEF Post!stepWriting, Post!Stages, Post!At
  <2>1. PICK new : new = [run EXCEPT !.copy = TRUE, !.status = "reviewing-copy"]
    OBVIOUS
  <2>2. new \in Post!AgentPostRun /\ Post!Done(w, new)
    BY <1>1, <2>0, <2>1 DEF Post!AgentPostRun, Post!agentPostStages
  <2>3. /\ Kept(new) /\ Unread(new) /\ new.status = "reviewing-copy"
    BY <1>1, <2>1 DEF Post!AgentPostRun
  <2>4. Post!Continues(run, new)
    BY <1>1, <2>0, <2>3, StageResults
  <2> QED BY <2>0, <2>2, <2>4
<1>4. CASE Post!stepReviewingCopy(w)
  <2>0. /\ UNCHANGED <<s1, s2, s3, s4, s6, s8, s9>> /\ run.status = "reviewing-copy"
        /\ Post!At(w, "reviewing-copy") /\ s7' = [s7 EXCEPT ![s5[w].post]["reviewing-copy"] = @ + 1]
        /\ "reviewing-copy" \in Post!Stages
    BY <1>4 DEF Post!stepReviewingCopy, Post!Stages, Post!At
  <2>1. PICK status \in {"awaiting-image", "generating"} :
          \/ Post!Done(w, [[run EXCEPT !.copyReview = "needs-changes"] EXCEPT !.status = "blocked"])
          \/ Post!Done(w, [run EXCEPT !.copyReview = "passed", !.status = status])
    BY <1>4 DEF Post!stepReviewingCopy, Post!Refused
  <2>2. CASE Post!Done(w, [[run EXCEPT !.copyReview = "needs-changes"] EXCEPT !.status = "blocked"])
    <3>1. PICK new : new = [[run EXCEPT !.copyReview = "needs-changes"] EXCEPT !.status = "blocked"]
      OBVIOUS
    <3>2. new \in Post!AgentPostRun /\ Post!Done(w, new)
      BY <1>1, <2>2, <3>1 DEF Post!AgentPostRun, Post!agentPostStages, Post!Review
    <3>3. /\ Kept(new) /\ new.imageReview = run.imageReview /\ new.status = "blocked"
      BY <1>1, <3>1 DEF Post!AgentPostRun
    <3>4. Post!Continues(run, new)
      BY <1>1, <2>0, <3>3, StageResults
    <3> QED BY <2>0, <3>2, <3>4
  <2>3. CASE Post!Done(w, [run EXCEPT !.copyReview = "passed", !.status = status])
    <3>1. PICK new : new = [run EXCEPT !.copyReview = "passed", !.status = status]
      OBVIOUS
    <3>2. new \in Post!AgentPostRun /\ Post!Done(w, new)
      BY <1>1, <2>3, <3>1 DEF Post!AgentPostRun, Post!agentPostStages, Post!Review
    <3>3. /\ Kept(new) /\ new.imageReview = run.imageReview /\ new.status \in {"awaiting-image", "generating"} /\ new.copyReview = "passed"
      BY <1>1, <3>1 DEF Post!AgentPostRun
    <3>4. Post!Continues(run, new)
      BY <1>1, <2>0, <3>3, StageResults
    <3> QED BY <2>0, <3>2, <3>4
  <2> QED BY <2>1, <2>2, <2>3
<1>5. CASE Post!stepReviewingImage(w)
  <2>0. /\ UNCHANGED <<s1, s2, s3, s4, s6, s8, s9>> /\ run.status = "reviewing-image"
        /\ Post!At(w, "reviewing-image") /\ s7' = [s7 EXCEPT ![s5[w].post]["reviewing-image"] = @ + 1]
        /\ "reviewing-image" \in Post!Stages
    BY <1>5 DEF Post!stepReviewingImage, Post!Stages, Post!At
  <2>1. \/ Post!Done(w, [[run EXCEPT !.imageReview = "needs-changes"] EXCEPT !.status = "blocked"])
        \/ Post!Done(w, [run EXCEPT !.imageReview = "passed", !.status = "drafting"])
    BY <1>5 DEF Post!stepReviewingImage, Post!Refused
  <2>2. CASE Post!Done(w, [[run EXCEPT !.imageReview = "needs-changes"] EXCEPT !.status = "blocked"])
    <3>1. PICK new : new = [[run EXCEPT !.imageReview = "needs-changes"] EXCEPT !.status = "blocked"]
      OBVIOUS
    <3>2. new \in Post!AgentPostRun /\ Post!Done(w, new)
      BY <1>1, <2>2, <3>1 DEF Post!AgentPostRun, Post!agentPostStages, Post!Review
    <3>3. /\ Kept(new) /\ new.copyReview = run.copyReview /\ new.status = "blocked"
      BY <1>1, <3>1 DEF Post!AgentPostRun
    <3>4. Post!Continues(run, new)
      BY <1>1, <2>0, <3>3, StageResults
    <3> QED BY <2>0, <3>2, <3>4
  <2>3. CASE Post!Done(w, [run EXCEPT !.imageReview = "passed", !.status = "drafting"])
    <3>1. PICK new : new = [run EXCEPT !.imageReview = "passed", !.status = "drafting"]
      OBVIOUS
    <3>2. new \in Post!AgentPostRun /\ Post!Done(w, new)
      BY <1>1, <2>3, <3>1 DEF Post!AgentPostRun, Post!agentPostStages, Post!Review
    <3>3. /\ Kept(new) /\ new.copyReview = run.copyReview /\ new.status = "drafting" /\ new.imageReview = "passed"
      BY <1>1, <3>1 DEF Post!AgentPostRun
    <3>4. Post!Continues(run, new)
      BY <1>1, <2>0, <3>3, StageResults
    <3> QED BY <2>0, <3>2, <3>4
  <2> QED BY <2>1, <2>2, <2>3
<1> QED BY <1>3, <1>4, <1>5

\* The types of an item.
LEMMA ItemFacts ==
  ASSUME Post!PostInv, NEW i \in Posts
  PROVE  /\ s2 \in [Posts -> Post!PostItem] /\ s2[i] \in Post!PostItem /\ s2[i].version \in Nat /\ s2[i].evidence \in 0..MaxEvidence
         /\ s2[i].drafts \in [Posts -> Nat] /\ s2[i].approved \subseteq Posts /\ s2[i].targets \subseteq Posts
  BY DEF Post!PostInv, Post!PostTypeOK, Post!PostItem

\* Beginning a queued run keeps the invariant.
LEMMA QueuedStep ==
  ASSUME Post!PostInv, NEW w \in Tickers, Post!stepQueued(w)
  PROVE  Post!PostInv'
<1> DEFINE run == s5[w].run
<1>0. s5[w].pc = "step" /\ run.status = "queued"
  BY DEF Post!stepQueued, Post!At
<1>1. run \in Post!AgentPostRun /\ Post!RunFits(run) /\ run.inFlight = NoTicker /\ run.item \in Posts
  BY <1>0, StepHasRun
<1>2. PICK new : new = [run EXCEPT !.status = "researching"]
  OBVIOUS
<1>3. new \in Post!AgentPostRun /\ Post!Done(w, new)
  BY <1>1, <1>2 DEF Post!AgentPostRun, Post!agentPostStages, Post!stepQueued
<1>4. /\ new.item = run.item /\ new.inFlight = NoTicker /\ new.evidence = run.evidence /\ new.output = run.output
      /\ new.copyReview = run.copyReview /\ new.imageReview = run.imageReview /\ new.status = "researching"
  BY <1>1, <1>2 DEF Post!AgentPostRun
<1>5. Post!Continues(run, new)
  BY <1>0, <1>1, <1>4, StageResults
<1>6. s2' = [s2 EXCEPT ![run.item].version = @ + 2, ![run.item].evidence = 1, ![run.item].research = "running"]
  BY DEF Post!stepQueued
<1>7. 1 \in 0..MaxEvidence
  BY PostAssumption
<1>i. PICK i \in Posts : i = run.item
  BY <1>1
<1>y. PICK y : y = s2[i]
  OBVIOUS
<1>z. s2 \in [Posts -> Post!PostItem] /\ y \in Post!PostItem
  BY <1>i, <1>y, ItemFacts
<1>x. PICK x : x = [y EXCEPT !.version = y.version + 2, !.evidence = 1, !.research = "running"]
  OBVIOUS
<1>8. x \in Post!PostItem /\ x.drafts = y.drafts /\ x.targets = y.targets
  <2>1. y.version + 2 \in Nat
    BY <1>z DEF Post!PostItem
  <2>2. y.version \in Nat
    BY <1>z DEF Post!PostItem
  <2> QED BY <1>x, <1>z, <1>7, <2>1 DEF Post!PostItem
<1>v. s2' = [s2 EXCEPT ![i] = x]
  <2>1. s2'[i] = [s2[i] EXCEPT !.version = s2[i].version + 2, !.evidence = 1, !.research = "running"]
    BY <1>6, <1>i, <1>z
  <2>2. s2'[i] = x
    BY <1>x, <1>y, <2>1
  <2> QED BY <1>6, <1>i, <1>z, <2>2
<1>9. /\ s2' \in [Posts -> Post!PostItem]
      /\ \A j \in Posts : s2'[j].drafts = s2[j].drafts /\ s2'[j].targets = s2[j].targets
  BY <1>8, <1>v, <1>y, <1>z
<1>10. PICK e : e = "none"
  OBVIOUS
<1>11. UNCHANGED <<s1, s3, s4, s6, s7, s8, s9>>
  BY DEF Post!stepQueued
<1>12. Post!Spends(w, e)
  BY <1>9, <1>10, <1>11 DEF Post!Spends, Post!Stages
<1>13. /\ (\A q \in Posts : Post!PostFits(q)') /\ (\A v \in Tickers : Post!TickerFits(v)')
       /\ s5' \in [Tickers -> Post!Ticker]
  BY <1>0, <1>3, <1>5, <1>12, StageDone
<1>14. Post!PostTypeOK'
  BY <1>9, <1>11, <1>13 DEF Post!PostInv, Post!PostTypeOK
<1> QED BY <1>13, <1>14 DEF Post!PostInv

\* So does drafting: one draft of a post, with the evidence it was reviewed with.
LEMMA DraftingStep ==
  ASSUME Post!PostInv, NEW w \in Tickers, Post!stepDrafting(w)
  PROVE  Post!PostInv'
<1> DEFINE run == s5[w].run
<1> DEFINE r == s5[w].post
<1>0. s5[w].pc = "step" /\ run.status = "drafting" /\ Post!At(w, "drafting") /\ run.evidence = s2[run.item].evidence
  BY DEF Post!stepDrafting, Post!At, Post!evidenceUnchanged
<1>1. /\ r \in Posts /\ run \in Post!AgentPostRun /\ Post!RunFits(run) /\ run.inFlight = NoTicker /\ run.item \in Posts
      /\ run.item = s1[r].item
      /\ run.status \notin Post!Early => run.evidence = s1[r].evidence
  BY <1>0, StepHasRun
<1>ev. run.evidence = s1[r].evidence
  BY <1>0, <1>1 DEF Post!Early
<1>2. PICK new : new = [run EXCEPT !.draft = TRUE, !.status = "ready"]
  OBVIOUS
<1>3. new \in Post!AgentPostRun /\ Post!Done(w, new)
  BY <1>1, <1>2 DEF Post!AgentPostRun, Post!agentPostStages, Post!stepDrafting
<1>4. /\ new.item = run.item /\ new.inFlight = NoTicker /\ new.evidence = run.evidence /\ new.output = run.output
      /\ new.copyReview = run.copyReview /\ new.imageReview = run.imageReview /\ new.status = "ready"
  BY <1>1, <1>2 DEF Post!AgentPostRun
<1>5. Post!Continues(run, new)
  BY <1>0, <1>1, <1>4, StageResults
<1>6. s2' = [s2 EXCEPT ![run.item].version = @ + 1, ![run.item].drafts[r] = @ + 1]
  BY DEF Post!stepDrafting
<1>i. PICK i \in Posts : i = run.item
  BY <1>1
<1>y. PICK y : y = s2[i]
  OBVIOUS
<1>z. s2 \in [Posts -> Post!PostItem] /\ y \in Post!PostItem /\ y.drafts \in [Posts -> Nat] /\ y.version \in Nat
  BY <1>i, <1>y, ItemFacts
<1>f. PICK d : d = [y.drafts EXCEPT ![r] = y.drafts[r] + 1]
  OBVIOUS
<1>g. d \in [Posts -> Nat] /\ \A q \in Posts : d[q] = IF q = r THEN y.drafts[q] + 1 ELSE y.drafts[q]
  BY <1>1, <1>f, <1>z
<1>x. PICK x : x = [y EXCEPT !.version = y.version + 1, !.drafts = d]
  OBVIOUS
<1>8. x \in Post!PostItem /\ x.targets = y.targets /\ x.drafts = d
  <2>1. y.version + 1 \in Nat
    BY <1>z
  <2> QED BY <1>x, <1>z, <1>g, <2>1 DEF Post!PostItem
<1>v. s2' = [s2 EXCEPT ![i] = x]
  <2>1. s2'[i] = [s2[i] EXCEPT !.version = s2[i].version + 1, !.drafts = [s2[i].drafts EXCEPT ![r] = s2[i].drafts[r] + 1]]
    BY <1>1, <1>6, <1>i, <1>y, <1>z DEF Post!PostItem
  <2>2. s2'[i] = x
    BY <1>f, <1>x, <1>y, <2>1
  <2> QED BY <1>6, <1>i, <1>z, <2>2
<1>9. /\ s2' \in [Posts -> Post!PostItem]
      /\ \A j \in Posts : s2'[j] = IF j = i THEN x ELSE s2[j]
  BY <1>8, <1>v, <1>z
<1>10. PICK e : e = "drafting"
  OBVIOUS
<1>11. /\ UNCHANGED <<s1, s3, s4, s6, s7, s9>>
       /\ s8' = [s8 EXCEPT ![r] = s2[run.item].evidence]
  BY DEF Post!stepDrafting
<1>d. /\ s8' \in [Posts -> 0..MaxEvidence]
      /\ \A q \in Posts : s8'[q] = IF q = r THEN s1[q].evidence ELSE s8[q]
  BY <1>0, <1>1, <1>ev, <1>11, ItemFacts DEF Post!PostInv, Post!PostTypeOK
<1>p. \A j, q \in Posts : /\ s2'[j].targets = s2[j].targets
                          /\ s2'[j].drafts[q] = IF e = "drafting" /\ q = s5[w].post /\ j = s1[q].item
                                                   THEN s2[j].drafts[q] + 1 ELSE s2[j].drafts[q]
  BY <1>1, <1>8, <1>9, <1>10, <1>g, <1>i, <1>y
<1>12. Post!Spends(w, e)
  BY <1>0, <1>d, <1>p, <1>10, <1>11 DEF Post!Spends, Post!Stages, Post!Once
<1>13. /\ (\A q \in Posts : Post!PostFits(q)') /\ (\A v \in Tickers : Post!TickerFits(v)')
       /\ s5' \in [Tickers -> Post!Ticker]
  BY <1>0, <1>3, <1>5, <1>12, StageDone
<1>14. Post!PostTypeOK'
  BY <1>9, <1>11, <1>13, <1>d DEF Post!PostInv, Post!PostTypeOK
<1> QED BY <1>13, <1>14 DEF Post!PostInv

\* A post without a run fits, and so does an idle worker.
LEMMA NoRunFits ==
  /\ \A r \in Posts : Post!NoRunYet(r) \in Post!AgentPostRun /\ Post!RunFits(Post!NoRunYet(r))
  /\ Post!SomePost \in Posts
  /\ Post!IdleTicker \in Post!Ticker /\ Post!IdleTicker.pc = "idle"
<1>1. Post!SomePost \in Posts
  BY PostAssumption DEF Post!SomePost
<1>2. 0 \in 0..MaxEvidence
  BY PostAssumption
<1>3. \A r \in Posts : Post!NoRunYet(r) \in Post!AgentPostRun /\ Post!RunFits(Post!NoRunYet(r))
  BY <1>2 DEF Post!NoRunYet, Post!AgentPostRun, Post!Review, Post!RunFits, Post!pending, Post!postRunTerminal,
     Post!agentPostStages, Post!Early
<1> QED BY <1>1, <1>3 DEF Post!IdleTicker, Post!Ticker

\* Losing an answer, saving a result and stopping keep the invariant.
LEMMA AnswerSteps ==
  ASSUME Post!PostInv, NEW w \in Tickers, Post!LoseAnswer(w) \/ Post!advance(w) \/ Post!StopTicker(w)
  PROVE  Post!PostInv'
<1> DEFINE r == s5[w].post
<1>t. /\ s5 \in [Tickers -> Post!Ticker]
      /\ s5[w] \in Post!Ticker /\ r \in Posts
      /\ s5[w].run \in Post!AgentPostRun
      /\ s1 \in [Posts -> Post!AgentPostRun] /\ s1[r] \in Post!AgentPostRun /\ Post!TickerFits(w) /\ Post!PostFits(r) /\ Post!RunFits(s1[r])
  BY DEF Post!PostInv, Post!PostTypeOK, Post!PostFits, Post!Ticker
<1>i. UNCHANGED <<s2, s3, s4, s6, s7, s8, s9>>
  BY DEF Post!LoseAnswer, Post!advance, Post!StopTicker
<1>e. PICK e : e = "none"
  OBVIOUS
<1>q. s1' = s1 => Post!Spends(w, e)
  BY <1>i, <1>e DEF Post!Spends, Post!Stages
<1>1. ASSUME s1' = s1, s5' = [s5 EXCEPT ![w] = Post!IdleTicker]
      PROVE  Post!PostInv'
  <2>1. PICK t : t = Post!IdleTicker
    OBVIOUS
  <2>2. t.pc = "idle" /\ s5' = [s5 EXCEPT ![w] = t]
    BY <1>1, <2>1, NoRunFits
  <2>3. (\A q \in Posts : Post!PostFits(q)') /\ \A v \in Tickers : Post!TickerFits(v)'
    BY <1>1, <1>q, <2>2, StageEnds
  <2>4. Post!PostTypeOK'
    BY <1>1, <1>i, <1>t, NoRunFits DEF Post!PostInv, Post!PostTypeOK
  <2> QED BY <2>3, <2>4 DEF Post!PostInv
<1>2. CASE Post!StopTicker(w)
  BY <1>1, <1>2 DEF Post!StopTicker
<1>3. CASE Post!advance(w)
  <2>1. CASE s1[r].inFlight = w
    <3>0. /\ Post!Continues(s1[r], s5[w].run) /\ s5' = [s5 EXCEPT ![w] = Post!IdleTicker]
          /\ s1' = [s1 EXCEPT ![r] = [s5[w].run EXCEPT !.inFlight = NoTicker]]
      BY <1>3, <1>t, <2>1 DEF Post!advance, Post!TickerFits
    <3>1. PICK old : old = s5[w].run
      OBVIOUS
    <3>2. PICK new : new = [old EXCEPT !.inFlight = NoTicker]
      OBVIOUS
    <3>3. /\ new \in Post!AgentPostRun /\ new.item = old.item /\ new.inFlight = NoTicker /\ new.evidence = old.evidence
          /\ new.output = old.output /\ new.copyReview = old.copyReview /\ new.imageReview = old.imageReview
          /\ new.status = old.status
      BY <1>t, <3>1, <3>2 DEF Post!AgentPostRun
    <3>4. \A s \in Post!Once : Post!Before(new, s) <=> Post!Before(old, s)
      <4>1. /\ Post!Before(new, "writing") <=> Post!Before(old, "writing")
            /\ Post!Before(new, "reviewing-copy") <=> Post!Before(old, "reviewing-copy")
            /\ Post!Before(new, "reviewing-image") <=> Post!Before(old, "reviewing-image")
            /\ Post!Before(new, "drafting") <=> Post!Before(old, "drafting")
        BY <3>3, BeforeStages
      <4> QED BY <4>1, BeforeStages
    <3>5. Post!RunFits(new)
      BY <3>0, <3>1, <3>3 DEF Post!Continues, Post!RunFits
    <3>6. Post!Continues(s1[r], new)
      BY <3>0, <3>1, <3>3, <3>4, <3>5 DEF Post!Continues
    <3>7. s1[r].status \notin {"none", "ready"}
      BY <1>t, <2>1, PostAssumption DEF Post!RunFits, Post!pending, Post!postRunTerminal
    <3>8. s1' = [s1 EXCEPT ![r] = new]
      BY <3>0, <3>1, <3>2
    <3>a. /\ s5' = s5 \/ s5' = [s5 EXCEPT ![w] = Post!IdleTicker]
          /\ UNCHANGED <<s2, s7, s8, s9>> /\ new.inFlight = NoTicker /\ new \in Post!AgentPostRun /\ r \in Posts
      BY <1>i, <1>t, <3>0, <3>3
    <3>9. (\A q \in Posts : Post!PostFits(q)') /\ \A v \in Tickers : Post!TickerFits(v)'
      BY <3>6, <3>7, <3>8, <3>a, RunContinues
    <3>b. s1' \in [Posts -> Post!AgentPostRun]
      BY <1>t, <3>3, <3>8
    <3>c. s5' \in [Tickers -> Post!Ticker]
      BY <1>t, <3>0, NoRunFits
    <3>10. Post!PostTypeOK'
      BY <1>i, <3>b, <3>c DEF Post!PostInv, Post!PostTypeOK
    <3> QED BY <3>9, <3>10 DEF Post!PostInv
  <2>2. CASE s1[r].inFlight # w
    BY <1>1, <1>3, <2>2 DEF Post!advance
  <2> QED BY <2>1, <2>2
<1>4. CASE Post!LoseAnswer(w)
  <2>0. /\ s5[w].pc = "done" /\ s1[r].inFlight = w /\ s1' = s1
        /\ s5' = [s5 EXCEPT ![w].run = [s1[r] EXCEPT !.status = "uncertain", !.inFlight = NoTicker]]
    BY <1>4 DEF Post!LoseAnswer
  <2>1. PICK old \in Post!AgentPostRun : old = s1[r]
    BY <1>t
  <2>2. PICK new : new = [old EXCEPT !.status = "uncertain", !.inFlight = NoTicker]
    OBVIOUS
  <2>3. /\ new \in Post!AgentPostRun /\ new.item = old.item /\ new.inFlight = NoTicker /\ new.evidence = old.evidence
        /\ new.output = old.output /\ new.copyReview = old.copyReview /\ new.imageReview = old.imageReview
        /\ new.status = "uncertain"
    BY <2>1, <2>2 DEF Post!AgentPostRun, Post!agentPostStages
  <2>4. Post!Continues(old, new)
    BY <1>t, <2>1, <2>3, StageResults
  <2>5. PICK t : t = [s5[w] EXCEPT !.run = new]
    OBVIOUS
  <2>6. /\ t \in Post!Ticker /\ t.pc = "done" /\ t.post = r /\ t.run = new
        /\ s5' = [s5 EXCEPT ![w] = t]
    BY <1>t, <2>0, <2>1, <2>2, <2>3, <2>5 DEF Post!Ticker
  <2>7. \/ t.pc = "idle"
        \/ /\ t.pc = "done" /\ t.post = s5[w].post /\ s5[w].pc # "idle"
           /\ s1[t.post].inFlight = w => Post!Continues(s1[t.post], t.run)
    BY <2>0, <2>1, <2>4, <2>6
  <2>8. (\A q \in Posts : Post!PostFits(q)') /\ \A v \in Tickers : Post!TickerFits(v)'
    BY <1>q, <2>0, <2>6, <2>7, StageEnds
  <2>9. Post!PostTypeOK'
    BY <1>i, <1>t, <2>0, <2>6 DEF Post!PostInv, Post!PostTypeOK
  <2> QED BY <2>8, <2>9 DEF Post!PostInv
<1> QED BY <1>2, <1>3, <1>4

\* What a person asks of a post, and its claim by a worker, keep it.
LEMMA PostActions ==
  ASSUME Post!PostInv, NEW r \in Posts,
         \/ \E mode \in {"server", "codex-upload"} : Post!start(r, mode)
         \/ \E parent \in Posts : Post!correctCopy(r, parent)
         \/ Post!importImage(r) \/ Post!recoverComposition(r) \/ Post!expire(r)
         \/ \E w \in Tickers : Post!Claim(w, r)
  PROVE  Post!PostInv'
<1>t. s1 \in [Posts -> Post!AgentPostRun] /\ s1[r] \in Post!AgentPostRun /\ Post!PostFits(r) /\ Post!RunFits(s1[r])
  BY DEF Post!PostInv, Post!PostTypeOK, Post!PostFits
<1>y. PICK y \in Post!AgentPostRun : y = s1[r] /\ Post!RunFits(y)
  BY <1>t
<1>1. ASSUME NEW new \in Post!AgentPostRun, Post!RunFits(new), new.inFlight = NoTicker, new.status # "none",
             s1[r].status = "none", s1' = [s1 EXCEPT ![r] = new],
             UNCHANGED <<s2, s3, s4, s5, s6, s7, s8, s9>>
      PROVE  Post!PostInv'
  <2>1. (\A q \in Posts : Post!PostFits(q)') /\ \A v \in Tickers : Post!TickerFits(v)'
    BY <1>1, RunStarts
  <2>2. Post!PostTypeOK'
    BY <1>1, <1>t DEF Post!PostInv, Post!PostTypeOK
  <2> QED BY <2>1, <2>2 DEF Post!PostInv
<1>2. ASSUME NEW new \in Post!AgentPostRun, Post!Continues(y, new), new.inFlight = NoTicker,
             s1[r].status \notin {"none", "ready"}, s1' = [s1 EXCEPT ![r] = new],
             UNCHANGED <<s2, s3, s4, s5, s6, s7, s8, s9>>
      PROVE  Post!PostInv'
  <2>1. PICK w0 : w0 = "none"
    OBVIOUS
  <2>2. /\ s5' = s5 \/ s5' = [s5 EXCEPT ![w0] = Post!IdleTicker]
        /\ UNCHANGED <<s2, s7, s8, s9>> /\ Post!Continues(s1[r], new)
    BY <1>2, <1>y
  <2>3. (\A q \in Posts : Post!PostFits(q)') /\ \A v \in Tickers : Post!TickerFits(v)'
    BY <1>2, <2>2, RunContinues
  <2>4. Post!PostTypeOK'
    BY <1>2, <1>t DEF Post!PostInv, Post!PostTypeOK
  <2> QED BY <2>3, <2>4 DEF Post!PostInv
<1>3. ASSUME NEW mode \in {"server", "codex-upload"}, Post!start(r, mode)
      PROVE  Post!PostInv'
  <2>0. /\ y.status = "none" /\ UNCHANGED <<s2, s3, s4, s5, s6, s7, s8, s9>>
        /\ s1' = [s1 EXCEPT ![r].status = "queued", ![r].imageMode = mode]
    BY <1>3, <1>y DEF Post!start
  <2>1. PICK new : new = [y EXCEPT !.status = "queued", !.imageMode = mode]
    OBVIOUS
  <2>2. new \in Post!AgentPostRun /\ new.status = "queued" /\ new.output = y.output /\ new.imageReview = y.imageReview /\ new.inFlight = y.inFlight
    BY <1>3, <2>1 DEF Post!AgentPostRun, Post!agentPostStages
  <2>3. y.inFlight = NoTicker /\ ~ y.output /\ y.imageReview = "none"
    BY <1>y, <2>0 DEF Post!RunFits, Post!pending, Post!postRunTerminal, Post!Early
  <2>4. Post!RunFits(new)
    BY <2>2, <2>3 DEF Post!RunFits, Post!pending, Post!postRunTerminal, Post!Early, Post!agentPostStages
  <2>5. s1' = [s1 EXCEPT ![r] = new]
    BY <1>t, <1>y, <2>0, <2>1
  <2>6. new.inFlight = NoTicker /\ new.status # "none" /\ s1[r].status = "none"
    BY <1>y, <2>0, <2>2, <2>3
  <2> QED BY <1>1, <2>0, <2>2, <2>4, <2>5, <2>6
<1>4. ASSUME NEW parent \in Posts, Post!correctCopy(r, parent)
      PROVE  Post!PostInv'
  <2>p. PICK p \in Post!AgentPostRun : p = s1[parent]
    BY <1>t
  <2>0. /\ y.status = "none" /\ UNCHANGED <<s2, s3, s4, s5, s6, s7, s8, s9>>
        /\ s1' = [s1 EXCEPT ![r] = [s1[r] EXCEPT !.status = "reviewing-copy", !.imageMode = p.imageMode, !.item = p.item,
                                                     !.evidence = p.evidence, !.copy = TRUE]]
    BY <1>4, <1>y, <2>p DEF Post!correctCopy
  <2>1. PICK new : new = [y EXCEPT !.status = "reviewing-copy", !.imageMode = p.imageMode, !.item = p.item,
                                   !.evidence = p.evidence, !.copy = TRUE]
    OBVIOUS
  <2>v. p.imageMode \in {"server", "codex-upload"} /\ p.item \in Posts /\ p.evidence \in 0..MaxEvidence
    BY <2>p DEF Post!AgentPostRun
  <2>2. /\ new \in Post!AgentPostRun /\ new.status = "reviewing-copy" /\ new.output = y.output /\ new.imageReview = y.imageReview
        /\ new.inFlight = y.inFlight
    BY <2>1, <2>v DEF Post!AgentPostRun, Post!agentPostStages
  <2>3. y.inFlight = NoTicker /\ ~ y.output /\ y.imageReview = "none"
    BY <1>y, <2>0 DEF Post!RunFits, Post!pending, Post!postRunTerminal, Post!Early
  <2>4. Post!RunFits(new)
    BY <2>2, <2>3 DEF Post!RunFits, Post!pending, Post!postRunTerminal, Post!Early, Post!agentPostStages
  <2>5. s1' = [s1 EXCEPT ![r] = new]
    BY <1>y, <2>0, <2>1
  <2>6. new.inFlight = NoTicker /\ new.status # "none" /\ s1[r].status = "none"
    BY <1>y, <2>0, <2>2, <2>3
  <2> QED BY <1>1, <2>0, <2>2, <2>4, <2>5, <2>6
<1>5. CASE Post!importImage(r)
  <2>0. /\ y.status = "awaiting-image" /\ y.inFlight = NoTicker
        /\ UNCHANGED <<s2, s3, s4, s5, s6, s7, s8, s9>>
        /\ s1' = [s1 EXCEPT ![r].status = "generating", ![r].upload = TRUE]
    BY <1>5, <1>y DEF Post!importImage
  <2>1. PICK new : new = [y EXCEPT !.status = "generating", !.upload = TRUE]
    OBVIOUS
  <2>2. /\ new \in Post!AgentPostRun /\ new.item = y.item /\ new.inFlight = NoTicker /\ new.evidence = y.evidence
        /\ new.output = y.output /\ new.copyReview = y.copyReview /\ new.imageReview = y.imageReview /\ new.status = "generating"
    BY <2>0, <2>1 DEF Post!AgentPostRun, Post!agentPostStages
  <2>3. Post!RunFits(new)
    BY <1>y, <2>0, <2>2 DEF Post!RunFits, Post!pending, Post!postRunTerminal, Post!Early, Post!agentPostStages
  <2>4. Post!Continues(y, new)
    BY <2>0, <2>2, <2>3, ContinuesMeans DEF Post!Early
  <2>5. s1' = [s1 EXCEPT ![r] = new] /\ s1[r].status \notin {"none", "ready"}
    BY <1>t, <1>y, <2>0, <2>1
  <2> QED BY <1>2, <2>0, <2>2, <2>4, <2>5
<1>6. CASE Post!recoverComposition(r)
  <2>0. /\ y.status = "uncertain" /\ y.inFlight = NoTicker /\ ~ y.output /\ y.imageReview = "none" /\ y.copyReview = "passed"
        /\ UNCHANGED <<s2, s3, s4, s5, s6, s7, s8, s9>>
        /\ s1' = [s1 EXCEPT ![r].status = "composing", ![r].project = TRUE]
    BY <1>6, <1>y DEF Post!recoverComposition, Post!recoveryRun
  <2>1. PICK new : new = [y EXCEPT !.status = "composing", !.project = TRUE]
    OBVIOUS
  <2>2. /\ new \in Post!AgentPostRun /\ new.item = y.item /\ new.inFlight = NoTicker /\ new.evidence = y.evidence
        /\ new.output = y.output /\ new.copyReview = y.copyReview /\ new.imageReview = y.imageReview /\ new.status = "composing"
    BY <2>0, <2>1 DEF Post!AgentPostRun, Post!agentPostStages
  <2>3. Post!RunFits(new)
    BY <2>0, <2>2 DEF Post!RunFits, Post!pending, Post!postRunTerminal, Post!Early, Post!agentPostStages
  <2>4. Post!Continues(y, new)
    BY <2>0, <2>2, <2>3, ContinuesMeans DEF Post!Early
  <2>5. s1' = [s1 EXCEPT ![r] = new] /\ s1[r].status \notin {"none", "ready"}
    BY <1>t, <1>y, <2>0, <2>1
  <2> QED BY <1>2, <2>0, <2>2, <2>4, <2>5
<1>7. CASE Post!expire(r)
  <2>0. /\ Post!pending(y) /\ UNCHANGED <<s2, s3, s4, s5, s6, s7, s8, s9>>
        /\ s1' = [s1 EXCEPT ![r].status = "uncertain", ![r].inFlight = NoTicker]
    BY <1>7, <1>y DEF Post!expire
  <2>1. PICK new : new = [y EXCEPT !.status = "uncertain", !.inFlight = NoTicker]
    OBVIOUS
  <2>2. /\ new \in Post!AgentPostRun /\ new.item = y.item /\ new.inFlight = NoTicker /\ new.evidence = y.evidence
        /\ new.output = y.output /\ new.copyReview = y.copyReview /\ new.imageReview = y.imageReview /\ new.status = "uncertain"
    BY <2>1 DEF Post!AgentPostRun, Post!agentPostStages
  <2>4. Post!Continues(y, new)
    BY <1>y, <2>2, StageResults
  <2>5. s1' = [s1 EXCEPT ![r] = new] /\ s1[r].status \notin {"none", "ready"}
    BY <1>t, <1>y, <2>0, <2>1 DEF Post!pending, Post!postRunTerminal
  <2> QED BY <1>2, <2>0, <2>2, <2>4, <2>5
<1>8. ASSUME NEW w \in Tickers, Post!Claim(w, r)
      PROVE  Post!PostInv'
  <2>1. (\A q \in Posts : Post!PostFits(q)') /\ \A v \in Tickers : Post!TickerFits(v)'
    BY <1>8, RunClaimed
  <2>2. s1' = [s1 EXCEPT ![r].inFlight = w] /\ s5' = [s5 EXCEPT ![w] = [pc |-> "step", post |-> r, run |-> s1[r]]]
        /\ UNCHANGED <<s2, s3, s4, s6, s7, s8, s9>>
    BY <1>8 DEF Post!Claim
  <2>3. s1' \in [Posts -> Post!AgentPostRun]
    BY <1>t, <2>2 DEF Post!AgentPostRun
  <2>4. s5' \in [Tickers -> Post!Ticker]
    BY <1>t, <2>2 DEF Post!PostInv, Post!PostTypeOK, Post!Ticker
  <2>5. Post!PostTypeOK'
    BY <2>2, <2>3, <2>4 DEF Post!PostInv, Post!PostTypeOK
  <2> QED BY <2>1, <2>5 DEF Post!PostInv
<1> QED BY <1>3, <1>4, <1>5, <1>6, <1>7, <1>8

\* So do the generations, renderings, research, previews and edits around it.
LEMMA WorldMovesPosts ==
  ASSUME Post!PostInv, NEW r \in Posts,
         \/ Post!process(r) \/ Post!markExpiredUncertain(r) \/ Post!stallGeneration(r) \/ Post!preview(r) \/ Post!approveDraft(r) \/ Post!editEvidence(r)
         \/ \E status \in Post!generate : Post!finishGeneration(r, status)
         \/ \E status \in {"ready", "failed"} : Post!render(r, status)
         \/ \E status \in {"completed", "failed"} : Post!completeResearch(r, status)
  PROVE  Post!PostInv'
<1>t. /\ s3 \in [Posts -> Post!ImageGenerationRecord] /\ s4 \in [Posts -> {"none", "rendering", "ready", "failed"}]
      /\ s2 \in [Posts -> Post!PostItem] /\ s6 \in [Posts -> Nat] /\ s1 \in [Posts -> Post!AgentPostRun]
      /\ s5 \in [Tickers -> Post!Ticker]
      /\ s7 \in [Posts -> [Post!Stages -> Nat]] /\ s8 \in [Posts -> 0..MaxEvidence] /\ s9 \in [Posts -> 0..MaxEvidence]
  BY DEF Post!PostInv, Post!PostTypeOK
<1>1. ASSUME UNCHANGED <<s1, s5, s7, s8, s9>>,
             s2' \in [Posts -> Post!PostItem],
             \A i \in Posts : s2'[i].drafts = s2[i].drafts /\ s2'[i].targets = s2[i].targets,
             s3' \in [Posts -> Post!ImageGenerationRecord], s4' \in [Posts -> {"none", "rendering", "ready", "failed"}],
             s6' \in [Posts -> Nat]
      PROVE  Post!PostInv'
  <2>1. \A i, q \in Posts : s2'[i].drafts[q] = s2[i].drafts[q]
    BY <1>1
  <2>d. ASSUME NEW q \in Posts
        PROVE  Post!DraftsFit(q)'
    <3>1. Post!DraftsFit(q)
      BY DEF Post!PostInv, Post!PostFits
    <3> QED BY <1>1, <3>1 DEF Post!DraftsFit
  <2>2. (\A q \in Posts : Post!PostFits(q)') /\ \A w \in Tickers : Post!TickerFits(w)'
    BY <1>1, <2>1, <2>d, WorldFits
  <2>3. Post!PostTypeOK'
    BY <1>1, <1>t DEF Post!PostTypeOK
  <2> QED BY <2>2, <2>3 DEF Post!PostInv
<1>2. CASE Post!process(r) \/ Post!markExpiredUncertain(r) \/ Post!stallGeneration(r) \/ \E status \in Post!generate : Post!finishGeneration(r, status)
  <2>0. UNCHANGED <<s1, s2, s4, s5, s6, s7, s8, s9>>
    BY <1>2 DEF Post!process, Post!markExpiredUncertain, Post!stallGeneration, Post!finishGeneration
  <2>1. s3[r] \in Post!ImageGenerationRecord
    BY <1>t
  <2>2. CASE Post!process(r) \/ Post!markExpiredUncertain(r)
    <3>0. PICK g \in Post!ImageGenerationRecord : g = s3[r]
      BY <2>1
    <3>1. [g EXCEPT !.job = "called"] \in Post!ImageGenerationRecord /\ [g EXCEPT !.status = "uncertain", !.leased = FALSE] \in Post!ImageGenerationRecord
      BY DEF Post!ImageGenerationRecord, Post!imageGenerationStatuses
    <3>2. \/ s3' = [s3 EXCEPT ![r] = [g EXCEPT !.job = "called"]]
          \/ s3' = [s3 EXCEPT ![r] = [g EXCEPT !.status = "uncertain", !.leased = FALSE]]
      BY <1>t, <2>2, <3>0 DEF Post!process, Post!markExpiredUncertain
    <3>3. s3' \in [Posts -> Post!ImageGenerationRecord]
      BY <1>t, <3>1, <3>2
    <3> QED BY <1>1, <1>t, <2>0, <3>3
  <2>4. CASE Post!stallGeneration(r)
    <3>1. PICK job \in {"queued", "none"} : s3' = [s3 EXCEPT ![r].job = job]
      BY <2>4 DEF Post!stallGeneration
    <3>2. s3' \in [Posts -> Post!ImageGenerationRecord]
      BY <1>t, <2>1, <3>1 DEF Post!ImageGenerationRecord
    <3> QED BY <1>1, <1>t, <2>0, <3>2
  <2>3. ASSUME NEW status \in Post!generate, Post!finishGeneration(r, status)
        PROVE  Post!PostInv'
    <3>1. Post!completeGeneration(s3[r], status) \in Post!ImageGenerationRecord
      BY <2>1, <2>3 DEF Post!completeGeneration, Post!ImageGenerationRecord, Post!imageGenerationStatuses, Post!generate
    <3>2. s3' \in [Posts -> Post!ImageGenerationRecord]
      BY <1>t, <2>3, <3>1 DEF Post!finishGeneration
    <3> QED BY <1>1, <1>t, <2>0, <3>2
  <2> QED BY <1>2, <2>2, <2>3, <2>4
<1>3. ASSUME NEW status \in {"ready", "failed"}, Post!render(r, status)
      PROVE  Post!PostInv'
  <2>1. s4' \in [Posts -> {"none", "rendering", "ready", "failed"}]
    BY <1>3, <1>t DEF Post!render
  <2> QED BY <1>1, <1>3, <1>t, <2>1 DEF Post!render
<1>4. CASE Post!preview(r)
  <2>1. Post!itemOf(r).version \in Nat
    BY <1>t DEF Post!itemOf, Post!PostItem, Post!AgentPostRun
  <2>2. s6' \in [Posts -> Nat]
    BY <1>4, <1>t, <2>1 DEF Post!preview
  <2> QED BY <1>1, <1>4, <1>t, <2>2 DEF Post!preview
<1>5. ASSUME NEW i \in Posts, NEW x \in Post!PostItem, x.drafts = s2[i].drafts, x.targets = s2[i].targets,
             s2' = [s2 EXCEPT ![i] = x], UNCHANGED <<s1, s3, s4, s5, s6, s7, s8, s9>>
      PROVE  Post!PostInv'
  <2>1. /\ s2' \in [Posts -> Post!PostItem]
        /\ \A j \in Posts : s2'[j].drafts = s2[j].drafts /\ s2'[j].targets = s2[j].targets
    BY <1>5, <1>t
  <2> QED BY <1>1, <1>5, <1>t, <2>1
<1>6. CASE Post!approveDraft(r)
  <2>1. PICK i \in Posts : i = s1[r].item
    BY <1>t DEF Post!AgentPostRun
  <2>2. PICK y \in Post!PostItem : y = s2[i] /\ y.version + 1 \in Nat /\ y.approved \cup {r} \subseteq Posts
    BY <2>1, ItemFacts
  <2>3. PICK x : x = [y EXCEPT !.approved = y.approved \cup {r}, !.version = y.version + 1]
    OBVIOUS
  <2>4. x \in Post!PostItem /\ x.drafts = y.drafts /\ x.targets = y.targets
    BY <2>2, <2>3 DEF Post!PostItem
  <2>5. s2' = [s2 EXCEPT ![i].approved = @ \cup {r}, ![i].version = @ + 1]
    BY <1>6, <2>1 DEF Post!approveDraft
  <2>6. s2' = [s2 EXCEPT ![i] = x]
    <3>1. s2'[i] = [s2[i] EXCEPT !.approved = s2[i].approved \cup {r}, !.version = s2[i].version + 1]
      BY <1>t, <2>5 DEF Post!PostItem
    <3>2. s2'[i] = x
      BY <2>2, <2>3, <3>1
    <3> QED BY <1>t, <2>5, <3>2
  <2>7. UNCHANGED <<s1, s3, s4, s5, s6, s7, s8, s9>>
    BY <1>6 DEF Post!approveDraft
  <2> QED BY <1>5, <2>2, <2>4, <2>6, <2>7
<1>7. CASE Post!editEvidence(r)
  <2>2. PICK y \in Post!PostItem : y = s2[r] /\ y.version + 1 \in Nat /\ y.evidence \in 0..MaxEvidence
    BY ItemFacts
  <2>0. y.evidence + 1 \in 0..MaxEvidence
    BY <1>7, <2>2, PostAssumption DEF Post!editEvidence
  <2>3. PICK x : x = [y EXCEPT !.version = y.version + 1, !.evidence = y.evidence + 1]
    OBVIOUS
  <2>4. x \in Post!PostItem /\ x.drafts = y.drafts /\ x.targets = y.targets
    BY <2>0, <2>2, <2>3 DEF Post!PostItem
  <2>5. s2' = [s2 EXCEPT ![r].version = @ + 1, ![r].evidence = @ + 1]
    BY <1>7 DEF Post!editEvidence
  <2>6. s2' = [s2 EXCEPT ![r] = x]
    <3>1. s2'[r] = [s2[r] EXCEPT !.version = s2[r].version + 1, !.evidence = s2[r].evidence + 1]
      BY <1>t, <2>5 DEF Post!PostItem
    <3>2. s2'[r] = x
      BY <2>2, <2>3, <3>1
    <3> QED BY <1>t, <2>5, <3>2
  <2>7. UNCHANGED <<s1, s3, s4, s5, s6, s7, s8, s9>>
    BY <1>7 DEF Post!editEvidence
  <2> QED BY <1>5, <2>2, <2>4, <2>6, <2>7
<1>8. ASSUME NEW status \in {"completed", "failed"}, Post!completeResearch(r, status)
      PROVE  Post!PostInv'
  <2>2. PICK y \in Post!PostItem : y = s2[r] /\ y.version + 1 \in Nat /\ y.evidence \in 0..MaxEvidence
    BY ItemFacts
  <2>0. y.evidence + 1 \in 0..MaxEvidence
    BY <1>8, <2>2, PostAssumption DEF Post!completeResearch
  <2>3. PICK x : x = [y EXCEPT !.research = status, !.version = y.version + 1, !.evidence = y.evidence + 1]
    OBVIOUS
  <2>4. x \in Post!PostItem /\ x.drafts = y.drafts /\ x.targets = y.targets
    BY <1>8, <2>0, <2>2, <2>3 DEF Post!PostItem
  <2>5. s2' = [s2 EXCEPT ![r].research = status, ![r].version = @ + 1, ![r].evidence = @ + 1]
    BY <1>8 DEF Post!completeResearch
  <2>6. s2' = [s2 EXCEPT ![r] = x]
    <3>1. s2'[r] = [s2[r] EXCEPT !.research = status, !.version = s2[r].version + 1, !.evidence = s2[r].evidence + 1]
      BY <1>t, <2>5 DEF Post!PostItem
    <3>2. s2'[r] = x
      BY <2>2, <2>3, <3>1
    <3> QED BY <1>t, <2>5, <3>2
  <2>7. UNCHANGED <<s1, s3, s4, s5, s6, s7, s8, s9>>
    BY <1>8 DEF Post!completeResearch
  <2> QED BY <1>5, <2>2, <2>4, <2>6, <2>7
<1> QED BY <1>2, <1>3, <1>4, <1>6, <1>7, <1>8

\* So does publishing: what is scheduled has the evidence that was reviewed.
LEMMA PublishStep ==
  ASSUME Post!PostInv, NEW r \in Posts, Post!publish(r)
  PROVE  Post!PostInv'
<1>t. /\ s2 \in [Posts -> Post!PostItem] /\ s1 \in [Posts -> Post!AgentPostRun] /\ s9 \in [Posts -> 0..MaxEvidence]
      /\ Post!PostFits(r)
  BY DEF Post!PostInv, Post!PostTypeOK
<1>0. /\ UNCHANGED <<s1, s3, s4, s5, s6, s7, s8>>
      /\ s1[r].status = "ready" /\ s1[r].evidence = s2[s1[r].item].evidence
      /\ s9' = [s9 EXCEPT ![r] = s2[s1[r].item].evidence]
      /\ s2' = [s2 EXCEPT ![s1[r].item].targets = @ \cup {r}, ![s1[r].item].version = @ + 1]
  BY DEF Post!publish, Post!previewAllowed, Post!context, Post!evidenceUnchanged, Post!itemOf
<1>1. PICK i \in Posts : i = s1[r].item
  BY <1>t DEF Post!AgentPostRun
<1>2. PICK y \in Post!PostItem : y = s2[i] /\ y.version + 1 \in Nat /\ y.targets \cup {r} \subseteq Posts /\ y.evidence \in 0..MaxEvidence
  BY <1>1, ItemFacts
<1>3. PICK x : x = [y EXCEPT !.targets = y.targets \cup {r}, !.version = y.version + 1]
  OBVIOUS
<1>4. x \in Post!PostItem /\ x.drafts = y.drafts /\ x.targets = y.targets \cup {r}
  BY <1>2, <1>3 DEF Post!PostItem
<1>6. s2' = [s2 EXCEPT ![i] = x]
  <2>1. s2'[i] = [s2[i] EXCEPT !.targets = s2[i].targets \cup {r}, !.version = s2[i].version + 1]
    BY <1>0, <1>1, <1>t DEF Post!PostItem
  <2>2. s2'[i] = x
    BY <1>2, <1>3, <2>1
  <2> QED BY <1>0, <1>1, <1>t, <2>2
<1>7. /\ s2' \in [Posts -> Post!PostItem] /\ s9' \in [Posts -> 0..MaxEvidence]
      /\ \A j, q \in Posts : /\ s2'[j].drafts[q] = s2[j].drafts[q]
                             /\ q \in s2'[j].targets => q \in s2[j].targets \/ (q = r /\ j = i)
      /\ s9'[r] = s1[r].evidence /\ \A q \in Posts : q # r => s9'[q] = s9[q]
  BY <1>0, <1>1, <1>2, <1>4, <1>6, <1>t
<1>d. ASSUME NEW q \in Posts
      PROVE  Post!DraftsFit(q)'
  <2>1. Post!DraftsFit(q)
    BY DEF Post!PostInv, Post!PostFits
  <2> QED BY <1>0, <1>1, <1>7, <2>1 DEF Post!DraftsFit
<1>8. (\A q \in Posts : Post!PostFits(q)') /\ \A w \in Tickers : Post!TickerFits(w)'
  BY <1>0, <1>7, <1>d, WorldFits
<1>9. Post!PostTypeOK'
  BY <1>0, <1>7 DEF Post!PostInv, Post!PostTypeOK
<1> QED BY <1>8, <1>9 DEF Post!PostInv

\* The invariant of the agent posts holds before there is one.
LEMMA AgentPostInitially ==
  ASSUME Post!AgentPostInit
  PROVE  Post!PostInv
<1>0. 0 \in 0..MaxEvidence
  BY PostAssumption
<1>1. Post!PostTypeOK
  <2>1. s1 \in [Posts -> Post!AgentPostRun]
    BY NoRunFits DEF Post!AgentPostInit
  <2>2. s2 \in [Posts -> Post!PostItem]
    BY <1>0 DEF Post!AgentPostInit, Post!PostItem
  <2>3. s3 \in [Posts -> Post!ImageGenerationRecord]
    BY DEF Post!AgentPostInit, Post!ImageGenerationRecord
  <2>4. s5 \in [Tickers -> Post!Ticker]
    BY NoRunFits DEF Post!AgentPostInit
  <2> QED BY <1>0, <2>1, <2>2, <2>3, <2>4 DEF Post!PostTypeOK, Post!AgentPostInit
<1>2. \A w \in Tickers : s5[w].pc = "idle"
  BY NoRunFits DEF Post!AgentPostInit
<1>3. \A w \in Tickers : Post!TickerFits(w)
  BY <1>2 DEF Post!TickerFits
<1>4. ASSUME NEW r \in Posts
      PROVE  Post!PostFits(r)
  <2>1. Post!RunFits(s1[r])
    BY NoRunFits DEF Post!AgentPostInit
  <2>2. \A s \in Post!Once : Post!Fresh(r, s)
    BY <1>2 DEF Post!Fresh, Post!Unspent, Post!At, Post!AgentPostInit, Post!Once
  <2>3. \A s \in Post!Stages : s7[r][s] <= 1
    BY DEF Post!AgentPostInit
  <2>4. Post!DraftsFit(r)
    BY DEF Post!DraftsFit, Post!AgentPostInit
  <2> QED BY <2>1, <2>2, <2>3, <2>4 DEF Post!PostFits
<1> QED BY <1>1, <1>3, <1>4 DEF Post!PostInv

\* Every step of the agent posts keeps their invariant.
LEMMA AgentPostsGoOn ==
  ASSUME Post!PostInv, [Post!AgentPostNext]_Post!agentPostVars
  PROVE  Post!PostInv'
<1>1. CASE UNCHANGED Post!agentPostVars
  <2>1. \A r \in Posts : Post!DraftsFit(r)'
    BY <1>1 DEF Post!agentPostVars, Post!DraftsFit, Post!PostInv, Post!PostFits
  <2>2. (\A q \in Posts : Post!PostFits(q)') /\ \A w \in Tickers : Post!TickerFits(w)'
    BY <1>1, <2>1, WorldFits DEF Post!agentPostVars
  <2>3. Post!PostTypeOK'
    BY <1>1 DEF Post!agentPostVars, Post!PostInv, Post!PostTypeOK
  <2> QED BY <2>2, <2>3 DEF Post!PostInv
<1>2. ASSUME NEW w \in Tickers, Post!Step(w)
      PROVE  Post!PostInv'
  BY <1>2, QuietSteps, CallSteps, QueuedStep, DraftingStep, AnswerSteps DEF Post!Step
<1>3. ASSUME NEW r \in Posts,
             \/ \E mode \in {"server", "codex-upload"} : Post!start(r, mode)
             \/ \E parent \in Posts : Post!correctCopy(r, parent)
             \/ Post!importImage(r) \/ Post!recoverComposition(r) \/ Post!expire(r)
             \/ \E w \in Tickers : Post!Claim(w, r)
      PROVE  Post!PostInv'
  BY <1>3, PostActions
<1>4. ASSUME NEW r \in Posts,
             \/ Post!process(r) \/ Post!markExpiredUncertain(r) \/ Post!stallGeneration(r) \/ Post!preview(r) \/ Post!approveDraft(r) \/ Post!editEvidence(r)
             \/ \E status \in Post!generate : Post!finishGeneration(r, status)
             \/ \E status \in {"ready", "failed"} : Post!render(r, status)
             \/ \E status \in {"completed", "failed"} : Post!completeResearch(r, status)
      PROVE  Post!PostInv'
  BY <1>4, WorldMovesPosts
<1>5. ASSUME NEW r \in Posts, Post!publish(r)
      PROVE  Post!PostInv'
  BY <1>5, PublishStep
<1> QED BY <1>1, <1>2, <1>3, <1>4, <1>5 DEF Post!AgentPostNext

\* It contains what the agent posts promise.
LEMMA AgentPostsHold ==
  ASSUME Post!PostInv
  PROVE  Post!PostTypeOK /\ Post!PaidOnce /\ Post!OneDraftPerPost /\ Post!PublishedAsReviewed
<1>1. ASSUME NEW r \in Posts
      PROVE  Post!PostFits(r) /\ Post!DraftsFit(r) /\ s1[r].item \in Posts
  BY DEF Post!PostInv, Post!PostFits, Post!PostTypeOK, Post!AgentPostRun
<1>2. Post!PaidOnce
  BY <1>1 DEF Post!PaidOnce, Post!PostFits
<1>3. Post!OneDraftPerPost
  BY <1>1 DEF Post!OneDraftPerPost, Post!DraftsFit, Post!itemOf
<1>4. Post!PublishedAsReviewed
  BY <1>1 DEF Post!PublishedAsReviewed, Post!DraftsFit, Post!itemOf
<1> QED BY <1>2, <1>3, <1>4 DEF Post!PostInv

-----------------------------------------------------------------------------
(* Proofs.  Boards.                                                        *)

\* What the invariant says of the Board, the profile and the job.
LEMMA BoardParts ==
  ASSUME Board!BoardInv
  PROVE  /\ s1 \in Board!AgentBoard /\ s2 \in Board!Profile /\ s7 \in Board!Job /\ s7.command \in Board!Command
         /\ s1.status \in Board!AgentBoardStatus /\ s1.version \in Nat /\ s1.epoch \in 1..MaxBoardEpoch
         /\ s1.observed \in 0..MaxBoardEpoch /\ s1.capability \in 1..MaxBoardEpoch /\ s1.applied \subseteq Decisions
         /\ s1.pending \in Decisions \cup {NoDecision} /\ s1.deactivated \in BOOLEAN
         /\ s2.policy \in 0..MaxBoardEpoch /\ s2.seal \in Nat /\ s2.tree \in Nat
         /\ s3 \in [Decisions -> {"none", "applying", "complete"}] /\ s4 \in [Decisions -> Nat]
         /\ s5 \subseteq Board!Command /\ s6 \subseteq Board!Command
         /\ s7.version \in Nat /\ s7.command.epoch \in 1..MaxBoardEpoch /\ s7.command.kind \in {"reconcile", "deactivate", "decision"}
         /\ s1.capability <= s1.epoch /\ s2.policy <= s1.epoch
  BY DEF Board!BoardInv, Board!BoardTypeOK, Board!AgentBoard, Board!Profile, Board!Job, Board!Command, Board!PolicyFits,
     Board!AgentBoardPluginDecision

\* The commands that are sent are commands.
LEMMA CommandsFit ==
  /\ \A e \in 1..MaxBoardEpoch : /\ Board!Reconcile(e) \in Board!Command /\ Board!Reconcile(e).kind = "reconcile"
                                 /\ [Board!Reconcile(e) EXCEPT !.kind = "deactivate"] \in Board!Command
                                 /\ [Board!Reconcile(e) EXCEPT !.kind = "deactivate"].kind = "deactivate"
                                 /\ \A d \in Decisions : [kind |-> "decision", epoch |-> e, decision |-> d] \in Board!Command
  /\ Board!NoJob \in Board!Job /\ Board!NoJob.pc = "none"
<1>1. 1 \in 1..MaxBoardEpoch
  BY BoardAssumption
<1> QED BY <1>1 DEF Board!Reconcile, Board!Command, Board!AgentBoardPluginDecision, Board!NoJob, Board!Job

\* A command that is sent leaves the queue a set of commands.
LEMMA Dispatched ==
  ASSUME Board!BoardInv, NEW c \in Board!Command, Board!Dispatch(c), c.kind = "decision" => c.decision \in Decisions
  PROVE  s5' \subseteq Board!Command /\ s6' \subseteq Board!Command /\ \A x \in s5' : x.kind = "decision" => x.decision \in Decisions
  BY DEF Board!Dispatch, Board!BoardInv, Board!BoardTypeOK, Board!PolicyFits

\* The Board moves, with its commands and perhaps the end of the job: it reads ready under the policy of its
\* profile only.
LEMMA BoardChanges ==
  ASSUME Board!BoardInv, NEW b \in Board!AgentBoard, s1' = b, UNCHANGED <<s2, s3, s4>>, s7' = s7 \/ s7' = Board!NoJob,
         s5' \subseteq Board!Command /\ s6' \subseteq Board!Command /\ \A x \in s5' : x.kind = "decision" => x.decision \in Decisions,
         b.capability <= b.epoch /\ s1.epoch <= b.epoch,
         b.pending # NoDecision =>
           b.epoch < MaxBoardEpoch /\ b.status # "archived" /\ (b.pending \in SkillDecisions => b.status = "provisioning"),
         s1.status = "archived" => b.status = "archived",
         s7' # Board!NoJob /\ s7.pc # "none" /\ s7.command.kind = "decision" => b.pending = s1.pending,
         \A d \in b.applied : s3[d] = "complete",
         b.status = "ready" /\ b.observed = b.epoch => s2.policy = b.epoch /\ s2.seal \in {0, s2.tree},
         b.deactivated => b.status = "archived" /\ ~ s2.listed /\ s2.policy = 0,
         b.deactivated => s1.deactivated \/ s7' = Board!NoJob
  PROVE  Board!BoardInv'
<1>0. b.epoch \in 1..MaxBoardEpoch /\ s7' \in Board!Job
  BY BoardParts, CommandsFit DEF Board!AgentBoard
<1>1. Board!BoardTypeOK'
  BY <1>0 DEF Board!BoardInv, Board!BoardTypeOK, Board!Job
<1>2. Board!PolicyFits'
  BY <1>0, BoardParts DEF Board!PolicyFits
<1>3. Board!JobFits'
  <2>1. CASE s7' = Board!NoJob
    BY <2>1, CommandsFit DEF Board!JobFits
  <2>2. CASE s7' = s7 /\ s7' # Board!NoJob
    <3>1. s7.pc # "none" => Board!ReconcileFits /\ Board!DecisionFits /\ Board!DeactivateFits
      BY DEF Board!BoardInv, Board!JobFits
    <3>2. ASSUME s7.pc # "none"
          PROVE  Board!ReconcileFits' /\ Board!DecisionFits' /\ Board!DeactivateFits'
      <4>1. Board!ReconcileFits'
        BY <1>0, <2>2, <3>1, <3>2, BoardParts DEF Board!ReconcileFits
      <4>2. Board!DecisionFits'
        BY <2>2, <3>1, <3>2 DEF Board!DecisionFits
      <4>3. Board!DeactivateFits'
        BY <2>2, <3>1, <3>2 DEF Board!DeactivateFits
      <4> QED BY <4>1, <4>2, <4>3
    <3> QED BY <2>2, <3>2 DEF Board!JobFits
  <2> QED BY <2>1, <2>2
<1>4. Board!EffectsFit'
  <2>1. Board!EffectsFit
    BY DEF Board!BoardInv
  <2>2. \A d : Board!Working("decision", "applying")' /\ s7'.command.decision = d => Board!Working("decision", "applying") /\ s7.command.decision = d
    BY CommandsFit DEF Board!Working
  <2> QED BY <2>1, <2>2 DEF Board!EffectsFit
<1>5. Board!SealFits' /\ Board!ShutFits'
  BY DEF Board!SealFits, Board!ShutFits
<1> QED BY <1>0, <1>1, <1>2, <1>3, <1>4, <1>5 DEF Board!BoardInv

\* What people ask of a Board keeps the invariant.
LEMMA PeopleChangeBoard ==
  ASSUME Board!BoardInv, Board!update \/ Board!skills \/ Board!reconcile \/ \E d \in Decisions : Board!decidePendingWrite(d)
  PROVE  Board!BoardInv'
<1>0. /\ s1.status # "archived" /\ s1.pending = NoDecision /\ s1.epoch < MaxBoardEpoch
      /\ UNCHANGED <<s2, s3, s4, s7, s8>>
  BY DEF Board!update, Board!skills, Board!reconcile, Board!decidePendingWrite, Board!Changeable
<1>1. /\ ~ s1.deactivated /\ \A d \in s1.applied : s3[d] = "complete"
      /\ s1.status = "ready" /\ s1.observed = s1.epoch => s2.policy = s1.epoch /\ s2.seal \in {0, s2.tree}
  BY <1>0, BoardParts DEF Board!BoardInv, Board!ShutFits, Board!EffectsFit, Board!SealFits
<1>2. ~ (s7.pc # "none" /\ s7.command.kind = "decision")
  BY <1>0, BoardAssumption DEF Board!BoardInv, Board!JobFits, Board!DecisionFits
<1>3. s1.epoch + 1 \in 1..MaxBoardEpoch /\ s1.capability + 1 \in 1..MaxBoardEpoch /\ s1.version + 1 \in Nat
  BY <1>0, BoardParts, BoardAssumption
<1>4. CASE Board!update \/ Board!skills \/ Board!reconcile
  <2>1. PICK b, c : /\ s1' = b /\ c \in Board!Command /\ c.kind # "decision" /\ Board!Dispatch(c)
                    /\ \/ \E archiving \in BOOLEAN : b = Board!reviseAgentBoard(s1, archiving)
                       \/ \E rotate \in BOOLEAN : b = Board!queueAgentBoardReconcile(s1, rotate)
    <3>1. CASE Board!update
      <4>1. PICK archiving \in BOOLEAN :
              /\ s1' = Board!reviseAgentBoard(s1, archiving)
              /\ Board!Dispatch(IF archiving THEN [Board!Reconcile(s1.epoch + 1) EXCEPT !.kind = "deactivate"] ELSE Board!Reconcile(s1.epoch + 1))
        BY <3>1 DEF Board!update
      <4>2. PICK c : c = IF archiving THEN [Board!Reconcile(s1.epoch + 1) EXCEPT !.kind = "deactivate"] ELSE Board!Reconcile(s1.epoch + 1)
        OBVIOUS
      <4>3. c \in Board!Command /\ c.kind # "decision" /\ Board!Dispatch(c)
        BY <1>3, <4>1, <4>2, CommandsFit
      <4> QED BY <4>1, <4>3
    <3>2. CASE Board!skills
      <4>1. s1' = Board!queueAgentBoardReconcile(s1, TRUE) /\ Board!Dispatch(Board!Reconcile(s1.epoch + 1))
        BY <3>2 DEF Board!skills
      <4>2. Board!Reconcile(s1.epoch + 1) \in Board!Command /\ Board!Reconcile(s1.epoch + 1).kind # "decision" /\ TRUE \in BOOLEAN
        BY <1>3, CommandsFit
      <4> QED BY <4>1, <4>2
    <3>3. CASE Board!reconcile
      <4>1. s1' = Board!queueAgentBoardReconcile(s1, FALSE) /\ Board!Dispatch(Board!Reconcile(s1.epoch + 1))
        BY <3>3 DEF Board!reconcile
      <4>2. Board!Reconcile(s1.epoch + 1) \in Board!Command /\ Board!Reconcile(s1.epoch + 1).kind # "decision" /\ FALSE \in BOOLEAN
        BY <1>3, CommandsFit
      <4> QED BY <4>1, <4>2
    <3> QED BY <1>4, <3>1, <3>2, <3>3
  <2>2. /\ b \in Board!AgentBoard /\ b.epoch = s1.epoch + 1 /\ b.capability <= b.epoch /\ b.pending = NoDecision
        /\ b.applied = s1.applied /\ ~ b.deactivated /\ b.status \in {"archived", "provisioning"}
    <3>1. PICK status \in {"archived", "provisioning"}, capability \in {s1.capability, s1.capability + 1} :
            b = [s1 EXCEPT !.status = status, !.version = s1.version + 1, !.epoch = s1.epoch + 1, !.capability = capability]
      <4>1. CASE \E archiving \in BOOLEAN : b = Board!reviseAgentBoard(s1, archiving)
        BY <4>1 DEF Board!reviseAgentBoard
      <4>2. CASE \E rotate \in BOOLEAN : b = Board!queueAgentBoardReconcile(s1, rotate)
        BY <4>2 DEF Board!queueAgentBoardReconcile
      <4> QED BY <2>1, <4>1, <4>2
    <3>2. s1 \in Board!AgentBoard /\ capability \in 1..MaxBoardEpoch /\ capability <= s1.epoch + 1
      BY <1>3, BoardParts
    <3>3. /\ b \in Board!AgentBoard /\ b.epoch = s1.epoch + 1 /\ b.capability = capability /\ b.pending = s1.pending
          /\ b.applied = s1.applied /\ b.deactivated = s1.deactivated /\ b.status = status
      BY <1>3, <3>1, <3>2 DEF Board!AgentBoard, Board!AgentBoardStatus
    <3> QED BY <1>0, <1>1, <3>2, <3>3
  <2>3. s5' \subseteq Board!Command /\ s6' \subseteq Board!Command /\ \A x \in s5' : x.kind = "decision" => x.decision \in Decisions
    BY <2>1, Dispatched
  <2>4. /\ b.capability <= b.epoch /\ s1.epoch <= b.epoch
        /\ b.pending # NoDecision =>
             b.epoch < MaxBoardEpoch /\ b.status # "archived" /\ (b.pending \in SkillDecisions => b.status = "provisioning")
        /\ s1.status = "archived" => b.status = "archived"
        /\ s7' # Board!NoJob /\ s7.pc # "none" /\ s7.command.kind = "decision" => b.pending = s1.pending
        /\ \A d \in b.applied : s3[d] = "complete"
        /\ b.status = "ready" /\ b.observed = b.epoch => s2.policy = b.epoch /\ s2.seal \in {0, s2.tree}
        /\ b.deactivated => b.status = "archived" /\ ~ s2.listed /\ s2.policy = 0
        /\ b.deactivated => s1.deactivated \/ s7' = Board!NoJob
    BY <1>0, <1>1, <1>2, <2>2, BoardParts
  <2>5. s1' = b /\ (s7' = s7 \/ s7' = Board!NoJob) /\ UNCHANGED <<s2, s3, s4>>
    BY <1>0, <2>1
  <2> QED BY <2>2, <2>3, <2>4, <2>5, BoardChanges
<1>5. ASSUME NEW d \in Decisions, Board!decidePendingWrite(d)
      PROVE  Board!BoardInv'
  <2>1. PICK b : b = Board!queueAgentBoardPluginDecision(s1, d)
    OBVIOUS
  <2>2. /\ b \in Board!AgentBoard /\ b.epoch = s1.epoch /\ b.capability = s1.capability /\ b.pending = d
        /\ b.applied = s1.applied /\ ~ b.deactivated /\ b.observed = s1.observed
        /\ b.status = IF d \in SkillDecisions THEN "provisioning" ELSE s1.status
    BY <1>0, <1>1, <1>3, <2>1, BoardParts DEF Board!queueAgentBoardPluginDecision, Board!AgentBoard,
       Board!AgentBoardStatus, Board!AgentBoardPluginDecision
  <2>3. s5' \subseteq Board!Command /\ s6' \subseteq Board!Command /\ \A x \in s5' : x.kind = "decision" => x.decision \in Decisions
    <3>1. PICK c : c = [kind |-> "decision", epoch |-> s1.epoch, decision |-> d]
      OBVIOUS
    <3>2. c \in Board!Command /\ c.decision = d /\ Board!Dispatch(c)
      BY <1>5, <3>1, BoardParts, CommandsFit DEF Board!decidePendingWrite
    <3> QED BY <3>2, Dispatched
  <2>4. /\ b.capability <= b.epoch /\ s1.epoch <= b.epoch
        /\ b.pending # NoDecision =>
             b.epoch < MaxBoardEpoch /\ b.status # "archived" /\ (b.pending \in SkillDecisions => b.status = "provisioning")
        /\ s1.status = "archived" => b.status = "archived"
        /\ s7' # Board!NoJob /\ s7.pc # "none" /\ s7.command.kind = "decision" => b.pending = s1.pending
        /\ \A x \in b.applied : s3[x] = "complete"
        /\ b.status = "ready" /\ b.observed = b.epoch => s2.policy = b.epoch /\ s2.seal \in {0, s2.tree}
        /\ b.deactivated => b.status = "archived" /\ ~ s2.listed /\ s2.policy = 0
        /\ b.deactivated => s1.deactivated \/ s7' = Board!NoJob
    BY <1>0, <1>1, <1>2, <2>2, BoardParts
  <2>5. s1' = b /\ (s7' = s7 \/ s7' = Board!NoJob) /\ UNCHANGED <<s2, s3, s4>>
    BY <1>0, <1>5, <2>1 DEF Board!decidePendingWrite
  <2> QED BY <2>2, <2>3, <2>4, <2>5, BoardChanges
<1> QED BY <1>4, <1>5

\* So does an observation of the plugin.
LEMMA BoardObserved ==
  ASSUME Board!BoardInv, NEW epoch, NEW healthy, healthy = Board!inspect(epoch) \/ healthy = FALSE,
         s1' = s1 \/ s1' = Board!observeAgentBoardPlugin(s1, epoch, healthy),
         s7' = s7 \/ s7' = Board!NoJob, s5' \subseteq s5, UNCHANGED <<s2, s3, s4, s6>>
  PROVE  Board!BoardInv'
<1>1. /\ \A d \in s1.applied : s3[d] = "complete"
      /\ s1.status = "ready" /\ s1.observed = s1.epoch => s2.policy = s1.epoch /\ s2.seal \in {0, s2.tree}
      /\ s1.pending # NoDecision =>
           s1.epoch < MaxBoardEpoch /\ s1.status # "archived" /\ (s1.pending \in SkillDecisions => s1.status = "provisioning")
      /\ s1.deactivated => s1.status = "archived" /\ ~ s2.listed /\ s2.policy = 0
  BY BoardParts DEF Board!BoardInv, Board!ShutFits, Board!EffectsFit, Board!SealFits, Board!PolicyFits
<1>2. PICK b : s1' = b
  OBVIOUS
<1>3. /\ b \in Board!AgentBoard /\ b.epoch = s1.epoch /\ b.capability = s1.capability /\ b.pending = s1.pending
      /\ b.applied = s1.applied /\ b.deactivated = s1.deactivated
      /\ \/ b.status = s1.status /\ b.observed = s1.observed
         \/ s1.status # "archived" /\ s1.pending = NoDecision /\ b.status = "attention"
         \/ /\ s1.status # "archived" /\ s1.pending = NoDecision
            /\ Board!inspect(epoch) /\ epoch = s1.epoch /\ b.status = "ready" /\ b.observed = epoch
  <2>1. CASE b = s1
    BY <2>1, BoardParts
  <2>2. CASE b = Board!observeAgentBoardPlugin(s1, epoch, healthy) /\ b # s1
    <3>0. /\ s1.status # "archived" /\ s1.pending = NoDecision /\ epoch = s1.epoch
          /\ b = [s1 EXCEPT !.status = IF healthy THEN "ready" ELSE "attention", !.version = @ + 1,
                               !.observed = IF healthy THEN epoch ELSE @]
      BY <2>2 DEF Board!observeAgentBoardPlugin
    <3>1. s1.version + 1 \in Nat
      BY BoardParts
    <3>2. CASE healthy
      <4>0. Board!inspect(epoch)
        BY <3>2, Zenon
      <4>1. Board!inspect(epoch) /\ b = [s1 EXCEPT !.status = "ready", !.version = s1.version + 1, !.observed = epoch]
        BY <3>0, <3>2, <4>0
      <4>2. epoch \in 0..MaxBoardEpoch /\ epoch = s1.epoch /\ s1.status # "archived" /\ s1.pending = NoDecision /\ s1 \in Board!AgentBoard
        BY <3>0, BoardParts
      <4>3. b = [s1 EXCEPT !.status = "ready", !.version = s1.version + 1, !.observed = epoch]
        BY <4>1
      <4>4. /\ b \in Board!AgentBoard /\ b.epoch = s1.epoch /\ b.capability = s1.capability /\ b.pending = s1.pending
            /\ b.applied = s1.applied /\ b.deactivated = s1.deactivated /\ b.status = "ready" /\ b.observed = epoch
        BY <3>1, <4>2, <4>3 DEF Board!AgentBoard, Board!AgentBoardStatus
      <4> QED BY <4>1, <4>2, <4>4
    <3>3. CASE ~ healthy
      <4>1. b = [s1 EXCEPT !.status = "attention", !.version = s1.version + 1, !.observed = s1.observed]
        BY <3>0, <3>3
      <4> QED BY <3>0, <3>1, <4>1, BoardParts DEF Board!AgentBoard, Board!AgentBoardStatus
    <3> QED BY <3>2, <3>3
  <2> QED BY <1>2, <2>1, <2>2
<1>4. /\ b.capability <= b.epoch /\ s1.epoch <= b.epoch
      /\ b.pending # NoDecision =>
           b.epoch < MaxBoardEpoch /\ b.status # "archived" /\ (b.pending \in SkillDecisions => b.status = "provisioning")
      /\ s1.status = "archived" => b.status = "archived"
      /\ s7' # Board!NoJob /\ s7.pc # "none" /\ s7.command.kind = "decision" => b.pending = s1.pending
      /\ \A x \in b.applied : s3[x] = "complete"
      /\ b.status = "ready" /\ b.observed = b.epoch => s2.policy = b.epoch /\ s2.seal \in {0, s2.tree}
      /\ b.deactivated => b.status = "archived" /\ ~ s2.listed /\ s2.policy = 0
      /\ b.deactivated => s1.deactivated \/ s7' = Board!NoJob
  BY <1>1, <1>3, BoardParts DEF Board!inspect
<1>5. s5' \subseteq Board!Command /\ s6' \subseteq Board!Command /\ \A x \in s5' : x.kind = "decision" => x.decision \in Decisions
  BY BoardParts DEF Board!BoardInv, Board!PolicyFits
<1>6. UNCHANGED <<s2, s3, s4>>
  OBVIOUS
<1> QED BY <1>2, <1>3, <1>4, <1>5, <1>6, BoardChanges

\* What the invariant says of the job that runs.
LEMMA JobParts ==
  ASSUME Board!BoardInv, s7.pc # "none"
  PROVE  Board!ReconcileFits /\ Board!DecisionFits /\ Board!DeactivateFits
  BY DEF Board!BoardInv, Board!JobFits

\* A job that ends and writes nothing keeps the invariant.
LEMMA JobEndsQuietly ==
  ASSUME Board!BoardInv, s7' = Board!NoJob, s5' \subseteq s5, UNCHANGED <<s1, s2, s3, s4, s6>>
  PROVE  Board!BoardInv'
<1>1. PICK healthy, epoch : healthy = FALSE
  OBVIOUS
<1>2. /\ healthy = Board!inspect(epoch) \/ healthy = FALSE
      /\ s1' = s1 \/ s1' = Board!observeAgentBoardPlugin(s1, epoch, healthy)
      /\ s7' = s7 \/ s7' = Board!NoJob
  BY <1>1
<1>3. UNCHANGED <<s2, s3, s4, s6>>
  OBVIOUS
<1> QED BY <1>2, <1>3, BoardObserved

\* So does a job that begins.
LEMMA JobsBegin ==
  ASSUME Board!BoardInv, NEW c \in s5, Board!Take(c)
  PROVE  Board!BoardInv'
<1>0. s7.pc = "none" /\ UNCHANGED <<s1, s2, s3, s4, s6, s8>>
  BY DEF Board!Take
<1>1. CASE Board!Skips(c)
  BY <1>0, <1>1, JobEndsQuietly DEF Board!Take
<1>2. CASE ~ Board!Skips(c)
  <2>0. /\ s7' = [pc |-> "begun", version |-> s1.version, command |-> c] /\ UNCHANGED s5
        /\ c \in Board!Command /\ (c.kind = "decision" => c.decision \in Decisions)
    BY <1>2, BoardParts DEF Board!Take, Board!BoardInv, Board!PolicyFits
  <2>1. s7' \in Board!Job /\ s7'.pc = "begun" /\ s7'.command = c
    BY <2>0, BoardParts DEF Board!Job
  <2>2. Board!ReconcileFits'
    <3>1. CASE c.kind = "reconcile"
      <4>1. s1.status # "archived" /\ s1.epoch = c.epoch
        BY <1>2, <3>1 DEF Board!Skips, Board!ReconcileSkips
      <4> QED BY <1>0, <2>1, <4>1, BoardParts DEF Board!ReconcileFits, Board!BoardInv, Board!ShutFits
    <3> QED BY <2>1, <3>1 DEF Board!ReconcileFits
  <2>3. Board!DecisionFits'
    <3>1. CASE c.kind = "decision"
      <4>1. s1.pending = c.decision
        BY <1>2, <3>1 DEF Board!Skips, Board!DecisionSkips
      <4> QED BY <1>0, <2>0, <2>1, <4>1 DEF Board!DecisionFits
    <3> QED BY <2>1, <3>1 DEF Board!DecisionFits
  <2>4. Board!DeactivateFits'
    <3>1. CASE c.kind = "deactivate"
      <4>1. s1.status = "archived"
        BY <1>2, <3>1 DEF Board!Skips, Board!DeactivateSkips
      <4> QED BY <1>0, <2>1, <4>1 DEF Board!DeactivateFits
    <3> QED BY <2>1, <3>1 DEF Board!DeactivateFits
  <2>5. Board!JobFits'
    BY <2>2, <2>3, <2>4 DEF Board!JobFits
  <2>6. Board!EffectsFit'
    BY <1>0, <2>1 DEF Board!BoardInv, Board!EffectsFit, Board!Working
  <2>7. Board!BoardTypeOK'
    BY <1>0, <2>0, <2>1 DEF Board!BoardInv, Board!BoardTypeOK
  <2>8. Board!PolicyFits' /\ Board!SealFits' /\ Board!ShutFits'
    BY <1>0, <2>0 DEF Board!BoardInv, Board!PolicyFits, Board!SealFits, Board!ShutFits
  <2> QED BY <2>1, <2>5, <2>6, <2>7, <2>8 DEF Board!BoardInv
<1> QED BY <1>1, <1>2

\* So does a job that writes the profile.
LEMMA ProfileChanges ==
  ASSUME Board!BoardInv, NEW p \in Board!Profile, s2' = p, s7.pc # "none", NEW pc, s7' = [s7 EXCEPT !.pc = pc],
         UNCHANGED <<s1, s3, s4, s5, s6>>,
         \/ s7.command.kind = "reconcile" /\ pc \in {"written", "sealed"} /\ p.policy <= s7.command.epoch
         \/ s7.command.kind = "deactivate" /\ pc = "retired" /\ p.policy = 0 /\ ~ p.listed,
         s1.status = "ready" /\ s1.observed = s1.epoch => p.policy = s1.epoch /\ p.seal \in {0, p.tree}
  PROVE  Board!BoardInv'
<1>1. Board!ReconcileFits /\ Board!DecisionFits /\ Board!DeactivateFits
  BY JobParts
<1>2. s7' \in Board!Job /\ s7'.pc = pc /\ s7'.command = s7.command /\ s7'.version = s7.version
  BY BoardParts DEF Board!Job
<1>3. Board!ReconcileFits' /\ Board!DecisionFits' /\ Board!DeactivateFits'
  <2>1. Board!ReconcileFits'
    BY <1>1, <1>2 DEF Board!ReconcileFits
  <2>2. Board!DecisionFits'
    BY <1>1, <1>2 DEF Board!DecisionFits
  <2>3. Board!DeactivateFits'
    BY <1>1, <1>2 DEF Board!DeactivateFits
  <2> QED BY <2>1, <2>2, <2>3
<1>4. Board!PolicyFits'
  BY <1>1, BoardParts DEF Board!PolicyFits, Board!ReconcileFits, Board!BoardInv, Board!Profile
<1>5. Board!SealFits'
  BY DEF Board!SealFits
<1>6. Board!ShutFits'
  BY <1>1 DEF Board!ShutFits, Board!ReconcileFits, Board!DeactivateFits, Board!BoardInv
<1>7. Board!EffectsFit'
  BY <1>2 DEF Board!EffectsFit, Board!BoardInv, Board!Working
<1>8. Board!BoardTypeOK'
  BY <1>2 DEF Board!BoardInv, Board!BoardTypeOK
<1> QED BY <1>2, <1>3, <1>4, <1>5, <1>6, <1>7, <1>8 DEF Board!BoardInv, Board!JobFits

\* Writing, sealing and retiring the profile keep the invariant.
LEMMA ProfileSteps ==
  ASSUME Board!BoardInv, Board!WriteProfile \/ Board!Seal \/ Board!Retire
  PROVE  Board!BoardInv'
<1>0. /\ s7.pc # "none" /\ UNCHANGED <<s1, s3, s4, s5, s6>>
  BY DEF Board!WriteProfile, Board!Seal, Board!Retire, Board!Working
<1>1. Board!ReconcileFits /\ Board!DecisionFits /\ Board!DeactivateFits
  BY <1>0, JobParts
<1>s. s1.status = "ready" /\ s1.observed = s1.epoch => s2.policy = s1.epoch /\ s2.seal \in {0, s2.tree}
  BY DEF Board!BoardInv, Board!SealFits
<1>n. /\ s2 \in Board!Profile /\ s1.capability \in 0..MaxBoardEpoch /\ s7.command.epoch \in 0..MaxBoardEpoch /\ 0 \in 0..MaxBoardEpoch
      /\ s2.tree \in Nat
  BY BoardParts, BoardAssumption
<1>2. CASE Board!WriteProfile
  <2>1. PICK p : p = [s2 EXCEPT !.policy = s7.command.epoch, !.capability = s1.capability, !.seal = 0]
    OBVIOUS
  <2>2. p \in Board!Profile /\ p.policy = s7.command.epoch /\ p.seal = 0
    BY <1>n, <2>1 DEF Board!Profile
  <2>3. s7.command.kind = "reconcile" /\ s2' = p /\ s7' = [s7 EXCEPT !.pc = "written"]
    BY <1>2, <2>1 DEF Board!WriteProfile, Board!Working
  <2>4. PICK pc : pc = "written"
    OBVIOUS
  <2>5. /\ \/ s7.command.kind = "reconcile" /\ pc \in {"written", "sealed"} /\ p.policy <= s7.command.epoch
           \/ s7.command.kind = "deactivate" /\ pc = "retired" /\ p.policy = 0 /\ ~ p.listed
        /\ s1.status = "ready" /\ s1.observed = s1.epoch => p.policy = s1.epoch /\ p.seal \in {0, p.tree}
        /\ s7' = [s7 EXCEPT !.pc = pc]
    BY <1>1, <1>s, <2>2, <2>3, <2>4, BoardParts DEF Board!ReconcileFits
  <2> QED BY <1>0, <2>2, <2>3, <2>5, ProfileChanges
<1>3. CASE Board!Seal
  <2>1. PICK p : p = [[s2 EXCEPT !.seal = s2.tree] EXCEPT !.listed = TRUE]
    OBVIOUS
  <2>2. p \in Board!Profile /\ p.policy = s2.policy /\ p.seal = p.tree
    BY <1>n, <2>1 DEF Board!Profile
  <2>3. s7.command.kind = "reconcile" /\ s2' = p /\ s7' = [s7 EXCEPT !.pc = "sealed"]
    BY <1>3, <2>1 DEF Board!Seal, Board!seal, Board!Working
  <2>4. PICK pc : pc = "sealed"
    OBVIOUS
  <2>5. /\ \/ s7.command.kind = "reconcile" /\ pc \in {"written", "sealed"} /\ p.policy <= s7.command.epoch
           \/ s7.command.kind = "deactivate" /\ pc = "retired" /\ p.policy = 0 /\ ~ p.listed
        /\ s1.status = "ready" /\ s1.observed = s1.epoch => p.policy = s1.epoch /\ p.seal \in {0, p.tree}
        /\ s7' = [s7 EXCEPT !.pc = pc]
    BY <1>1, <1>s, <2>2, <2>3, <2>4, BoardParts DEF Board!ReconcileFits
  <2> QED BY <1>0, <2>2, <2>3, <2>5, ProfileChanges
<1>4. CASE Board!Retire
  <2>1. PICK p : p = [s2 EXCEPT !.policy = 0, !.capability = s1.capability, !.listed = FALSE]
    OBVIOUS
  <2>2. p \in Board!Profile /\ p.policy = 0 /\ ~ p.listed
    BY <1>n, <2>1 DEF Board!Profile
  <2>3. s7.command.kind = "deactivate" /\ s2' = p /\ s7' = [s7 EXCEPT !.pc = "retired"]
    BY <1>4, <2>1 DEF Board!Retire, Board!deactivate, Board!Working
  <2>4. PICK pc : pc = "retired"
    OBVIOUS
  <2>5. /\ \/ s7.command.kind = "reconcile" /\ pc \in {"written", "sealed"} /\ p.policy <= s7.command.epoch
           \/ s7.command.kind = "deactivate" /\ pc = "retired" /\ p.policy = 0 /\ ~ p.listed
        /\ s1.status = "ready" /\ s1.observed = s1.epoch => p.policy = s1.epoch /\ p.seal \in {0, p.tree}
        /\ s7' = [s7 EXCEPT !.pc = pc]
    BY <1>1, <1>s, <2>2, <2>3, <2>4, BoardParts DEF Board!DeactivateFits
  <2> QED BY <1>0, <2>2, <2>3, <2>5, ProfileChanges
<1> QED BY <1>2, <1>3, <1>4

\* A decided write moves with its receipt and its effect: applied once.
LEMMA DecisionMoves ==
  ASSUME Board!BoardInv, s7.pc # "none", s7.command.kind = "decision", NEW p \in Board!Profile, s2' = p,
         p.policy = s2.policy, p.listed = s2.listed, p = s2 \/ s7.command.decision \in SkillDecisions,
         NEW pc, s7' = [s7 EXCEPT !.pc = pc], NEW rc, s3' = [s3 EXCEPT ![s7.command.decision] = rc],
         NEW ef, s4' = [s4 EXCEPT ![s7.command.decision] = ef], UNCHANGED <<s1, s5, s6>>,
         \/ pc = "applying" /\ rc = "applying" /\ ef = 0
         \/ pc = "applied" /\ rc = "applying" /\ ef = 1
         \/ pc = "answered" /\ rc = "complete" /\ ef = 1,
         s7.command.decision \in s1.applied => rc = "complete"
  PROVE  Board!BoardInv'
<1>1. Board!ReconcileFits /\ Board!DecisionFits /\ Board!DeactivateFits
  BY JobParts
<1>2. s7' \in Board!Job /\ s7'.pc = pc /\ s7'.command = s7.command /\ s7'.version = s7.version
  BY BoardParts DEF Board!Job
<1>d. PICK d \in Decisions : d = s7.command.decision
  BY <1>1 DEF Board!DecisionFits
<1>3. /\ s3' \in [Decisions -> {"none", "applying", "complete"}] /\ s4' \in [Decisions -> Nat]
      /\ \A e \in Decisions : /\ s3'[e] = IF e = d THEN rc ELSE s3[e]
                              /\ s4'[e] = IF e = d THEN ef ELSE s4[e]
  BY <1>d, BoardParts
<1>4. Board!ReconcileFits' /\ Board!DecisionFits' /\ Board!DeactivateFits'
  <2>1. Board!ReconcileFits' /\ Board!DeactivateFits'
    BY <1>2 DEF Board!ReconcileFits, Board!DeactivateFits
  <2>2. Board!DecisionFits'
    BY <1>1, <1>2, <1>3, <1>d DEF Board!DecisionFits
  <2> QED BY <2>1, <2>2
<1>5. Board!PolicyFits'
  BY DEF Board!BoardInv, Board!PolicyFits
<1>6. Board!SealFits'
  <2>1. d \in SkillDecisions => s1.status = "provisioning"
    BY <1>1, <1>d, BoardAssumption DEF Board!DecisionFits, Board!BoardInv, Board!PolicyFits
  <2> QED BY <1>d, <2>1 DEF Board!SealFits, Board!BoardInv
<1>7. Board!ShutFits'
  BY DEF Board!ShutFits, Board!BoardInv
<1>8. Board!EffectsFit'
  <2>1. ASSUME NEW e \in Decisions
        PROVE  /\ s3'[e] = "none" => s4'[e] = 0
               /\ s3'[e] = "applying" => s4'[e] <= 1
               /\ s3'[e] = "applying" /\ pc = "applying" /\ s7.command.decision = e => s4'[e] = 0
               /\ s3'[e] = "complete" => s4'[e] = 1
               /\ e \in s1.applied => s3'[e] = "complete"
    BY <1>3, <1>d DEF Board!EffectsFit, Board!BoardInv
  <2> QED BY <1>2, <2>1 DEF Board!EffectsFit, Board!Working
<1>9. Board!BoardTypeOK'
  BY <1>2, <1>3, BoardParts DEF Board!BoardInv, Board!BoardTypeOK
<1> QED BY <1>2, <1>4, <1>5, <1>6, <1>7, <1>8, <1>9 DEF Board!BoardInv, Board!JobFits

\* The steps of a decided write keep the invariant.
LEMMA DecisionSteps ==
  ASSUME Board!BoardInv, Board!WriteReceipt \/ Board!ApplyDecision \/ Board!CompleteReceipt \/ Board!ReplayDecision
  PROVE  Board!BoardInv'
<1>0. s7.pc # "none" /\ s7.command.kind = "decision" /\ UNCHANGED <<s1, s5, s6>>
  BY DEF Board!WriteReceipt, Board!ApplyDecision, Board!CompleteReceipt, Board!ReplayDecision, Board!Working
<1>1. Board!ReconcileFits /\ Board!DecisionFits /\ Board!DeactivateFits
  BY <1>0, JobParts
<1>d. PICK d \in Decisions : d = s7.command.decision
  BY <1>0, <1>1 DEF Board!DecisionFits
<1>e. /\ s3[d] = "none" => s4[d] = 0
      /\ Board!Working("decision", "applying") => s3[d] = "applying" /\ s4[d] = 0
      /\ Board!Working("decision", "applied") => s3[d] = "applying" /\ s4[d] = 1
      /\ s3[d] = "complete" => s4[d] = 1
      /\ d \in s1.applied => s3[d] = "complete"
  BY <1>1, <1>d DEF Board!DecisionFits, Board!EffectsFit, Board!BoardInv, Board!Working
<1>2. /\ s2 \in Board!Profile /\ s3 \in [Decisions -> {"none", "applying", "complete"}] /\ s4 \in [Decisions -> Nat]
      /\ s2.tree \in Nat
      /\ s3 = [s3 EXCEPT ![d] = s3[d]] /\ s4 = [s4 EXCEPT ![d] = s4[d]]
  BY BoardParts
<1>3. SUFFICES
        \E p \in Board!Profile : \E pc, rc, ef :
          /\ s2' = p /\ p.policy = s2.policy /\ p.listed = s2.listed
          /\ p = s2 \/ s7.command.decision \in SkillDecisions
          /\ s7' = [s7 EXCEPT !.pc = pc] /\ s3' = [s3 EXCEPT ![s7.command.decision] = rc]
          /\ s4' = [s4 EXCEPT ![s7.command.decision] = ef]
          /\ \/ pc = "applying" /\ rc = "applying" /\ ef = 0
             \/ pc = "applied" /\ rc = "applying" /\ ef = 1
             \/ pc = "answered" /\ rc = "complete" /\ ef = 1
          /\ s7.command.decision \in s1.applied => rc = "complete"
  <2>1. PICK p \in Board!Profile : \E pc, rc, ef :
          /\ s2' = p /\ p.policy = s2.policy /\ p.listed = s2.listed
          /\ p = s2 \/ s7.command.decision \in SkillDecisions
          /\ s7' = [s7 EXCEPT !.pc = pc] /\ s3' = [s3 EXCEPT ![s7.command.decision] = rc]
          /\ s4' = [s4 EXCEPT ![s7.command.decision] = ef]
          /\ \/ pc = "applying" /\ rc = "applying" /\ ef = 0
             \/ pc = "applied" /\ rc = "applying" /\ ef = 1
             \/ pc = "answered" /\ rc = "complete" /\ ef = 1
          /\ s7.command.decision \in s1.applied => rc = "complete"
    OBVIOUS
  <2>2. PICK pc, rc, ef :
          /\ s2' = p /\ p.policy = s2.policy /\ p.listed = s2.listed
          /\ p = s2 \/ s7.command.decision \in SkillDecisions
          /\ s7' = [s7 EXCEPT !.pc = pc] /\ s3' = [s3 EXCEPT ![s7.command.decision] = rc]
          /\ s4' = [s4 EXCEPT ![s7.command.decision] = ef]
          /\ \/ pc = "applying" /\ rc = "applying" /\ ef = 0
             \/ pc = "applied" /\ rc = "applying" /\ ef = 1
             \/ pc = "answered" /\ rc = "complete" /\ ef = 1
          /\ s7.command.decision \in s1.applied => rc = "complete"
    BY <2>1
  <2> QED BY <1>0, <2>1, <2>2, DecisionMoves
<1>4. CASE Board!WriteReceipt
  <2>1. /\ s3[d] = "none" /\ s3' = [s3 EXCEPT ![d] = "applying"] /\ s7' = [s7 EXCEPT !.pc = "applying"]
        /\ s2' = s2 /\ s4' = s4
    BY <1>4, <1>d DEF Board!WriteReceipt, Board!ReadReceipt, Board!Receipt
  <2>2. s4' = [s4 EXCEPT ![d] = 0]
    BY <1>e, <1>2, <2>1
  <2> QED BY <1>d, <1>e, <1>2, <2>1, <2>2
<1>5. CASE Board!ApplyDecision
  <2>1. /\ Board!Working("decision", "applying") /\ s4' = [s4 EXCEPT ![d] = s4[d] + 1] /\ s3' = s3
        /\ s2' = IF d \in SkillDecisions THEN [s2 EXCEPT !.tree = s2.tree + 1] ELSE s2
        /\ s7' = [s7 EXCEPT !.pc = "applied"]
    BY <1>5, <1>d DEF Board!ApplyDecision
  <2>2. s3' = [s3 EXCEPT ![d] = "applying"] /\ s4' = [s4 EXCEPT ![d] = 1] /\ d \notin s1.applied
    BY <1>e, <1>2, <2>1
  <2>3. PICK p : p = s2'
    OBVIOUS
  <2>4. /\ p \in Board!Profile /\ p.policy = s2.policy /\ p.listed = s2.listed /\ (p = s2 \/ d \in SkillDecisions)
        /\ s2' = p
    <3>1. [s2 EXCEPT !.tree = s2.tree + 1] \in Board!Profile /\ [s2 EXCEPT !.tree = s2.tree + 1].policy = s2.policy
          /\ [s2 EXCEPT !.tree = s2.tree + 1].listed = s2.listed
      BY <1>2 DEF Board!Profile
    <3> QED BY <1>2, <2>1, <2>3, <3>1
  <2> QED BY <1>d, <2>1, <2>2, <2>4
<1>6. CASE Board!CompleteReceipt
  <2>1. /\ Board!Working("decision", "applied") /\ s4' = s4 /\ s3' = [s3 EXCEPT ![d] = "complete"]
        /\ s2' = IF d \in SkillDecisions THEN [s2 EXCEPT !.seal = 0] ELSE s2
        /\ s7' = [s7 EXCEPT !.pc = "answered"]
    BY <1>6, <1>d DEF Board!CompleteReceipt, Board!Receipt
  <2>2. s4' = [s4 EXCEPT ![d] = 1]
    BY <1>e, <1>2, <2>1
  <2>3. PICK p : p = s2'
    OBVIOUS
  <2>4. /\ p \in Board!Profile /\ p.policy = s2.policy /\ p.listed = s2.listed /\ (p = s2 \/ d \in SkillDecisions)
        /\ s2' = p
    <3>1. [s2 EXCEPT !.seal = 0] \in Board!Profile /\ [s2 EXCEPT !.seal = 0].policy = s2.policy
          /\ [s2 EXCEPT !.seal = 0].listed = s2.listed
      BY <1>2 DEF Board!Profile
    <3> QED BY <1>2, <2>1, <2>3, <3>1
  <2> QED BY <1>d, <2>1, <2>2, <2>4
<1>7. CASE Board!ReplayDecision
  <2>1. /\ s3[d] = "complete" /\ s3' = s3 /\ s7' = [s7 EXCEPT !.pc = "answered"]
        /\ s2' = s2 /\ s4' = s4
    BY <1>7, <1>d DEF Board!ReplayDecision, Board!ReadReceipt
  <2>2. s4' = [s4 EXCEPT ![d] = 1] /\ s3' = [s3 EXCEPT ![d] = "complete"]
    BY <1>e, <1>2, <2>1
  <2> QED BY <1>d, <1>2, <2>1, <2>2
<1> QED BY <1>4, <1>5, <1>6, <1>7

\* So does its answer.
LEMMA DecidedStep ==
  ASSUME Board!BoardInv, Board!Decided
  PROVE  Board!BoardInv'
<1>0. s7.pc = "answered" /\ s7.command.kind = "decision" /\ UNCHANGED <<s2, s3, s4>>
  BY DEF Board!Decided, Board!Working
<1>1. Board!ReconcileFits /\ Board!DecisionFits /\ Board!DeactivateFits
  BY <1>0, JobParts
<1>d. PICK d \in Decisions : d = s7.command.decision /\ s1.pending = d /\ s3[d] = "complete"
  BY <1>0, <1>1 DEF Board!DecisionFits
<1>2. /\ s1' = Board!observeAgentBoardPluginDecision(s1, d) /\ s7' = Board!NoJob
      /\ s5' = (s5 \ {s7.command}) \cup
                       (IF d \in SkillDecisions THEN {Board!Reconcile(s1.epoch + 1)} ELSE {})
      /\ s6' = s6 \cup (IF d \in SkillDecisions THEN {Board!Reconcile(s1.epoch + 1)} ELSE {})
  BY <1>d DEF Board!Decided
<1>3. /\ s1.epoch < MaxBoardEpoch /\ s1.status # "archived" /\ (d \in SkillDecisions => s1.status = "provisioning")
      /\ s1.epoch + 1 \in 1..MaxBoardEpoch /\ s1.capability + 1 \in 1..MaxBoardEpoch /\ s1.version + 1 \in Nat
      /\ s1.applied \cup {d} \subseteq Decisions
  BY <1>d, BoardAssumption, BoardParts DEF Board!BoardInv, Board!PolicyFits
<1>4. /\ ~ s1.deactivated /\ \A e \in s1.applied : s3[e] = "complete"
      /\ s1.status = "ready" /\ s1.observed = s1.epoch => s2.policy = s1.epoch /\ s2.seal \in {0, s2.tree}
  BY <1>3, BoardParts DEF Board!BoardInv, Board!ShutFits, Board!EffectsFit, Board!SealFits
<1>c. s5' \subseteq Board!Command /\ s6' \subseteq Board!Command /\ \A x \in s5' : x.kind = "decision" => x.decision \in Decisions
  <2>1. Board!Reconcile(s1.epoch + 1) \in Board!Command /\ Board!Reconcile(s1.epoch + 1).kind = "reconcile"
    BY <1>3, CommandsFit
  <2>2. \A x \in s5 : x.kind = "decision" => x.decision \in Decisions
    BY DEF Board!BoardInv, Board!PolicyFits
  <2> QED BY <1>2, <2>1, <2>2, BoardParts
<1>5. PICK b : b = s1'
  OBVIOUS
<1>6. /\ b \in Board!AgentBoard /\ b.pending = NoDecision /\ b.applied = s1.applied \cup {d} /\ ~ b.deactivated
      /\ b.observed = s1.observed
      /\ IF d \in SkillDecisions THEN b.status = "provisioning" /\ b.epoch = s1.epoch + 1 /\ b.capability = s1.capability + 1
         ELSE b.status = s1.status /\ b.epoch = s1.epoch /\ b.capability = s1.capability
  <2>1. CASE d \in SkillDecisions
    <3>1. b = [s1 EXCEPT !.version = s1.version + 1, !.applied = s1.applied \cup {d}, !.pending = NoDecision,
                            !.status = "provisioning", !.epoch = s1.epoch + 1, !.capability = s1.capability + 1]
      BY <1>2, <1>5, <2>1 DEF Board!observeAgentBoardPluginDecision
    <3> QED BY <1>3, <1>4, <2>1, <3>1, BoardParts DEF Board!AgentBoard, Board!AgentBoardStatus,
       Board!AgentBoardPluginDecision
  <2>2. CASE d \notin SkillDecisions
    <3>1. b = [s1 EXCEPT !.version = s1.version + 1, !.applied = s1.applied \cup {d}, !.pending = NoDecision,
                            !.status = s1.status, !.epoch = s1.epoch + 0, !.capability = s1.capability + 0]
      BY <1>2, <1>5, <2>2 DEF Board!observeAgentBoardPluginDecision
    <3>2. s1.epoch + 0 = s1.epoch /\ s1.capability + 0 = s1.capability
      BY BoardParts
    <3> QED BY <1>3, <1>4, <2>2, <3>1, <3>2, BoardParts DEF Board!AgentBoard, Board!AgentBoardStatus,
       Board!AgentBoardPluginDecision
  <2> QED BY <2>1, <2>2
<1>7. /\ b.capability <= b.epoch /\ s1.epoch <= b.epoch
      /\ b.pending # NoDecision =>
           b.epoch < MaxBoardEpoch /\ b.status # "archived" /\ (b.pending \in SkillDecisions => b.status = "provisioning")
      /\ s1.status = "archived" => b.status = "archived"
      /\ s7' # Board!NoJob /\ s7.pc # "none" /\ s7.command.kind = "decision" => b.pending = s1.pending
      /\ \A x \in b.applied : s3[x] = "complete"
      /\ b.status = "ready" /\ b.observed = b.epoch => s2.policy = b.epoch /\ s2.seal \in {0, s2.tree}
      /\ b.deactivated => b.status = "archived" /\ ~ s2.listed /\ s2.policy = 0
      /\ b.deactivated => s1.deactivated \/ s7' = Board!NoJob
  BY <1>2, <1>3, <1>4, <1>6, <1>d, BoardParts
<1>8. s1' = b /\ (s7' = s7 \/ s7' = Board!NoJob) /\ UNCHANGED <<s2, s3, s4>>
  BY <1>0, <1>2, <1>5
<1> QED BY <1>6, <1>7, <1>8, <1>c, BoardChanges

\* So does the answer of a deactivation.
LEMMA DeactivatedStep ==
  ASSUME Board!BoardInv, Board!Deactivated
  PROVE  Board!BoardInv'
<1>0. /\ s7.pc = "retired" /\ s7.command.kind = "deactivate" /\ UNCHANGED <<s2, s3, s4, s6>>
      /\ s7' = Board!NoJob /\ s5' = s5 \ {s7.command}
      /\ s1' = s1 \/ s1' = Board!observeAgentBoardDeactivated(s1)
  BY DEF Board!Deactivated, Board!Working, Board!Finished
<1>1. s1.status = "archived" /\ s2.policy = 0 /\ ~ s2.listed
  BY <1>0, JobParts DEF Board!DeactivateFits
<1>2. CASE s1' = s1
  BY <1>0, <1>2, JobEndsQuietly
<1>3. CASE s1' = Board!observeAgentBoardDeactivated(s1)
  <2>1. PICK b : b = [s1 EXCEPT !.version = s1.version + 1, !.deactivated = TRUE]
    OBVIOUS
  <2>2. /\ s1' = b /\ b \in Board!AgentBoard /\ b.status = s1.status /\ b.epoch = s1.epoch /\ b.capability = s1.capability
        /\ b.pending = s1.pending /\ b.applied = s1.applied
    <3>1. s1 \in Board!AgentBoard /\ s1.version + 1 \in Nat
      BY BoardParts
    <3>2. b \in Board!AgentBoard
      BY <2>1, <3>1 DEF Board!AgentBoard
    <3>3. /\ b.status = s1.status /\ b.epoch = s1.epoch /\ b.capability = s1.capability
          /\ b.pending = s1.pending /\ b.applied = s1.applied
      BY <2>1, <3>1 DEF Board!AgentBoard
    <3>4. s1' = b
      BY <1>3, <2>1 DEF Board!observeAgentBoardDeactivated
    <3> QED BY <3>2, <3>3, <3>4
  <2>3. /\ b.capability <= b.epoch /\ s1.epoch <= b.epoch
        /\ b.pending # NoDecision =>
             b.epoch < MaxBoardEpoch /\ b.status # "archived" /\ (b.pending \in SkillDecisions => b.status = "provisioning")
        /\ s1.status = "archived" => b.status = "archived"
        /\ s7' # Board!NoJob /\ s7.pc # "none" /\ s7.command.kind = "decision" => b.pending = s1.pending
        /\ \A x \in b.applied : s3[x] = "complete"
        /\ b.status = "ready" /\ b.observed = b.epoch => s2.policy = b.epoch /\ s2.seal \in {0, s2.tree}
        /\ b.deactivated => b.status = "archived" /\ ~ s2.listed /\ s2.policy = 0
        /\ b.deactivated => s1.deactivated \/ s7' = Board!NoJob
    BY <1>0, <1>1, <2>2, BoardParts DEF Board!BoardInv, Board!PolicyFits, Board!EffectsFit
  <2>4. s5' \subseteq Board!Command /\ s6' \subseteq Board!Command /\ \A x \in s5' : x.kind = "decision" => x.decision \in Decisions
    BY <1>0, BoardParts DEF Board!BoardInv, Board!PolicyFits
  <2>5. s1' = b /\ (s7' = s7 \/ s7' = Board!NoJob) /\ UNCHANGED <<s2, s3, s4>>
    BY <1>0, <2>2
  <2> QED BY <2>2, <2>3, <2>4, <2>5, BoardChanges
<1> QED BY <1>0, <1>2, <1>3

\* So does the recovery of what was not answered.
LEMMA BoardRecovers ==
  ASSUME Board!BoardInv, Board!recoverAgentBoardPlugins
  PROVE  Board!BoardInv'
<1>0. UNCHANGED <<s1, s2, s3, s4, s7, s8>>
  BY DEF Board!recoverAgentBoardPlugins
<1>1. PICK c \in Board!Command : Board!Dispatch(c) /\ (c.kind = "decision" => c.decision \in Decisions)
  <2>1. CASE s1.pending # NoDecision /\ s1.status # "archived"
    <3>1. PICK c : c = [kind |-> "decision", epoch |-> s1.epoch, decision |-> s1.pending]
      OBVIOUS
    <3>2. c \in Board!Command /\ Board!Dispatch(c) /\ c.decision \in Decisions
      BY <2>1, <3>1, BoardParts, CommandsFit DEF Board!recoverAgentBoardPlugins
    <3> QED BY <3>2
  <2>2. CASE ~ (s1.pending # NoDecision /\ s1.status # "archived")
    <3>1. PICK c \in {Board!Reconcile(s1.epoch), [Board!Reconcile(s1.epoch) EXCEPT !.kind = "deactivate"]} : Board!Dispatch(c)
      BY <2>2 DEF Board!recoverAgentBoardPlugins
    <3>2. c \in Board!Command /\ c.kind # "decision"
      BY <3>1, BoardParts, CommandsFit
    <3> QED BY <3>1, <3>2
  <2> QED BY <2>1, <2>2
<1>2. s5' \subseteq Board!Command /\ s6' \subseteq Board!Command /\ \A x \in s5' : x.kind = "decision" => x.decision \in Decisions
  BY <1>1, Dispatched
<1>3. Board!BoardTypeOK' /\ Board!PolicyFits' /\ Board!SealFits' /\ Board!ShutFits'
  BY <1>0, <1>2 DEF Board!BoardInv, Board!BoardTypeOK, Board!PolicyFits, Board!SealFits, Board!ShutFits
<1>4. Board!JobFits' /\ Board!EffectsFit' /\ s7' \in Board!Job
  BY <1>0 DEF Board!BoardInv, Board!JobFits, Board!ReconcileFits, Board!DecisionFits, Board!DeactivateFits,
     Board!EffectsFit, Board!Working
<1> QED BY <1>3, <1>4 DEF Board!BoardInv

\* So do the tests and the ends of a reconciliation.
LEMMA ObservingSteps ==
  ASSUME Board!BoardInv, Board!test \/ Board!Reconciled \/ Board!ReconcileFailed \/ Board!JobInterrupted
  PROVE  Board!BoardInv'
<1>1. CASE Board!test
  <2>1. PICK healthy \in {FALSE, Board!inspect(s1.epoch)} : s1' = Board!observeAgentBoardPlugin(s1, s1.epoch, healthy)
    BY <1>1 DEF Board!test
  <2>2. PICK epoch : epoch = s1.epoch
    OBVIOUS
  <2>3. /\ healthy = Board!inspect(epoch) \/ healthy = FALSE
        /\ s1' = s1 \/ s1' = Board!observeAgentBoardPlugin(s1, epoch, healthy)
    BY <2>1, <2>2
  <2>4. (s7' = s7 \/ s7' = Board!NoJob) /\ s5' \subseteq s5 /\ UNCHANGED <<s2, s3, s4, s6>>
    BY <1>1 DEF Board!test
  <2> QED BY <2>3, <2>4, BoardObserved
<1>2. CASE Board!Reconciled
  <2>1. PICK epoch, healthy : epoch = s7.command.epoch /\ healthy = Board!inspect(epoch)
    OBVIOUS
  <2>2. /\ healthy = Board!inspect(epoch) \/ healthy = FALSE
        /\ s1' = s1 \/ s1' = Board!observeAgentBoardPlugin(s1, epoch, healthy)
    BY <1>2, <2>1 DEF Board!Reconciled
  <2>4. (s7' = s7 \/ s7' = Board!NoJob) /\ s5' \subseteq s5 /\ UNCHANGED <<s2, s3, s4, s6>>
    BY <1>2 DEF Board!Reconciled, Board!Finished
  <2> QED BY <2>2, <2>4, BoardObserved
<1>3. CASE Board!ReconcileFailed
  <2>1. PICK epoch, healthy : epoch = s7.command.epoch /\ healthy = FALSE
    OBVIOUS
  <2>2. /\ healthy = Board!inspect(epoch) \/ healthy = FALSE
        /\ s1' = s1 \/ s1' = Board!observeAgentBoardPlugin(s1, epoch, healthy)
    BY <1>3, <2>1 DEF Board!ReconcileFailed
  <2>4. (s7' = s7 \/ s7' = Board!NoJob) /\ s5' \subseteq s5 /\ UNCHANGED <<s2, s3, s4, s6>>
    BY <1>3 DEF Board!ReconcileFailed
  <2> QED BY <2>2, <2>4, BoardObserved
<1>4. CASE Board!JobInterrupted
  <2>1. s7' = Board!NoJob /\ s5' \subseteq s5 /\ UNCHANGED <<s1, s2, s3, s4, s6>>
    BY <1>4 DEF Board!JobInterrupted
  <2> QED BY <2>1, JobEndsQuietly
<1> QED BY <1>1, <1>2, <1>3, <1>4

\* The invariant of the Boards holds initially.
LEMMA BoardInitially ==
  ASSUME Board!BoardInit
  PROVE  Board!BoardInv
<1>0. 1 \in 1..MaxBoardEpoch /\ 0 \in 0..MaxBoardEpoch
  BY BoardAssumption
<1>1. s1 \in Board!AgentBoard /\ s2 \in Board!Profile
  BY <1>0 DEF Board!BoardInit, Board!createAgentBoard, Board!AgentBoard, Board!AgentBoardStatus,
     Board!AgentBoardPluginDecision, Board!Profile
<1>2. Board!BoardTypeOK /\ s7 \in Board!Job
  BY <1>0, <1>1, CommandsFit DEF Board!BoardInit, Board!BoardTypeOK, Board!Job
<1>3. Board!PolicyFits
  <2>1. s1.capability = 1 /\ s1.epoch = 1 /\ s2.policy = 0 /\ s1.pending = NoDecision /\ s5 = {Board!Reconcile(1)}
    BY DEF Board!BoardInit, Board!createAgentBoard
  <2>2. Board!Reconcile(1).kind # "decision"
    BY <1>0, CommandsFit
  <2> QED BY <2>1, <2>2 DEF Board!PolicyFits
<1>4. Board!JobFits /\ Board!EffectsFit /\ Board!SealFits /\ Board!ShutFits
  BY CommandsFit DEF Board!BoardInit, Board!createAgentBoard, Board!JobFits, Board!EffectsFit, Board!SealFits,
     Board!ShutFits, Board!Working
<1> QED BY <1>2, <1>3, <1>4 DEF Board!BoardInv

\* Every step of the Boards keeps it.
LEMMA BoardKeeps ==
  ASSUME Board!BoardInv, [Board!BoardNext]_Board!boardVars
  PROVE  Board!BoardInv'
<1>1. CASE UNCHANGED Board!boardVars \/ Board!run
  <2>1. UNCHANGED <<s1, s2, s3, s4, s5, s6, s7>>
    BY <1>1 DEF Board!boardVars, Board!run
  <2> QED BY <2>1 DEF Board!BoardInv, Board!BoardTypeOK, Board!PolicyFits, Board!SealFits, Board!ShutFits,
     Board!JobFits, Board!ReconcileFits, Board!DecisionFits, Board!DeactivateFits, Board!EffectsFit,
                      Board!Working
<1>2. CASE Board!BoardPeople
  BY <1>1, <1>2, PeopleChangeBoard, ObservingSteps DEF Board!BoardPeople
<1>3. CASE Board!BoardWorker
  BY <1>3, JobsBegin, ProfileSteps, DecisionSteps, DecidedStep, DeactivatedStep, BoardRecovers,
     ObservingSteps DEF Board!BoardWorker
<1>4. CASE Board!ReconcileFailed \/ Board!JobInterrupted
  BY <1>4, ObservingSteps
<1> QED BY <1>1, <1>2, <1>3, <1>4 DEF Board!BoardNext

\* It contains what the Boards promise.
LEMMA BoardHolds ==
  ASSUME Board!BoardInv
  PROVE  Board!BoardTypeOK /\ Board!DecisionAppliedOnce /\ Board!AppliedDecisionHappened /\ Board!ReadyIsSealed /\ Board!DeactivatedIsShut
<1>1. Board!DecisionAppliedOnce /\ Board!AppliedDecisionHappened
  <2>1. \A d \in Decisions : s3[d] \in {"none", "applying", "complete"} /\ s4[d] \in Nat
    BY BoardParts
  <2> QED BY <2>1, BoardParts DEF Board!BoardInv, Board!EffectsFit, Board!DecisionAppliedOnce,
     Board!AppliedDecisionHappened
<1>2. Board!ReadyIsSealed /\ Board!DeactivatedIsShut
  BY DEF Board!BoardInv, Board!SealFits, Board!ShutFits, Board!ReadyIsSealed, Board!BoardReady, Board!DeactivatedIsShut
<1> QED BY <1>1, <1>2 DEF Board!BoardInv

-----------------------------------------------------------------------------
(* Proofs.  Agent runtimes.                                                *)

\* What the invariant says of the profiles and the requests.
LEMMA RuntimeParts ==
  ASSUME Agents!RuntimeInv
  PROVE  /\ s1 \in {"single-user", "sessions"} /\ s3 \in Profiles \cup {NoProfile}
         /\ s2 \in [Profiles -> Agents!AgentRuntimeProfile \cup {Agents!NoRuntime, Agents!RemovedRuntime}]
         /\ s5 \in [RuntimeOperations -> Agents!Operation] /\ s6 \subseteq Profiles
         /\ s7 \subseteq Profiles \X (1..MaxRuntimeVersion) /\ s8 \subseteq Profiles \X (1..MaxRuntimeVersion) \X People
         /\ \A o \in RuntimeOperations : Agents!OpFits(s5[o])
         /\ \A p \in Profiles : Agents!Exists(p) <=> s2[p] \in Agents!AgentRuntimeProfile
         /\ \A p \in Profiles : Agents!Exists(p) => s2[p].version \in 1..MaxRuntimeVersion /\ s2[p].connection \in 1..MaxRuntimeVersion
         /\ \A p \in Profiles : Agents!Exists(p) \/ s2[p] = Agents!NoRuntime \/ s2[p] = Agents!RemovedRuntime
  BY DEF Agents!RuntimeInv, Agents!RuntimeTypeOK, Agents!Exists, Agents!AgentRuntimeProfile, Agents!NoRuntime,
     Agents!RemovedRuntime, Agents!AgentRuntimePreset

\* A profile is neither missing nor removed.
LEMMA NotRuntimes ==
  ASSUME NEW q \in Agents!AgentRuntimeProfile
  PROVE  /\ q # Agents!NoRuntime /\ q # Agents!RemovedRuntime /\ Agents!NoRuntime # Agents!RemovedRuntime
         /\ Agents!NoRuntime.preset \notin Agents!AgentRuntimePreset /\ Agents!RemovedRuntime.preset \notin Agents!AgentRuntimePreset
         /\ q.preset \in Agents!AgentRuntimePreset /\ q.version \in 1..MaxRuntimeVersion /\ q.connection \in 1..MaxRuntimeVersion
  BY DEF Agents!AgentRuntimeProfile, Agents!NoRuntime, Agents!RemovedRuntime, Agents!AgentRuntimePreset

\* An idle request fits.
LEMMA IdleOpFits == Agents!IdleOp \in Agents!Operation /\ Agents!OpFits(Agents!IdleOp) /\ Agents!OpFits(Agents!IdleOp)'
<1>1. 0 \in 0..MaxRuntimeVersion
  BY RuntimeAssumption
<1> QED BY <1>1, RuntimeAssumption DEF Agents!IdleOp, Agents!Operation, Agents!OpFits, Agents!Seen, Agents!RevisionFits,
   Agents!TestFits, Agents!CallFits

\* Every request fits when the one that moved does and those that did not still do.
LEMMA OperationsFit ==
  ASSUME Agents!RuntimeInv, NEW o \in RuntimeOperations, NEW r \in Agents!Operation, s5' = [s5 EXCEPT ![o] = r] \/ s5' = s5,
         \A x \in Agents!Operation : Agents!OpFits(x) => Agents!OpFits(x)', Agents!OpFits(r)'
  PROVE  s5' \in [RuntimeOperations -> Agents!Operation] /\ \A y \in RuntimeOperations : Agents!OpFits(s5[y])'
<1>1. s5' \in [RuntimeOperations -> Agents!Operation] /\ \A y \in RuntimeOperations : s5'[y] = s5[y] \/ s5'[y] = r
  BY RuntimeParts
<1>2. ASSUME NEW y \in RuntimeOperations PROVE Agents!OpFits(s5[y])'
  <2>1. CASE s5'[y] = s5[y]
    <3>1. s5[y] \in Agents!Operation /\ Agents!OpFits(s5[y])
      BY RuntimeParts
    <3>2. PICK x \in Agents!Operation : x = s5[y]
      BY <3>1
    <3>3. Agents!OpFits(x)' /\ x = s5'[y]
      BY <2>1, <3>1, <3>2
    <3> QED BY <3>3 DEF Agents!OpFits, Agents!Seen, Agents!RevisionFits, Agents!TestFits, Agents!CallFits,
       Agents!Exists, Agents!atVersion
  <2>2. CASE s5'[y] = r
    BY <2>2 DEF Agents!OpFits, Agents!Seen, Agents!RevisionFits, Agents!TestFits, Agents!CallFits, Agents!Exists,
       Agents!atVersion
  <2> QED BY <1>1, <2>1, <2>2
<1> QED BY <1>1, <1>2

\* A request fits as it did while the profiles stay.
LEMMA SameProfile ==
  ASSUME UNCHANGED <<s1, s2>>, NEW r, Agents!OpFits(r)
  PROVE  Agents!OpFits(r)'
  BY DEF Agents!OpFits, Agents!Seen, Agents!RevisionFits, Agents!TestFits, Agents!CallFits, Agents!Exists,
     Agents!atVersion

\* A step that writes no profile keeps the invariant: whoever calls one calls it healthy, and may.
LEMMA RequestGoesOn ==
  ASSUME Agents!RuntimeInv, UNCHANGED <<s1, s2>>,
         NEW o \in RuntimeOperations, NEW r \in Agents!Operation, Agents!OpFits(r), s5' = [s5 EXCEPT ![o] = r] \/ s5' = s5,
         s3' \in Profiles \cup {NoProfile}, s4' \in [People -> {"owner", "editor", "none"}], s6' \subseteq Profiles,
         UNCHANGED s7,
         \/ UNCHANGED s8
         \/ \E p \in Profiles, who \in People :
              /\ s8' = s8 \cup {<<p, s2[p].connection, who>>} /\ Agents!Exists(p) /\ s2[p].status = "healthy"
              /\ s1 = "sessions" /\ s2[p].preset = "codex-local" => who = ConfiguredOwner
  PROVE  Agents!RuntimeInv'
<1>1. Agents!OpFits(r)' /\ \A x \in Agents!Operation : Agents!OpFits(x) => Agents!OpFits(x)'
  BY SameProfile
<1>2. s5' \in [RuntimeOperations -> Agents!Operation] /\ \A y \in RuntimeOperations : Agents!OpFits(s5[y])'
  BY <1>1, OperationsFit
<1>3. s8' \subseteq Profiles \X (1..MaxRuntimeVersion) \X People
  BY RuntimeParts
<1>4. Agents!RuntimeTypeOK'
  BY <1>2, <1>3, RuntimeParts DEF Agents!RuntimeInv, Agents!RuntimeTypeOK
<1>5. /\ Agents!HealthyWasTested /\ Agents!OnlyTestedIsCalled /\ Agents!PersonalStaysPersonal /\ Agents!CalledIsKnown
  BY DEF Agents!RuntimeInv
<1>6. Agents!HealthyWasTested'
  BY <1>5 DEF Agents!HealthyWasTested, Agents!Exists
<1>7. ASSUME NEW c \in s8'
      PROVE  /\ <<c[1], c[2]>> \in s7' /\ s2'[c[1]] # Agents!NoRuntime
             /\ s1' = "sessions" /\ Agents!Exists(c[1])' /\ s2'[c[1]].preset = "codex-local" => c[3] = ConfiguredOwner
  <2>1. CASE c \in s8
    BY <1>5, <2>1 DEF Agents!OnlyTestedIsCalled, Agents!PersonalStaysPersonal, Agents!CalledIsKnown, Agents!Exists
  <2>2. CASE c \notin s8
    <3>1. PICK p \in Profiles, who \in People :
              /\ c = <<p, s2[p].connection, who>> /\ Agents!Exists(p) /\ s2[p].status = "healthy"
              /\ s1 = "sessions" /\ s2[p].preset = "codex-local" => who = ConfiguredOwner
      BY <2>2
    <3>2. c[1] = p /\ c[2] = s2[p].connection /\ c[3] = who
      BY <3>1
    <3>3. <<p, s2[p].connection>> \in s7 /\ s2[p] # Agents!NoRuntime
      BY <1>5, <3>1, RuntimeParts, NotRuntimes DEF Agents!HealthyWasTested
    <3> QED BY <3>1, <3>2, <3>3
  <2> QED BY <2>1, <2>2
<1>8. Agents!OnlyTestedIsCalled' /\ Agents!PersonalStaysPersonal' /\ Agents!CalledIsKnown'
  BY <1>7 DEF Agents!OnlyTestedIsCalled, Agents!PersonalStaysPersonal, Agents!CalledIsKnown, Agents!Exists
<1> QED BY <1>2, <1>4, <1>6, <1>8 DEF Agents!RuntimeInv

\* A step that writes a profile keeps it: a healthy one was tested with the connection it has.
LEMMA ProfileGoesOn ==
  ASSUME Agents!RuntimeInv, NEW o \in RuntimeOperations, s5' = [s5 EXCEPT ![o] = Agents!IdleOp] \/ s5' = s5,
         UNCHANGED <<s1, s4, s6, s8>>, s3' \in Profiles \cup {NoProfile},
         s7 \subseteq s7' /\ s7' \subseteq Profiles \X (1..MaxRuntimeVersion),
         NEW p \in Profiles, NEW q, s2' = [s2 EXCEPT ![p] = q],
         \/ s2[p] = Agents!NoRuntime /\ q \in Agents!AgentRuntimeProfile
         \/ Agents!Exists(p) /\ q = Agents!RemovedRuntime
         \/ Agents!Exists(p) /\ q \in Agents!AgentRuntimeProfile /\ q.version = s2[p].version + 1 /\ q.preset = s2[p].preset,
         q \in Agents!AgentRuntimeProfile /\ q.status = "healthy" => <<p, q.connection>> \in s7'
  PROVE  Agents!RuntimeInv'
<1>0. /\ s2' \in [Profiles -> Agents!AgentRuntimeProfile \cup {Agents!NoRuntime, Agents!RemovedRuntime}] /\ s2'[p] = q
      /\ \A x \in Profiles \ {p} : s2'[x] = s2[x]
      /\ q # Agents!NoRuntime
  BY RuntimeParts, NotRuntimes
<1>1. ASSUME NEW r \in Agents!Operation, Agents!OpFits(r) PROVE Agents!OpFits(r)'
  <2>1. CASE r.id # p \/ r.pc = "idle"
    <3>1. r.pc # "idle" => r.id \in Profiles /\ s2'[r.id] = s2[r.id]
      BY <1>0, <1>1, <2>1 DEF Agents!OpFits, Agents!Seen
    <3> QED BY <1>1, <3>1 DEF Agents!OpFits, Agents!Seen, Agents!RevisionFits, Agents!TestFits, Agents!CallFits,
       Agents!Exists, Agents!atVersion
  <2>2. CASE r.id = p /\ r.pc # "idle"
    <3>1. Agents!Exists(p) /\ r.at <= s2[p].version /\ s2[p].version \in Nat /\ r.at \in Nat
      BY <1>1, <2>2, RuntimeParts, NotRuntimes, RuntimeAssumption DEF Agents!OpFits, Agents!Seen, Agents!Operation
    <3>2. Agents!Exists(p)' => q \in Agents!AgentRuntimeProfile /\ q.version = s2[p].version + 1 /\ q.preset = s2[p].preset
      BY <1>0, <3>1, NotRuntimes, RuntimeParts DEF Agents!Exists
    <3>3. ~ Agents!atVersion(r.id, r.at)'
      BY <1>0, <2>2, <3>1, <3>2 DEF Agents!atVersion, Agents!Exists
    <3>4. Agents!Seen(r)'
      BY <1>0, <2>2, <3>1, <3>2 DEF Agents!Seen, Agents!Exists
    <3>5. Agents!RevisionFits(r)' /\ Agents!TestFits(r)'
      BY <1>1, <3>3 DEF Agents!OpFits, Agents!RevisionFits, Agents!TestFits
    <3>6. Agents!CallFits(r)'
      BY <1>0, <1>1, <2>2, <3>1, <3>2, <3>3 DEF Agents!OpFits, Agents!CallFits, Agents!Exists
    <3> QED BY <3>4, <3>5, <3>6 DEF Agents!OpFits
  <2> QED BY <2>1, <2>2
<1>2. s5' \in [RuntimeOperations -> Agents!Operation] /\ \A y \in RuntimeOperations : Agents!OpFits(s5[y])'
  BY <1>1, IdleOpFits, OperationsFit
<1>3. Agents!RuntimeTypeOK'
  BY <1>0, <1>2, RuntimeParts DEF Agents!RuntimeInv, Agents!RuntimeTypeOK
<1>4. /\ Agents!HealthyWasTested /\ Agents!OnlyTestedIsCalled /\ Agents!PersonalStaysPersonal /\ Agents!CalledIsKnown
  BY DEF Agents!RuntimeInv
<1>5. Agents!HealthyWasTested'
  <2>1. Agents!Exists(p)' => q \in Agents!AgentRuntimeProfile
    BY <1>0, RuntimeParts, NotRuntimes DEF Agents!Exists
  <2>2. ASSUME NEW x \in Profiles, Agents!Exists(x)', s2'[x].status = "healthy" PROVE <<x, s2'[x].connection>> \in s7'
    <3>1. CASE x = p
      BY <1>0, <2>1, <2>2, <3>1
    <3>2. CASE x # p
      BY <1>0, <1>4, <2>2, <3>2 DEF Agents!HealthyWasTested, Agents!Exists
    <3> QED BY <3>1, <3>2
  <2> QED BY <2>2 DEF Agents!HealthyWasTested, Agents!Exists
<1>6. ASSUME NEW c \in s8
      PROVE  /\ <<c[1], c[2]>> \in s7' /\ s2'[c[1]] # Agents!NoRuntime
             /\ s1' = "sessions" /\ Agents!Exists(c[1])' /\ s2'[c[1]].preset = "codex-local" => c[3] = ConfiguredOwner
  <2>1. c[1] \in Profiles /\ <<c[1], c[2]>> \in s7 /\ s2[c[1]] # Agents!NoRuntime
    BY <1>4, RuntimeParts DEF Agents!OnlyTestedIsCalled, Agents!CalledIsKnown
  <2>2. CASE c[1] # p
    BY <1>0, <1>4, <2>1, <2>2 DEF Agents!PersonalStaysPersonal, Agents!Exists
  <2>3. CASE c[1] = p
    <3>1. Agents!Exists(p)' => s2'[p].preset = s2[p].preset /\ Agents!Exists(p)
      BY <1>0, <2>1, <2>3, RuntimeParts, NotRuntimes DEF Agents!Exists
    <3> QED BY <1>0, <1>4, <2>1, <2>3, <3>1 DEF Agents!PersonalStaysPersonal
  <2> QED BY <2>2, <2>3
<1>7. Agents!OnlyTestedIsCalled' /\ Agents!PersonalStaysPersonal' /\ Agents!CalledIsKnown'
  BY <1>6 DEF Agents!OnlyTestedIsCalled, Agents!PersonalStaysPersonal, Agents!CalledIsKnown, Agents!Exists
<1> QED BY <1>2, <1>3, <1>5, <1>7 DEF Agents!RuntimeInv

\* Creating a profile keeps the invariant.
LEMMA ProfileCreated ==
  ASSUME Agents!RuntimeInv, NEW o \in RuntimeOperations, NEW actor \in People, Agents!create(o, actor)
  PROVE  Agents!RuntimeInv'
<1>1. PICK p \in Profiles, preset \in Agents!AgentRuntimePreset, vision \in BOOLEAN :
        /\ s2[p] = Agents!NoRuntime /\ s2' = [s2 EXCEPT ![p] = Agents!createAgentRuntimeProfile(preset, actor, vision)]
  BY DEF Agents!create
<1>2. PICK q : q = Agents!createAgentRuntimeProfile(preset, actor, vision)
  OBVIOUS
<1>3. q \in Agents!AgentRuntimeProfile /\ q.status # "healthy"
  BY <1>2, RuntimeAssumption DEF Agents!createAgentRuntimeProfile, Agents!AgentRuntimeProfile, Agents!AgentRuntimeStatus
<1>4. s2' = [s2 EXCEPT ![p] = q] /\ UNCHANGED <<s1, s3, s4, s5, s6, s7, s8>>
  BY <1>1, <1>2 DEF Agents!create, Agents!hist
<1> QED BY <1>1, <1>3, <1>4, RuntimeParts, ProfileGoesOn

\* A revised profile has the next version, and stays healthy only with its connection.
LEMMA Revised ==
  ASSUME NEW q \in Agents!AgentRuntimeProfile, q.version < MaxRuntimeVersion,
         NEW change \in {"name", "connection", "disable", "enable"}, NEW r, r = Agents!reviseAgentRuntimeProfile(q, change)
  PROVE  /\ r \in Agents!AgentRuntimeProfile /\ r.version = q.version + 1 /\ r.preset = q.preset
         /\ r.status = "healthy" => q.status = "healthy" /\ r.connection = q.connection
<1>1. q.version + 1 \in 1..MaxRuntimeVersion /\ q.version \in 1..MaxRuntimeVersion
  BY RuntimeAssumption DEF Agents!AgentRuntimeProfile
<1>2. PICK status, connection :
        /\ r = [q EXCEPT !.version = q.version + 1, !.connection = connection, !.status = status]
        /\ connection = IF change = "connection" THEN q.version + 1 ELSE q.connection
        /\ status = CASE change = "disable" -> "disabled"
                      [] change = "enable" -> "unverified"
                      [] q.status # "disabled" /\ change = "connection" -> "unverified"
                      [] OTHER -> q.status
  BY DEF Agents!reviseAgentRuntimeProfile
<1>3. /\ connection \in 1..MaxRuntimeVersion /\ status \in Agents!AgentRuntimeStatus
      /\ status = "healthy" => q.status = "healthy" /\ connection = q.connection
  BY <1>1, <1>2 DEF Agents!AgentRuntimeProfile, Agents!AgentRuntimeStatus
<1> QED BY <1>1, <1>2, <1>3 DEF Agents!AgentRuntimeProfile

\* The beginning of an update keeps the invariant.
LEMMA UpdateStarts ==
  ASSUME Agents!RuntimeInv, NEW o \in RuntimeOperations, NEW actor \in People, Agents!StartUpdate(o, actor)
  PROVE  Agents!RuntimeInv'
<1>1. PICK p \in Profiles, change \in {"name", "connection", "disable", "enable"} :
        /\ Agents!Exists(p) /\ Agents!room(p)
        /\ s5' = [s5 EXCEPT ![o] = [Agents!IdleOp EXCEPT !.pc = "update", !.id = p,
                                   !.read = Agents!reviseAgentRuntimeProfile(s2[p], change), !.at = s2[p].version]]
  BY DEF Agents!StartUpdate, Agents!go
<1>2. PICK q : q = Agents!reviseAgentRuntimeProfile(s2[p], change)
  OBVIOUS
<1>3. PICK r : r = [Agents!IdleOp EXCEPT !.pc = "update", !.id = p, !.read = q, !.at = s2[p].version]
  OBVIOUS
<1>4. s2[p] \in Agents!AgentRuntimeProfile /\ s2[p].version \in 1..MaxRuntimeVersion /\ s2[p].version < MaxRuntimeVersion
  BY <1>1, RuntimeParts DEF Agents!room
<1>5. /\ q \in Agents!AgentRuntimeProfile /\ q.version = s2[p].version + 1 /\ q.preset = s2[p].preset
      /\ q.status = "healthy" => s2[p].status = "healthy" /\ q.connection = s2[p].connection
  BY <1>2, <1>4, Revised
<1>6. r \in Agents!Operation /\ r.pc = "update" /\ r.id = p /\ r.read = q /\ r.at = s2[p].version
  <2>1. Agents!IdleOp \in Agents!Operation /\ s2[p].version \in 0..MaxRuntimeVersion
    BY <1>4, IdleOpFits, RuntimeAssumption
  <2> QED BY <1>3, <1>5, <2>1 DEF Agents!Operation
<1>7. Agents!OpFits(r)
  BY <1>1, <1>4, <1>5, <1>6, NotRuntimes, RuntimeAssumption DEF Agents!OpFits, Agents!Seen, Agents!RevisionFits,
     Agents!TestFits, Agents!CallFits
<1>8. s5' = [s5 EXCEPT ![o] = r] /\ UNCHANGED <<s1, s2, s3, s4, s6, s7, s8>>
  BY <1>1, <1>2, <1>3 DEF Agents!StartUpdate, Agents!hist
<1> QED BY <1>6, <1>7, <1>8, RuntimeParts, RequestGoesOn DEF Agents!RuntimeInv, Agents!RuntimeTypeOK

\* So does its write.
LEMMA ProfileUpdated ==
  ASSUME Agents!RuntimeInv, NEW o \in RuntimeOperations, Agents!update(o)
  PROVE  Agents!RuntimeInv'
<1>1. PICK p, q : p = s5[o].id /\ q = s5[o].read
  OBVIOUS
<1>2. /\ p \in Profiles /\ q \in Agents!AgentRuntimeProfile /\ q.version = s5[o].at + 1
      /\ Agents!atVersion(p, s5[o].at) => /\ q.preset = s2[p].preset
                                          /\ q.status = "healthy" => s2[p].status = "healthy" /\ q.connection = s2[p].connection
  BY <1>1, RuntimeParts DEF Agents!update, Agents!OpFits, Agents!Seen, Agents!RevisionFits
<1>3. s5' = [s5 EXCEPT ![o] = Agents!IdleOp] /\ UNCHANGED <<s1, s3, s4, s6, s7, s8>>
  BY DEF Agents!update, Agents!end, Agents!go, Agents!hist
<1>4. CASE Agents!atVersion(p, s5[o].at)
  <2>1. s2' = [s2 EXCEPT ![p] = q] /\ Agents!Exists(p) /\ q.version = s2[p].version + 1
    BY <1>1, <1>2, <1>4 DEF Agents!update, Agents!updateProfile, Agents!atVersion
  <2>2. q.status = "healthy" => <<p, q.connection>> \in s7
    BY <1>2, <1>4, <2>1 DEF Agents!RuntimeInv, Agents!HealthyWasTested
  <2> QED BY <1>2, <1>3, <1>4, <2>1, <2>2, RuntimeParts, ProfileGoesOn
<1>5. CASE ~ Agents!atVersion(p, s5[o].at)
  <2>1. UNCHANGED s2
    BY <1>1, <1>5 DEF Agents!update, Agents!updateProfile
  <2> QED BY <1>3, <2>1, IdleOpFits, RuntimeParts, RequestGoesOn DEF Agents!RuntimeInv, Agents!RuntimeTypeOK
<1> QED BY <1>4, <1>5

\* So does the beginning of a test.
LEMMA TestStarts ==
  ASSUME Agents!RuntimeInv, NEW o \in RuntimeOperations, NEW actor \in People, Agents!StartTest(o, actor)
  PROVE  Agents!RuntimeInv'
<1>1. PICK p \in Profiles :
        /\ Agents!Exists(p) /\ Agents!room(p)
        /\ s5' = [s5 EXCEPT ![o] = [pc |-> "inspect", actor |-> actor, id |-> p, read |-> s2[p], at |-> s2[p].version]]
  BY DEF Agents!StartTest, Agents!go, Agents!provider
<1>2. PICK r : r = [pc |-> "inspect", actor |-> actor, id |-> p, read |-> s2[p], at |-> s2[p].version]
  OBVIOUS
<1>3. s2[p] \in Agents!AgentRuntimeProfile /\ s2[p].version \in 1..MaxRuntimeVersion /\ s2[p].version < MaxRuntimeVersion
  BY <1>1, RuntimeParts DEF Agents!room
<1>4. r \in Agents!Operation /\ r.pc = "inspect" /\ r.id = p /\ r.read = s2[p] /\ r.at = s2[p].version
  BY <1>2, <1>3, RuntimeAssumption DEF Agents!Operation
<1>5. Agents!OpFits(r)
  BY <1>1, <1>3, <1>4, NotRuntimes, RuntimeAssumption DEF Agents!OpFits, Agents!Seen, Agents!RevisionFits,
     Agents!TestFits, Agents!CallFits
<1>6. s5' = [s5 EXCEPT ![o] = r] /\ UNCHANGED <<s1, s2, s3, s4, s6, s7, s8>>
  BY <1>1, <1>2 DEF Agents!StartTest, Agents!hist
<1> QED BY <1>4, <1>5, <1>6, RuntimeParts, RequestGoesOn DEF Agents!RuntimeInv, Agents!RuntimeTypeOK

\* So do the calls of a test.
LEMMA TestGoesOn ==
  ASSUME Agents!RuntimeInv, NEW o \in RuntimeOperations, Agents!inspect(o) \/ Agents!probeImageInput(o)
  PROVE  Agents!RuntimeInv'
<1>1. /\ s5[o].pc \in {"inspect", "vision"} /\ UNCHANGED <<s1, s2, s3, s4, s6, s7, s8>>
      /\ \/ s5' = [s5 EXCEPT ![o] = Agents!IdleOp]
         \/ \E pc \in {"vision", "passed", "failed"} : s5' = [s5 EXCEPT ![o] = [s5[o] EXCEPT !.pc = pc]]
  BY DEF Agents!inspect, Agents!probeImageInput, Agents!hist, Agents!go, Agents!end
<1>2. PICK r : /\ s5' = [s5 EXCEPT ![o] = r]
               /\ r = Agents!IdleOp \/ \E pc \in {"vision", "passed", "failed"} : r = [s5[o] EXCEPT !.pc = pc]
  BY <1>1
<1>3. CASE r = Agents!IdleOp
  BY <1>1, <1>2, <1>3, IdleOpFits, RuntimeParts, RequestGoesOn DEF Agents!RuntimeInv, Agents!RuntimeTypeOK
<1>4. CASE \E pc \in {"vision", "passed", "failed"} : r = [s5[o] EXCEPT !.pc = pc]
  <2>1. s5[o] \in Agents!Operation /\ Agents!OpFits(s5[o])
    BY RuntimeParts
  <2>2. /\ r \in Agents!Operation /\ r.pc \in {"vision", "passed", "failed"} /\ r.id = s5[o].id /\ r.read = s5[o].read /\ r.at = s5[o].at
    BY <1>4, <2>1 DEF Agents!Operation
  <2>3. Agents!OpFits(r)
    BY <1>1, <2>1, <2>2 DEF Agents!OpFits, Agents!Seen, Agents!RevisionFits, Agents!TestFits, Agents!CallFits
  <2> QED BY <1>1, <1>2, <2>2, <2>3, RuntimeParts, RequestGoesOn DEF Agents!RuntimeInv, Agents!RuntimeTypeOK
<1> QED BY <1>2, <1>3, <1>4

\* So does the result of a test.
LEMMA TestEnds ==
  ASSUME Agents!RuntimeInv, NEW o \in RuntimeOperations, Agents!test(o)
  PROVE  Agents!RuntimeInv'
<1>1. PICK p, s : p = s5[o].id /\ s = IF s5[o].pc = "passed" THEN "healthy" ELSE "error"
  OBVIOUS
<1>2. /\ p \in Profiles /\ s5[o].read \in Agents!AgentRuntimeProfile /\ s5[o].at + 1 \in 1..MaxRuntimeVersion
      /\ Agents!atVersion(p, s5[o].at) => s2[p] = s5[o].read
  BY <1>1, RuntimeParts DEF Agents!test, Agents!OpFits, Agents!Seen, Agents!TestFits
<1>3. /\ s5' = [s5 EXCEPT ![o] = Agents!IdleOp] /\ UNCHANGED <<s1, s3, s4, s6, s8>>
      /\ s7' = IF s5[o].pc = "passed" THEN s7 \cup {<<p, s5[o].read.connection>>} ELSE s7
  BY <1>1 DEF Agents!test, Agents!end, Agents!go
<1>4. s7 \subseteq s7' /\ s7' \subseteq Profiles \X (1..MaxRuntimeVersion)
  BY <1>2, <1>3, RuntimeParts, NotRuntimes
<1>5. CASE Agents!atVersion(p, s5[o].at)
  <2>1. PICK q : q = [s2[p] EXCEPT !.version = s2[p].version + 1, !.status = s]
    OBVIOUS
  <2>2. s2[p] \in Agents!AgentRuntimeProfile /\ s2[p].version = s5[o].at /\ Agents!Exists(p)
    BY <1>2, <1>5 DEF Agents!atVersion
  <2>3. /\ q \in Agents!AgentRuntimeProfile /\ q.version = s2[p].version + 1 /\ q.preset = s2[p].preset
        /\ q.connection = s2[p].connection /\ q.status = s
    BY <1>1, <1>2, <2>1, <2>2 DEF Agents!AgentRuntimeProfile, Agents!AgentRuntimeStatus
  <2>4. s2' = [s2 EXCEPT ![p] = q]
    BY <1>1, <1>2, <1>5, <2>1, <2>2, RuntimeParts DEF Agents!test, Agents!updateHealth, Agents!healthFence
  <2>5. q.status = "healthy" => <<p, q.connection>> \in s7'
    BY <1>1, <1>2, <1>3, <1>5, <2>3
  <2> QED BY <1>2, <1>3, <1>4, <2>2, <2>3, <2>4, <2>5, RuntimeParts, ProfileGoesOn
<1>6. CASE ~ Agents!atVersion(p, s5[o].at)
  <2>1. UNCHANGED s2
    BY <1>1, <1>6 DEF Agents!test, Agents!updateHealth, Agents!healthFence
  <2>2. \A x \in Agents!Operation : Agents!OpFits(x) => Agents!OpFits(x)'
    BY <1>3, <2>1, SameProfile
  <2>3. s5' \in [RuntimeOperations -> Agents!Operation] /\ \A y \in RuntimeOperations : Agents!OpFits(s5[y])'
    BY <1>3, <2>2, IdleOpFits, OperationsFit
  <2>4. Agents!RuntimeTypeOK'
    BY <1>3, <1>4, <2>1, <2>3, RuntimeParts DEF Agents!RuntimeInv, Agents!RuntimeTypeOK
  <2>5. Agents!HealthyWasTested' /\ Agents!OnlyTestedIsCalled' /\ Agents!PersonalStaysPersonal' /\ Agents!CalledIsKnown'
    BY <1>3, <1>4, <2>1 DEF Agents!RuntimeInv, Agents!HealthyWasTested, Agents!OnlyTestedIsCalled,
       Agents!PersonalStaysPersonal, Agents!CalledIsKnown, Agents!Exists
  <2> QED BY <2>3, <2>4, <2>5 DEF Agents!RuntimeInv
<1> QED BY <1>5, <1>6

\* So does assigning a profile, or none.
LEMMA Assigned ==
  ASSUME Agents!RuntimeInv, NEW o \in RuntimeOperations,
         Agents!assign(o) \/ \E actor \in People : Agents!StartAssign(o, actor) \/ Agents!unassign(o, actor)
  PROVE  Agents!RuntimeInv'
<1>1. UNCHANGED <<s1, s2, s4, s6, s7, s8>>
  BY DEF Agents!assign, Agents!StartAssign, Agents!unassign, Agents!hist
<1>2. CASE Agents!assign(o)
  <2>1. s5[o].id \in Profiles
    BY <1>2, RuntimeParts DEF Agents!assign, Agents!OpFits, Agents!Seen
  <2>2. s5' = [s5 EXCEPT ![o] = Agents!IdleOp] /\ s3' \in Profiles \cup {NoProfile}
    BY <1>2, <2>1, RuntimeParts DEF Agents!assign, Agents!end, Agents!go
  <2> QED BY <1>1, <2>2, IdleOpFits, RuntimeParts, RequestGoesOn DEF Agents!RuntimeInv, Agents!RuntimeTypeOK
<1>3. CASE \E actor \in People : Agents!StartAssign(o, actor)
  <2>1. PICK p \in Profiles : Agents!Exists(p) /\ s5' = [s5 EXCEPT ![o] = [Agents!IdleOp EXCEPT !.pc = "assign", !.id = p]]
    BY <1>3 DEF Agents!StartAssign, Agents!go
  <2>2. PICK r : r = [Agents!IdleOp EXCEPT !.pc = "assign", !.id = p]
    OBVIOUS
  <2>3. r \in Agents!Operation /\ r.pc = "assign" /\ r.id = p /\ r.at = 0
    BY <2>2, IdleOpFits DEF Agents!Operation, Agents!IdleOp
  <2>4. Agents!OpFits(r)
    BY <2>1, <2>3, RuntimeParts, NotRuntimes, RuntimeAssumption DEF Agents!OpFits, Agents!Seen, Agents!RevisionFits,
       Agents!TestFits, Agents!CallFits
  <2>5. s5' = [s5 EXCEPT ![o] = r] /\ s3' = s3
    BY <1>3, <2>1, <2>2 DEF Agents!StartAssign
  <2> QED BY <1>1, <2>3, <2>4, <2>5, RuntimeParts, RequestGoesOn DEF Agents!RuntimeInv, Agents!RuntimeTypeOK
<1>4. CASE \E actor \in People : Agents!unassign(o, actor)
  BY <1>1, <1>4, IdleOpFits, RuntimeParts, RequestGoesOn DEF Agents!unassign, Agents!RuntimeInv, Agents!RuntimeTypeOK
<1> QED BY <1>2, <1>3, <1>4

\* So does removing one.
LEMMA ProfileRemoved ==
  ASSUME Agents!RuntimeInv, NEW o \in RuntimeOperations, NEW actor \in People, Agents!remove(o, actor)
  PROVE  Agents!RuntimeInv'
<1>1. PICK p \in Profiles : Agents!Exists(p) /\ Agents!removeProfile(p, s2[p].version)
  BY DEF Agents!remove
<1>2. UNCHANGED <<s1, s4, s5, s6, s7, s8>>
  BY DEF Agents!remove, Agents!hist
<1>3. CASE s2' = [s2 EXCEPT ![p] = Agents!RemovedRuntime]
  <2>1. Agents!RemovedRuntime \notin Agents!AgentRuntimeProfile
    BY NotRuntimes
  <2>2. s3' \in Profiles \cup {NoProfile}
    BY <1>1, RuntimeParts DEF Agents!removeProfile
  <2> QED BY <1>1, <1>2, <1>3, <2>1, <2>2, RuntimeParts, ProfileGoesOn
<1>4. CASE UNCHANGED <<s2, s3>>
  BY <1>2, <1>4, IdleOpFits, RuntimeParts, RequestGoesOn DEF Agents!RuntimeInv, Agents!RuntimeTypeOK
<1> QED BY <1>1, <1>3, <1>4 DEF Agents!removeProfile

\* The runtime that is called is the assigned one, and is healthy.
LEMMA ContextIs ==
  ASSUME Agents!RuntimeInv, Agents!getExecutionContext # Agents!NoRuntime
  PROVE  /\ s3 \in Profiles /\ Agents!Exists(s3) /\ s2[s3].status = "healthy"
         /\ Agents!getExecutionContext = s2[s3]
  BY RuntimeParts DEF Agents!getExecutionContext

\* A run, from its beginning to its ledger, keeps the invariant.
LEMMA RuntimeRuns ==
  ASSUME Agents!RuntimeInv, NEW o \in RuntimeOperations, Agents!runText(o) \/ Agents!recordRun(o) \/ \E actor \in People : Agents!StartRun(o, actor)
  PROVE  Agents!RuntimeInv'
<1>1. CASE \E actor \in People : Agents!StartRun(o, actor)
  <2>1. PICK actor \in People :
          /\ Agents!getExecutionContext # Agents!NoRuntime
          /\ s5' = [s5 EXCEPT ![o] = [pc |-> "provider", actor |-> actor, id |-> s3, read |-> Agents!NoRuntime,
                                     at |-> Agents!getExecutionContext.version]]
    BY <1>1 DEF Agents!StartRun, Agents!go
  <2>2. PICK r : r = [pc |-> "provider", actor |-> actor, id |-> s3, read |-> Agents!NoRuntime, at |-> Agents!getExecutionContext.version]
    OBVIOUS
  <2>3. /\ s3 \in Profiles /\ Agents!Exists(s3) /\ s2[s3].status = "healthy"
        /\ Agents!getExecutionContext = s2[s3] /\ s2[s3].version \in 1..MaxRuntimeVersion
    BY <2>1, ContextIs, RuntimeParts
  <2>4. r \in Agents!Operation /\ r.pc = "provider" /\ r.id = s3 /\ r.at = s2[s3].version
    BY <2>2, <2>3, RuntimeAssumption DEF Agents!Operation
  <2>5. Agents!OpFits(r)
    BY <2>3, <2>4, RuntimeParts, NotRuntimes, RuntimeAssumption DEF Agents!OpFits, Agents!Seen, Agents!RevisionFits,
       Agents!TestFits, Agents!CallFits
  <2>6. s5' = [s5 EXCEPT ![o] = r] /\ UNCHANGED <<s1, s2, s3, s4, s6, s7, s8>>
    BY <1>1, <2>1, <2>2 DEF Agents!StartRun, Agents!hist
  <2> QED BY <2>4, <2>5, <2>6, RuntimeParts, RequestGoesOn DEF Agents!RuntimeInv, Agents!RuntimeTypeOK
<1>2. CASE Agents!runText(o)
  <2>0. UNCHANGED <<s1, s2, s3, s4, s6, s7>>
    BY <1>2 DEF Agents!runText
  <2>1. CASE Agents!provider(s5[o].id, s5[o].at, s5[o].actor)
    <3>1. PICK p, who, r : p = s5[o].id /\ who = s5[o].actor /\ r = [s5[o] EXCEPT !.pc = "answered"]
      OBVIOUS
    <3>2. s5[o] \in Agents!Operation /\ Agents!OpFits(s5[o]) /\ s5[o].pc = "provider"
      BY <1>2, RuntimeParts DEF Agents!runText
    <3>3. who \in People /\ p \in Profiles /\ Agents!Exists(p) /\ s5[o].at # 0 /\ s2[p].version = s5[o].at
      BY <2>1, <3>1, <3>2 DEF Agents!Operation, Agents!OpFits, Agents!Seen, Agents!CallFits, Agents!provider,
         Agents!providerFence
    <3>4. s2[p].status = "healthy"
      BY <3>1, <3>2, <3>3 DEF Agents!OpFits, Agents!CallFits, Agents!atVersion
    <3>5. s1 = "sessions" /\ s2[p].preset = "codex-local" => who = ConfiguredOwner
      BY <2>1, <3>1 DEF Agents!provider, Agents!assertSafe, Agents!canUseLocalCodex
    <3>6. r \in Agents!Operation /\ r.pc = "answered" /\ r.id = s5[o].id /\ r.at = s5[o].at
      BY <3>1, <3>2 DEF Agents!Operation
    <3>7. Agents!OpFits(r)
      BY <3>2, <3>6 DEF Agents!OpFits, Agents!Seen, Agents!RevisionFits, Agents!TestFits, Agents!CallFits
    <3>8. s5' = [s5 EXCEPT ![o] = r] /\ s8' = s8 \cup {<<p, s2[p].connection, who>>}
      BY <1>2, <2>1, <3>1 DEF Agents!runText, Agents!go
    <3> QED BY <2>0, <3>3, <3>4, <3>5, <3>6, <3>7, <3>8, RuntimeParts, RequestGoesOn DEF Agents!RuntimeInv,
       Agents!RuntimeTypeOK
  <2>2. CASE ~ Agents!provider(s5[o].id, s5[o].at, s5[o].actor)
    <3>1. s5' = [s5 EXCEPT ![o] = Agents!IdleOp] /\ UNCHANGED s8
      BY <1>2, <2>2 DEF Agents!runText, Agents!end, Agents!go
    <3> QED BY <2>0, <3>1, IdleOpFits, RuntimeParts, RequestGoesOn DEF Agents!RuntimeInv, Agents!RuntimeTypeOK
  <2> QED BY <2>1, <2>2
<1>3. CASE Agents!recordRun(o)
  <2>1. s5[o].id \in Profiles
    BY <1>3, RuntimeParts DEF Agents!recordRun, Agents!OpFits, Agents!Seen
  <2>2. /\ s5' = [s5 EXCEPT ![o] = Agents!IdleOp] /\ s6' \subseteq Profiles
        /\ UNCHANGED <<s1, s2, s3, s4, s7, s8>>
    BY <1>3, <2>1, RuntimeParts DEF Agents!recordRun, Agents!end, Agents!go, Agents!hist
  <2> QED BY <2>2, IdleOpFits, RuntimeParts, RequestGoesOn DEF Agents!RuntimeInv, Agents!RuntimeTypeOK
<1> QED BY <1>1, <1>2, <1>3

\* So does a research request.
LEMMA Researches ==
  ASSUME Agents!RuntimeInv, NEW o \in RuntimeOperations, Agents!StartResearch(o) \/ Agents!selectBrandSourcing(o)
  PROVE  Agents!RuntimeInv'
<1>1. CASE Agents!StartResearch(o)
  <2>1. PICK actor \in People :
          /\ s3 # NoProfile /\ Agents!Exists(s3)
          /\ s1 # "single-user" => Agents!canUseLocalCodex(actor)
          /\ s5' = [s5 EXCEPT ![o] = [pc |-> "context", actor |-> actor, id |-> s3, read |-> Agents!NoRuntime, at |-> 0]]
    BY <1>1 DEF Agents!StartResearch, Agents!go, Agents!monitorResearchActor
  <2>2. PICK r : r = [pc |-> "context", actor |-> actor, id |-> s3, read |-> Agents!NoRuntime, at |-> 0]
    OBVIOUS
  <2>3. 0 \in 0..MaxRuntimeVersion
    BY RuntimeAssumption
  <2>4. s3 \in Profiles /\ r \in Agents!Operation /\ r.pc = "context" /\ r.id = s3 /\ r.at = 0 /\ r.actor = actor
    BY <2>1, <2>2, <2>3, RuntimeParts DEF Agents!Operation
  <2>5. s1 = "sessions" => actor = ConfiguredOwner
    BY <2>1 DEF Agents!canUseLocalCodex
  <2>6. Agents!OpFits(r)
    BY <2>1, <2>4, <2>5, RuntimeParts, NotRuntimes, RuntimeAssumption DEF Agents!OpFits, Agents!Seen,
       Agents!RevisionFits, Agents!TestFits, Agents!CallFits
  <2>7. s5' = [s5 EXCEPT ![o] = r] /\ UNCHANGED <<s1, s2, s3, s4, s6, s7, s8>>
    BY <1>1, <2>1, <2>2 DEF Agents!StartResearch, Agents!hist
  <2> QED BY <2>4, <2>6, <2>7, RuntimeParts, RequestGoesOn DEF Agents!RuntimeInv, Agents!RuntimeTypeOK
<1>2. CASE Agents!selectBrandSourcing(o)
  <2>0. s5' = [s5 EXCEPT ![o] = Agents!IdleOp] /\ UNCHANGED <<s1, s2, s3, s4, s6, s7>>
    BY <1>2 DEF Agents!selectBrandSourcing, Agents!end, Agents!go
  <2>1. CASE s3 = s5[o].id /\ Agents!getExecutionContext # Agents!NoRuntime
    <3>1. PICK p, who : p = s5[o].id /\ who = s5[o].actor
      OBVIOUS
    <3>2. s5[o] \in Agents!Operation /\ Agents!OpFits(s5[o]) /\ s5[o].pc = "context"
      BY <1>2, RuntimeParts DEF Agents!selectBrandSourcing
    <3>3. /\ p \in Profiles /\ Agents!Exists(p) /\ s2[p].status = "healthy" /\ who \in People
          /\ s8' = s8 \cup {<<p, s2[p].connection, who>>}
      BY <1>2, <2>1, <3>1, <3>2, ContextIs DEF Agents!selectBrandSourcing, Agents!Operation
    <3>4. s1 = "sessions" /\ s2[p].preset = "codex-local" => who = ConfiguredOwner
      BY <3>1, <3>2, <3>3 DEF Agents!OpFits, Agents!CallFits
    <3> QED BY <2>0, <3>3, <3>4, IdleOpFits, RuntimeParts, RequestGoesOn DEF Agents!RuntimeInv, Agents!RuntimeTypeOK
  <2>2. CASE ~ (s3 = s5[o].id /\ Agents!getExecutionContext # Agents!NoRuntime)
    <3>1. UNCHANGED s8
      BY <1>2, <2>2 DEF Agents!selectBrandSourcing
    <3> QED BY <2>0, <3>1, IdleOpFits, RuntimeParts, RequestGoesOn DEF Agents!RuntimeInv, Agents!RuntimeTypeOK
  <2> QED BY <2>1, <2>2
<1> QED BY <1>1, <1>2

\* So does a change of roles.
LEMMA RoleChanges ==
  ASSUME Agents!RuntimeInv, NEW m \in People, Agents!ChangeRole(m)
  PROVE  Agents!RuntimeInv'
<1>1. /\ s4' \in [People -> {"owner", "editor", "none"}]
      /\ UNCHANGED <<s1, s2, s3, s5, s6, s7, s8>>
  BY DEF Agents!ChangeRole, Agents!RuntimeInv, Agents!RuntimeTypeOK, Agents!hist
<1>2. Agents!RuntimeTypeOK'
  BY <1>1 DEF Agents!RuntimeInv, Agents!RuntimeTypeOK
<1>3. \A o \in RuntimeOperations : Agents!OpFits(s5[o])'
  BY <1>1, RuntimeParts DEF Agents!OpFits, Agents!Seen, Agents!RevisionFits, Agents!TestFits, Agents!CallFits,
     Agents!Exists, Agents!atVersion
<1>4. Agents!HealthyWasTested' /\ Agents!OnlyTestedIsCalled' /\ Agents!PersonalStaysPersonal' /\ Agents!CalledIsKnown'
  BY <1>1 DEF Agents!RuntimeInv, Agents!HealthyWasTested, Agents!OnlyTestedIsCalled, Agents!PersonalStaysPersonal,
     Agents!CalledIsKnown, Agents!Exists
<1> QED BY <1>2, <1>3, <1>4 DEF Agents!RuntimeInv

\* The invariant of the runtimes holds before there is a profile.
LEMMA RuntimeInitially == ASSUME Agents!RuntimeInit PROVE Agents!RuntimeInv
<1>1. Agents!RuntimeTypeOK
  BY IdleOpFits DEF Agents!RuntimeInit, Agents!RuntimeTypeOK
<1>2. \A o \in RuntimeOperations : Agents!OpFits(s5[o])
  BY IdleOpFits DEF Agents!RuntimeInit
<1>3. \A p \in Profiles : ~ Agents!Exists(p)
  BY DEF Agents!RuntimeInit, Agents!Exists, Agents!NoRuntime, Agents!AgentRuntimePreset
<1> QED BY <1>1, <1>2, <1>3 DEF Agents!RuntimeInit, Agents!RuntimeInv, Agents!HealthyWasTested,
   Agents!OnlyTestedIsCalled, Agents!PersonalStaysPersonal, Agents!CalledIsKnown

\* Every step of the runtimes keeps it.
LEMMA RuntimeKeeps == ASSUME Agents!RuntimeInv, Agents!RuntimeNext PROVE Agents!RuntimeInv'
  BY ProfileCreated, UpdateStarts, ProfileUpdated, TestStarts, TestGoesOn, TestEnds, Assigned, ProfileRemoved,
     RuntimeRuns,
     Researches, RoleChanges DEF Agents!RuntimeNext

\* It contains what the runtimes promise.
LEMMA RuntimeHolds ==
  ASSUME Agents!RuntimeInv
  PROVE  Agents!RuntimeTypeOK /\ Agents!HealthyWasTested /\ Agents!OnlyTestedIsCalled /\ Agents!PersonalStaysPersonal
  BY DEF Agents!RuntimeInv

-----------------------------------------------------------------------------
(* Proofs.  Creative Studio.                                               *)

\* What the invariant says of the project, its renders and the renderers.
LEMMA StudioParts ==
  ASSUME Studio!StudioInv
  PROVE  /\ s1 \in Studio!CreativeProject /\ s2 \in [Studio!Revisions -> Studio!CreativeRender]
         /\ s3 \in [Studio!Revisions -> {"none", "pending", "ready", "rejected"}] /\ s4 \subseteq Studio!RenderJob
         /\ s5 \in [Renders -> {NoRequest} \cup [version : Nat, revision : Studio!Revisions]]
         /\ s6 \in [Renderers -> [pc : {"idle", "read", "drawn", "writing", "stored", "failed"}, render : 0..MaxRevision,
                                         lease : 0..MaxAttempts]]
         /\ s7 \in [Studio!Revisions -> SUBSET (1..MaxAttempts)]
         /\ Studio!ProjectFits /\ (\A r \in Studio!Revisions : Studio!RenderFits(r)) /\ \A w \in Renderers : Studio!RendererFits(w)
  BY DEF Studio!StudioInv, Studio!StudioTypeOK

\* An idle renderer is a renderer.
LEMMA RendererStarts == Studio!IdleRenderer \in [pc : {"idle", "read", "drawn", "writing", "stored", "failed"}, render : 0..MaxRevision,
                                          lease : 0..MaxAttempts] /\ Studio!IdleRenderer.pc = "idle"
<1>1. 0 \in 0..MaxRevision /\ 0 \in 0..MaxAttempts
  BY StudioAssumption
<1> QED BY <1>1 DEF Studio!IdleRenderer

\* A renderer that moves keeps the invariant: what it stored is ready.
LEMMA RendererGoesOn ==
  ASSUME Studio!StudioInv, UNCHANGED <<s1, s2, s5, s7>>, s4' \subseteq s4,
         s3' \in [Studio!Revisions -> {"none", "pending", "ready", "rejected"}],
         \A r \in Studio!Revisions : s3[r] = "ready" => s3'[r] = "ready",
         NEW w \in Renderers,
         NEW x \in [pc : {"idle", "read", "drawn", "writing", "stored", "failed"}, render : 0..MaxRevision, lease : 0..MaxAttempts],
         s6' = [s6 EXCEPT ![w] = x] \/ s6' = s6,
         x.pc # "idle" => x.render \in Studio!Revisions /\ (x.pc = "stored" => s3'[x.render] = "ready")
  PROVE  Studio!StudioInv'
<1>1. Studio!StudioTypeOK'
  BY StudioParts DEF Studio!StudioTypeOK
<1>2. Studio!ProjectFits'
  <2>1. s1.output # 0 => s1.output \in Studio!Revisions
    BY StudioParts DEF Studio!CreativeProject, Studio!Revisions
  <2> QED BY <2>1, StudioParts DEF Studio!ProjectFits
<1>3. \A r \in Studio!Revisions : Studio!RenderFits(r)'
  BY StudioParts DEF Studio!RenderFits
<1>4. ASSUME NEW y \in Renderers PROVE Studio!RendererFits(y)'
  <2>1. CASE s6'[y] = s6[y]
    BY <2>1, StudioParts DEF Studio!RendererFits
  <2>2. CASE s6'[y] = x
    BY <2>2 DEF Studio!RendererFits
  <2> QED BY <2>1, <2>2, StudioParts
<1> QED BY <1>1, <1>2, <1>3, <1>4 DEF Studio!StudioInv

\* So does a request that reads the project.
LEMMA RequestsMove ==
  ASSUME Studio!StudioInv, UNCHANGED <<s1, s2, s3, s4, s6, s7>>,
         s5' \in [Renders -> {NoRequest} \cup [version : Nat, revision : Studio!Revisions]]
  PROVE  Studio!StudioInv'
  BY StudioParts DEF Studio!StudioInv, Studio!StudioTypeOK, Studio!ProjectFits, Studio!RenderFits, Studio!RendererFits

\* A new revision, an expired lease and a queued render keep it.
LEMMA ProjectChanges ==
  ASSUME Studio!StudioInv,
         \/ Studio!addRevision
         \/ \E r \in Studio!Revisions : Studio!leaseExpires(r)
         \/ \E q \in Renders : Studio!render(q) \/ Studio!recoverExpired(q)
  PROVE  Studio!StudioInv'
<1>1. CASE Studio!addRevision
  <2>1. s1' = [revision |-> s1.revision + 1, status |-> "draft", version |-> s1.version + 1, render |-> 0, output |-> 0]
    BY <1>1 DEF Studio!addRevision, Studio!createCreativeRevision
  <2>2. s1.revision + 1 \in Studio!Revisions /\ 0 \in 0..MaxRevision /\ s1.version + 1 \in Nat
    BY <1>1, StudioParts, StudioAssumption DEF Studio!addRevision, Studio!CreativeProject, Studio!Revisions
  <2>3. s1' \in Studio!CreativeProject /\ Studio!ProjectFits'
    BY <2>1, <2>2 DEF Studio!CreativeProject, Studio!ProjectFits
  <2> QED BY <1>1, <2>3, StudioParts DEF Studio!addRevision, Studio!StudioInv, Studio!StudioTypeOK, Studio!RenderFits,
     Studio!RendererFits
<1>2. ASSUME NEW r \in Studio!Revisions, Studio!leaseExpires(r) PROVE Studio!StudioInv'
  <2>1. s2' = [s2 EXCEPT ![r].live = FALSE] /\ UNCHANGED <<s1, s3, s4, s5, s6, s7>>
    BY <1>2 DEF Studio!leaseExpires
  <2>2. /\ s2' \in [Studio!Revisions -> Studio!CreativeRender]
        /\ \A y \in Studio!Revisions : /\ s2'[y].status = s2[y].status /\ s2'[y].lease = s2[y].lease
                                       /\ s2'[y].attempts = s2[y].attempts
    <3>1. PICK x : x = [s2[r] EXCEPT !.live = FALSE]
      OBVIOUS
    <3>2. /\ x \in Studio!CreativeRender /\ x.status = s2[r].status /\ x.lease = s2[r].lease
          /\ x.attempts = s2[r].attempts
      BY <3>1, StudioParts DEF Studio!CreativeRender
    <3>3. s2' = [s2 EXCEPT ![r] = x]
      BY <2>1, <3>1, StudioParts
    <3> QED BY <3>2, <3>3, StudioParts
  <2>3. \A y \in Studio!Revisions : Studio!RenderFits(y)'
    BY <2>1, <2>2, StudioParts DEF Studio!RenderFits
  <2> QED BY <2>1, <2>2, <2>3, StudioParts DEF Studio!StudioInv, Studio!StudioTypeOK, Studio!ProjectFits,
     Studio!RendererFits
<1>3. ASSUME NEW q \in Renders, Studio!render(q) \/ Studio!recoverExpired(q) PROVE Studio!StudioInv'
  <2>1. /\ s5' = [s5 EXCEPT ![q] = [version |-> s1.version, revision |-> s1.revision]]
        /\ UNCHANGED <<s1, s2, s3, s4, s6, s7>>
    BY <1>3 DEF Studio!render, Studio!recoverExpired
  <2>2. s5' \in [Renders -> {NoRequest} \cup [version : Nat, revision : Studio!Revisions]]
    BY <2>1, StudioParts DEF Studio!CreativeProject
  <2> QED BY <2>1, <2>2, RequestsMove
<1> QED BY <1>1, <1>2, <1>3

\* So does the start of a render.
LEMMA RenderStarts ==
  ASSUME Studio!StudioInv, NEW q \in Renders, Studio!startRender(q)
  PROVE  Studio!StudioInv'
<1>1. PICK seen, r : seen = s5[q] /\ r = seen.revision
  OBVIOUS
<1>2. /\ seen # NoRequest /\ s5' = [s5 EXCEPT ![q] = NoRequest] /\ UNCHANGED <<s3, s6, s7>>
  BY <1>1 DEF Studio!startRender
<1>3. r \in Studio!Revisions /\ s5' \in [Renders -> {NoRequest} \cup [version : Nat, revision : Studio!Revisions]]
  BY <1>1, <1>2, StudioParts
<1>4. CASE UNCHANGED <<s1, s2, s4>>
  BY <1>2, <1>3, <1>4, RequestsMove
<1>5. CASE /\ s1.revision = r /\ ~ Studio!Reusable(r) /\ s2[r].attempts < MaxAttempts
           /\ s2' = [s2 EXCEPT ![r] = Studio!reclaim(r)]
           /\ s1' = [s1 EXCEPT !.version = @ + 1, !.status = "rendering", !.render = r, !.output = 0]
           /\ Studio!enqueue([render |-> r, lease |-> Studio!reclaim(r).lease])
  <2>1. PICK x, n : x = Studio!reclaim(r) /\ n = s2[r].attempts + 1
    OBVIOUS
  <2>2. n \in 1..MaxAttempts /\ n \in 0..MaxAttempts /\ n # 0 /\ r \in 0..MaxRevision /\ 0 \in 0..MaxRevision
    BY <1>3, <1>5, <2>1, StudioParts, StudioAssumption DEF Studio!CreativeRender, Studio!Revisions
  <2>3. x \in Studio!CreativeRender /\ x.status = "rendering" /\ x.lease = n /\ x.attempts = n
    BY <2>1, <2>2 DEF Studio!reclaim, Studio!CreativeRender
  <2>4. s2' \in [Studio!Revisions -> Studio!CreativeRender] /\ s2'[r] = x /\ \A y \in Studio!Revisions \ {r} : s2'[y] = s2[y]
    BY <1>3, <1>5, <2>1, <2>3, StudioParts
  <2>5. /\ s1' \in Studio!CreativeProject /\ s1'.revision = r /\ s1'.render = r /\ s1'.output = 0
        /\ s1'.status = "rendering"
    <3>1. s1 \in Studio!CreativeProject /\ s1.version + 1 \in Nat
      BY StudioParts DEF Studio!CreativeProject
    <3>2. s1' = [s1 EXCEPT !.version = s1.version + 1, !.status = "rendering", !.render = r, !.output = 0]
      BY <1>5
    <3> QED BY <1>5, <2>2, <3>1, <3>2 DEF Studio!CreativeProject
  <2>6. s4' \subseteq Studio!RenderJob
    <3>1. [render |-> r, lease |-> n] \in Studio!RenderJob
      BY <1>3, <2>2 DEF Studio!RenderJob
    <3> QED BY <1>5, <2>1, <2>3, <3>1, StudioParts DEF Studio!enqueue
  <2>7. Studio!StudioTypeOK'
    BY <1>2, <1>3, <2>4, <2>5, <2>6, StudioParts DEF Studio!StudioTypeOK
  <2>8. Studio!ProjectFits' /\ \A w \in Renderers : Studio!RendererFits(w)'
    BY <1>2, <2>5, StudioParts DEF Studio!ProjectFits, Studio!RendererFits
  <2>9. ASSUME NEW y \in Studio!Revisions PROVE Studio!RenderFits(y)'
    <3>1. CASE y = r
      BY <1>2, <1>5, <2>2, <2>3, <2>4, <3>1, StudioParts DEF Studio!RenderFits, Studio!Reusable
    <3>2. CASE y # r
      BY <1>2, <2>4, <3>2, StudioParts DEF Studio!RenderFits
    <3> QED BY <3>1, <3>2
  <2> QED BY <2>7, <2>8, <2>9 DEF Studio!StudioInv
<1> QED BY <1>1, <1>4, <1>5 DEF Studio!startRender

\* So does the work of a renderer.
LEMMA RendererWorks ==
  ASSUME Studio!StudioInv, NEW w \in Renderers,
         \/ Studio!createGeneratedImage(w) \/ Studio!crash(w)
         \/ \E j \in s4 : Studio!process(w, j)
         \/ \E ok \in BOOLEAN : Studio!renderCreativeImage(w, ok) \/ Studio!finishImage(w, ok)
  PROVE  Studio!StudioInv'
<1>0. /\ s6[w] \in [pc : {"idle", "read", "drawn", "writing", "stored", "failed"}, render : 0..MaxRevision, lease : 0..MaxAttempts]
      /\ s6[w].pc # "idle" => s6[w].render \in Studio!Revisions
  BY StudioParts DEF Studio!RendererFits
<1>1. ASSUME NEW pc \in {"idle", "read", "drawn", "writing", "stored", "failed"}
      PROVE  /\ [s6[w] EXCEPT !.pc = pc] \in
                  [pc : {"idle", "read", "drawn", "writing", "stored", "failed"}, render : 0..MaxRevision, lease : 0..MaxAttempts]
             /\ [s6[w] EXCEPT !.pc = pc].pc = pc /\ [s6[w] EXCEPT !.pc = pc].render = s6[w].render
  BY <1>0
<1>2. ASSUME NEW pc, Studio!Renderer(w, pc) PROVE s6' = [s6 EXCEPT ![w] = [s6[w] EXCEPT !.pc = pc]]
  BY <1>2, StudioParts DEF Studio!Renderer
<1>3. ASSUME NEW pc \in {"idle", "read", "drawn", "writing", "stored", "failed"}, Studio!Renderer(w, pc), s6[w].pc # "idle",
             UNCHANGED <<s1, s2, s5, s7>>, s4' \subseteq s4,
             s3' \in [Studio!Revisions -> {"none", "pending", "ready", "rejected"}],
             \A r \in Studio!Revisions : s3[r] = "ready" => s3'[r] = "ready",
             pc = "stored" => s3'[s6[w].render] = "ready"
      PROVE  Studio!StudioInv'
  <2>1. PICK x : x = [s6[w] EXCEPT !.pc = pc]
    OBVIOUS
  <2>2. /\ x \in [pc : {"idle", "read", "drawn", "writing", "stored", "failed"}, render : 0..MaxRevision, lease : 0..MaxAttempts]
        /\ x.pc = pc /\ x.render = s6[w].render
    BY <1>1, <2>1
  <2>3. s6' = [s6 EXCEPT ![w] = x]
    BY <1>2, <1>3, <2>1
  <2>4. x.pc # "idle" => x.render \in Studio!Revisions /\ (x.pc = "stored" => s3'[x.render] = "ready")
    BY <1>0, <1>3, <2>2
  <2> QED BY <1>3, <2>2, <2>3, <2>4, RendererGoesOn
<1>4. CASE Studio!createGeneratedImage(w)
  <2>1. PICK r : r = s6[w].render
    OBVIOUS
  <2>2. r \in Studio!Revisions /\ s6[w].pc = "drawn" /\ UNCHANGED <<s1, s2, s4, s5, s7>>
    BY <1>0, <1>4, <2>1 DEF Studio!createGeneratedImage
  <2>3. CASE s3[r] = "ready"
    <3>1. Studio!Renderer(w, "stored") /\ UNCHANGED s3
      BY <1>4, <2>1, <2>3 DEF Studio!createGeneratedImage
    <3> QED BY <1>3, <2>1, <2>2, <2>3, <3>1, StudioParts
  <2>4. CASE s3[r] \in {"none", "pending"}
    <3>1. Studio!Renderer(w, "writing") /\ s3' = [s3 EXCEPT ![r] = "pending"]
      BY <1>4, <2>1, <2>4 DEF Studio!createGeneratedImage
    <3>2. s3' \in [Studio!Revisions -> {"none", "pending", "ready", "rejected"}] /\ \A y \in Studio!Revisions : s3[y] = "ready" => s3'[y] = "ready"
      BY <2>2, <2>4, <3>1, StudioParts
    <3> QED BY <1>3, <2>2, <3>1, <3>2
  <2>5. CASE s3[r] = "rejected"
    <3>1. Studio!Renderer(w, "failed") /\ UNCHANGED s3
      BY <1>4, <2>1, <2>5 DEF Studio!createGeneratedImage
    <3> QED BY <1>3, <2>2, <3>1, StudioParts
  <2> QED BY <2>2, <2>3, <2>4, <2>5, StudioParts
<1>5. CASE Studio!crash(w)
  BY <1>5, RendererStarts, StudioParts, RendererGoesOn DEF Studio!crash, Studio!Ends
<1>6. ASSUME NEW j \in s4, Studio!process(w, j) PROVE Studio!StudioInv'
  <2>1. PICK x : x = [pc |-> "read", render |-> j.render, lease |-> j.lease]
    OBVIOUS
  <2>2. j.render \in Studio!Revisions /\ j.render \in 0..MaxRevision /\ j.lease \in 0..MaxAttempts
    BY StudioParts, StudioAssumption DEF Studio!RenderJob, Studio!Revisions
  <2>3. /\ x \in [pc : {"idle", "read", "drawn", "writing", "stored", "failed"}, render : 0..MaxRevision, lease : 0..MaxAttempts]
        /\ x.pc = "read" /\ x.render \in Studio!Revisions
    BY <2>1, <2>2
  <2>4. /\ s4' \subseteq s4 /\ UNCHANGED <<s1, s2, s3, s5, s7>>
        /\ s6' = [s6 EXCEPT ![w] = x] \/ s6' = s6
    BY <1>6, <2>1 DEF Studio!process
  <2> QED BY <2>3, <2>4, StudioParts, RendererGoesOn
<1>7. ASSUME NEW ok \in BOOLEAN, Studio!renderCreativeImage(w, ok) PROVE Studio!StudioInv'
  <2>1. PICK pc \in {"drawn", "failed"} : Studio!Renderer(w, pc)
    BY <1>7 DEF Studio!renderCreativeImage
  <2>2. s6[w].pc = "read" /\ UNCHANGED <<s1, s2, s3, s4, s5, s7>>
    BY <1>7 DEF Studio!renderCreativeImage
  <2> QED BY <1>3, <2>1, <2>2, StudioParts
<1>8. ASSUME NEW ok \in BOOLEAN, Studio!finishImage(w, ok) PROVE Studio!StudioInv'
  <2>1. PICK r, pc : r = s6[w].render /\ pc = IF s3[r] = "pending" /\ ok THEN "stored" ELSE "failed"
    OBVIOUS
  <2>2. r \in Studio!Revisions /\ s6[w].pc = "writing" /\ UNCHANGED <<s1, s2, s4, s5, s7>>
    BY <1>0, <1>8, <2>1 DEF Studio!finishImage
  <2>3. /\ Studio!Renderer(w, pc)
        /\ s3' = IF s3[r] = "pending" THEN [s3 EXCEPT ![r] = IF ok THEN "ready" ELSE "rejected"] ELSE s3
    BY <1>8, <2>1 DEF Studio!finishImage
  <2>4. /\ s3' \in [Studio!Revisions -> {"none", "pending", "ready", "rejected"}] /\ \A y \in Studio!Revisions : s3[y] = "ready" => s3'[y] = "ready"
        /\ pc = "stored" => s3'[r] = "ready"
    BY <2>1, <2>2, <2>3, StudioParts
  <2> QED BY <1>3, <2>1, <2>2, <2>3, <2>4
<1> QED BY <1>4, <1>5, <1>6, <1>7, <1>8

\* So does the end of a render: by the lease that holds it.
LEMMA RenderEnds ==
  ASSUME Studio!StudioInv, NEW w \in Renderers, Studio!completeRender(w) \/ Studio!failRender(w)
  PROVE  Studio!StudioInv'
<1>1. PICK r, a, status : /\ r = s6[w].render /\ a = s6[w].lease
                          /\ status = IF s6[w].pc = "stored" THEN "ready" ELSE "failed"
  OBVIOUS
<1>2. /\ s6[w].pc \in {"stored", "failed"} /\ Studio!finishRender(w, status)
      /\ s6' = [s6 EXCEPT ![w] = Studio!IdleRenderer] /\ UNCHANGED <<s3, s4, s5>>
  BY <1>1 DEF Studio!completeRender, Studio!failRender, Studio!Ends
<1>3. r \in Studio!Revisions /\ (status = "ready" => s3[r] = "ready") /\ status \in {"ready", "failed"}
  BY <1>1, <1>2, StudioParts DEF Studio!RendererFits
<1>4. CASE UNCHANGED <<s2, s1, s7>>
  BY <1>2, <1>4, RendererStarts, StudioParts, RendererGoesOn
<1>5. CASE /\ s2[r].status = "rendering" /\ s2[r].lease = a /\ s1.render = r /\ s1.status = "rendering"
           /\ s2' = [s2 EXCEPT ![r].status = status, ![r].lease = 0, ![r].live = FALSE]
           /\ s1' = [s1 EXCEPT !.status = status, !.version = @ + 1, !.output = IF status = "ready" THEN r ELSE 0]
           /\ s7' = IF status = "ready" THEN [s7 EXCEPT ![r] = @ \cup {a}] ELSE s7
  <2>1. s2[r].attempts = a /\ a # 0 /\ s7[r] = {} /\ s2[r] \in Studio!CreativeRender /\ a \in 1..MaxAttempts
    BY <1>3, <1>5, StudioParts, StudioAssumption DEF Studio!RenderFits, Studio!CreativeRender
  <2>2. 0 \in 0..MaxAttempts /\ 0 \in 0..MaxRevision /\ r \in 0..MaxRevision
    BY <1>3, StudioAssumption DEF Studio!Revisions
  <2>3. /\ s2' \in [Studio!Revisions -> Studio!CreativeRender] /\ s2'[r].status = status /\ s2'[r].attempts = a
        /\ \A y \in Studio!Revisions \ {r} : s2'[y] = s2[y]
    BY <1>3, <1>5, <2>1, <2>2, StudioParts DEF Studio!CreativeRender
  <2>4. /\ s1' \in Studio!CreativeProject /\ s1'.revision = s1.revision /\ s1'.render = s1.render
        /\ s1'.status = status /\ s1'.output = IF status = "ready" THEN r ELSE 0
    <3>1. s1 \in Studio!CreativeProject /\ s1.version + 1 \in Nat
      BY StudioParts DEF Studio!CreativeProject
    <3>2. PICK output \in 0..MaxRevision : output = IF status = "ready" THEN r ELSE 0
      BY <2>2
    <3>3. s1' = [s1 EXCEPT !.status = status, !.version = s1.version + 1, !.output = output]
      BY <1>5, <3>2
    <3> QED BY <1>3, <3>1, <3>2, <3>3 DEF Studio!CreativeProject
  <2>5. /\ s7' \in [Studio!Revisions -> SUBSET (1..MaxAttempts)] /\ s7'[r] = (IF status = "ready" THEN {a} ELSE {})
        /\ \A y \in Studio!Revisions \ {r} : s7'[y] = s7[y]
    BY <1>3, <1>5, <2>1, StudioParts
  <2>6. s6' \in [Renderers -> [pc : {"idle", "read", "drawn", "writing", "stored", "failed"}, render : 0..MaxRevision,
                                         lease : 0..MaxAttempts]]
    BY <1>2, RendererStarts, StudioParts
  <2>7. Studio!StudioTypeOK'
    BY <1>2, <2>3, <2>4, <2>5, <2>6, StudioParts DEF Studio!StudioTypeOK
  <2>8. Studio!ProjectFits'
    <3>1. r # 0 /\ s1.render = s1.revision
      BY <1>3, <1>5, StudioParts, StudioAssumption DEF Studio!Revisions, Studio!ProjectFits
    <3> QED BY <1>2, <1>3, <1>5, <2>4, <3>1 DEF Studio!ProjectFits
  <2>9. ASSUME NEW y \in Studio!Revisions PROVE Studio!RenderFits(y)'
    <3>1. CASE y = r
      BY <1>3, <2>3, <2>5, <3>1 DEF Studio!RenderFits
    <3>2. CASE y # r
      BY <2>3, <2>5, <3>2, StudioParts DEF Studio!RenderFits
    <3> QED BY <3>1, <3>2
  <2>10. \A y \in Renderers : Studio!RendererFits(y)'
    BY <1>2, RendererStarts, StudioParts DEF Studio!RendererFits
  <2> QED BY <2>7, <2>8, <2>9, <2>10 DEF Studio!StudioInv
<1> QED BY <1>1, <1>2, <1>4, <1>5 DEF Studio!finishRender, Studio!leaseHolds

\* The invariant of Creative Studio holds initially.
LEMMA StudioInitially == ASSUME Studio!StudioInit PROVE Studio!StudioInv
<1>1. 1 \in Studio!Revisions /\ 0 \in 0..MaxRevision /\ 0 \in 0..MaxAttempts
  BY StudioAssumption DEF Studio!Revisions
<1>2. Studio!StudioTypeOK
  BY <1>1, RendererStarts DEF Studio!StudioInit, Studio!StudioTypeOK, Studio!createCreativeProject,
     Studio!CreativeProject, Studio!CreativeRender
<1>3. Studio!ProjectFits /\ (\A r \in Studio!Revisions : Studio!RenderFits(r)) /\ \A w \in Renderers : Studio!RendererFits(w)
  BY RendererStarts DEF Studio!StudioInit, Studio!ProjectFits, Studio!RenderFits, Studio!RendererFits,
     Studio!createCreativeProject
<1> QED BY <1>2, <1>3 DEF Studio!StudioInv

\* Every step of Creative Studio keeps it.
LEMMA StudioKeeps == ASSUME Studio!StudioInv, Studio!StudioNext PROVE Studio!StudioInv'
<1>1. CASE Studio!addRevision \/ (\E r \in Studio!Revisions : Studio!leaseExpires(r)) \/ \E q \in Renders : Studio!render(q) \/ Studio!recoverExpired(q)
  BY <1>1, ProjectChanges
<1>2. CASE \E q \in Renders : Studio!startRender(q)
  BY <1>2, RenderStarts
<1>3. CASE \E w \in Renderers : \/ Studio!createGeneratedImage(w) \/ Studio!crash(w) \/ \E j \in s4 : Studio!process(w, j)
                                \/ \E ok \in BOOLEAN : Studio!renderCreativeImage(w, ok) \/ Studio!finishImage(w, ok)
  BY <1>3, RendererWorks
<1>4. CASE \E w \in Renderers : Studio!completeRender(w) \/ Studio!failRender(w)
  BY <1>4, RenderEnds
<1> QED BY <1>1, <1>2, <1>3, <1>4 DEF Studio!StudioNext

\* It contains what Creative Studio promises.
LEMMA StudioHolds ==
  ASSUME Studio!StudioInv
  PROVE  Studio!StudioTypeOK /\ Studio!OutputIsOfTheRevision /\ Studio!FinishedByItsLease
<1>1. s1.output # 0 => s1.output = s1.revision
  BY StudioParts DEF Studio!ProjectFits
<1> QED BY <1>1, StudioParts DEF Studio!StudioInv, Studio!ProjectFits, Studio!RenderFits, Studio!OutputIsOfTheRevision,
   Studio!FinishedByItsLease

-----------------------------------------------------------------------------
(* Proofs.  Captures.                                                      *)

\* What the invariant says of the receipt and the requests.
LEMMA ShareParts ==
  ASSUME Share!ShareInv
  PROVE  /\ s1 \in Share!ShareCaptureReceipt /\ s2 \in BOOLEAN /\ s3 \in BOOLEAN
         /\ s4 \in Share!ShareCaptureMode \cup {"none"} /\ s5 \subseteq Texts
         /\ s6 \in [Shares -> Share!Request] /\ s7 \in BOOLEAN
         /\ s1.version \in Nat /\ s1.version \in 0..MaxReceiptVersion
         /\ \A w \in Shares : s6[w] \in Share!Request /\ s6[w].version \in Nat /\ Share!RequestFits(s6[w])
<1>1. Share!ShareTypeOK /\ \A w \in Shares : Share!RequestFits(s6[w])
  BY DEF Share!ShareInv
<1>2. s1 \in Share!ShareCaptureReceipt /\ s6 \in [Shares -> Share!Request]
  BY <1>1 DEF Share!ShareTypeOK
<1>3. s1.version \in 0..MaxReceiptVersion /\ s1.version \in Nat
  BY <1>2, ShareAssumption DEF Share!ShareCaptureReceipt
<1>4. \A w \in Shares : s6[w].version \in Nat
  BY <1>2, ShareAssumption DEF Share!Request
<1> QED BY <1>1, <1>2, <1>3, <1>4 DEF Share!ShareTypeOK

\* An idle request fits.
LEMMA IdleRequestFits ==
  ASSUME Share!ShareInv, s1' \in Share!ShareCaptureReceipt
  PROVE  Share!IdleRequest \in Share!Request /\ Share!IdleRequest.pc = "idle" /\ Share!IdleRequest.op = "none" /\ Share!IdleRequest.version = 0 /\ Share!RequestFits(Share!IdleRequest)'
<1>1. (CHOOSE t \in Texts : TRUE) \in Texts /\ 0 \in 0..MaxReceiptVersion
  BY ShareAssumption
<1>2. s1'.version \in 0..MaxReceiptVersion
  BY DEF Share!ShareCaptureReceipt
<1>3. Share!IdleRequest \in Share!Request /\ Share!IdleRequest.pc = "idle" /\ Share!IdleRequest.op = "none" /\ Share!IdleRequest.version = 0
  BY <1>1 DEF Share!IdleRequest, Share!Request
<1> QED BY <1>2, <1>3, ShareAssumption DEF Share!RequestFits, Share!Staging

\* A request that does not move fits a receipt that goes on.
LEMMA RequestStands ==
  ASSUME Share!ShareInv, s1' \in Share!ShareCaptureReceipt, Share!Onward, NEW x \in Share!Request, Share!RequestFits(x)
  PROVE  Share!RequestFits(x)'
<1>1. s1.version \in Nat /\ s1'.version \in Nat /\ x.version \in Nat
  BY ShareParts, ShareAssumption DEF Share!ShareCaptureReceipt, Share!Request
<1>2. x.version <= s1'.version /\ (x.version = s1'.version => x.version = s1.version /\ s1'.text = s1.text)
  BY <1>1 DEF Share!RequestFits, Share!Onward
<1>3. x.op = "materialize" /\ x.pc \in {"claimed", "stored", "saved"} => x.intent # "none" /\ x.intent = s1.intent /\ s1'.intent = s1.intent
  BY DEF Share!RequestFits, Share!Onward
<1>4. x.op = "materialize" /\ x.pc \in {"stored", "saved"} => s4' = s4
  BY <1>3 DEF Share!RequestFits, Share!Onward
<1> QED BY <1>2, <1>3, <1>4 DEF Share!RequestFits, Share!Onward

\* One request moves with the receipt and the object: an object without a key has a request that will remove it.
LEMMA ShareGoesOn ==
  ASSUME Share!ShareInv, Share!Onward,
         s1' \in Share!ShareCaptureReceipt, s2' \in BOOLEAN, s3' \in BOOLEAN, s7' \in BOOLEAN,
         s4' \in Share!ShareCaptureMode \cup {"none"}, s5' \subseteq Texts, s1'.status # "none",
         Share!ConvertedIsSaved', Share!OneSetOfChoices',
         NEW q \in Shares, NEW r \in Share!Request, s6' = [s6 EXCEPT ![q] = r] \/ (s6' = s6 /\ r = s6[q]),
         Share!RequestFits(r)',
         s3' => s3 \/ (r.op = "intake" /\ r.pc = "written"),
         s7 => s7',
         r.op = "intake" => s6[q].op = "intake" \/ (\A w \in Shares : s6[w].op # "intake"),
         r.pc \in {"refused", "removed"} => s6[q].pc = r.pc \/ ~ s3',
         s3' /\ ~ s7' /\ s6[q].op = "intake" /\ s6[q].pc \in Share!Staging =>
           (r.op = "intake" /\ r.pc \in Share!Staging) \/ (s1'.key /\ s1'.status \notin Share!Terminal),
         s3' /\ ~ s1'.key => ~ s1.key \/ s6[q].pc = "removed"
  PROVE  Share!ShareInv'
<1>1. s6' \in [Shares -> Share!Request] /\ s6'[q] = r /\ \A w \in Shares \ {q} : s6'[w] = s6[w]
  BY ShareParts
<1>2. ASSUME NEW w \in Shares PROVE Share!RequestFits(s6[w])'
  <2>1. CASE w = q
    BY <1>1, <2>1 DEF Share!RequestFits, Share!Staging
  <2>2. CASE w # q
    <3>1. PICK x \in Share!Request : x = s6[w]
      BY ShareParts
    <3>2. Share!RequestFits(x)
      BY <3>1, ShareParts DEF Share!RequestFits, Share!Staging
    <3>3. Share!RequestFits(x)' /\ x = s6'[w]
      BY <1>1, <2>2, <3>1, <3>2, RequestStands
    <3> QED BY <3>3 DEF Share!RequestFits, Share!Staging
  <2> QED BY <2>1, <2>2
<1>3. Share!ShareTypeOK' /\ Share!NothingBefore'
  BY <1>1 DEF Share!ShareTypeOK, Share!NothingBefore
<1>4. Share!ObjectFits /\ Share!NoLostObject
  BY DEF Share!ShareInv
<1>5. \A x \in Shares, w \in Shares : s6'[x].op = "intake" /\ s6'[w].op = "intake" => x = w
  BY <1>1, <1>4 DEF Share!ObjectFits
<1>6. \A w \in Shares : s6'[w].pc = "refused" => ~ s3'
  <2>1. ASSUME NEW w \in Shares, s6'[w].pc = "refused", s3' PROVE FALSE
    <3>1. CASE w = q
      BY <1>1, <1>4, <2>1, <3>1 DEF Share!ObjectFits
    <3>2. CASE w # q
      <4>1. s6[w].pc = "refused" /\ s6'[w].op = "intake"
        BY <1>1, <1>2, <2>1, <3>2 DEF Share!RequestFits
      <4>2. ~ s3
        BY <1>4, <4>1 DEF Share!ObjectFits
      <4>3. s6'[q].op = "intake"
        BY <1>1, <2>1, <4>2
      <4> QED BY <1>5, <3>2, <4>1, <4>3
    <3> QED BY <3>1, <3>2
  <2> QED BY <2>1
<1>7. ASSUME Share!Intaking, s3', ~ s7' PROVE Share!Intaking' \/ (s1'.key /\ s1'.status \notin Share!Terminal)
  <2>1. PICK w \in Shares : s6[w].op = "intake" /\ s6[w].pc \in Share!Staging
    BY <1>7 DEF Share!Intaking
  <2>2. CASE w = q
    <3>1. (r.op = "intake" /\ r.pc \in Share!Staging) \/ (s1'.key /\ s1'.status \notin Share!Terminal)
      BY <1>7, <2>1, <2>2
    <3>2. r.op = "intake" /\ r.pc \in Share!Staging => Share!Intaking'
      BY <1>1 DEF Share!Intaking, Share!Staging
    <3> QED BY <3>1, <3>2
  <2>3. CASE w # q
    BY <1>1, <2>1, <2>3 DEF Share!Intaking
  <2> QED BY <2>2, <2>3
<1>8. ASSUME s3', ~ s3 PROVE Share!Intaking'
  BY <1>1, <1>8 DEF Share!Intaking, Share!Staging
<1>9. ASSUME NEW w \in Shares, s6'[w].pc = "removed", s3', ~ s7' PROVE Share!Intaking'
  <2>1. s1'.status \in Share!Terminal
    BY <1>2, <1>9 DEF Share!RequestFits
  <2>2. CASE s3
    <3>1. s6[w].pc = "removed"
      BY <1>1, <1>9
    <3>2. Share!Intaking
      BY <1>4, <1>9, <2>2, <3>1 DEF Share!ObjectFits
    <3> QED BY <1>7, <1>9, <2>1, <3>2
  <2> QED BY <1>8, <1>9, <2>2
<1>10. ASSUME s3', ~ s1'.key, ~ s7' PROVE Share!Intaking'
  <2>1. CASE s3
    <3>1. Share!Intaking
      BY <1>4, <1>10, <2>1 DEF Share!ObjectFits, Share!NoLostObject, Share!Intaking, Share!Staging
    <3> QED BY <1>7, <1>10, <3>1
  <2> QED BY <1>8, <1>10, <2>1
<1>11. Share!ObjectFits'
  BY <1>5, <1>6, <1>9 DEF Share!ObjectFits
<1>12. Share!NoLostObject'
  BY <1>10 DEF Share!NoLostObject, Share!Intaking, Share!Staging
<1> QED BY <1>2, <1>3, <1>11, <1>12 DEF Share!ShareInv

\* A receipt that nobody writes keeps what was saved.
LEMMA ReceiptStands ==
  ASSUME Share!ShareInv, UNCHANGED <<s1, s4, s5>>
  PROVE  s1' \in Share!ShareCaptureReceipt /\ Share!Onward /\ Share!ConvertedIsSaved' /\ Share!OneSetOfChoices'
  BY ShareParts DEF Share!ShareInv, Share!Onward, Share!ConvertedIsSaved, Share!OneSetOfChoices

\* The next version of a receipt, field by field.
LEMMA Bumped ==
  ASSUME Share!ShareInv, s1.version < MaxReceiptVersion, NEW status \in Share!ShareCaptureStatus
  PROVE  /\ Share!Bump(s1, status) \in Share!ShareCaptureReceipt /\ Share!Bump(s1, status).status = status
         /\ Share!Bump(s1, status).version = s1.version + 1 /\ s1.version + 1 \in 0..MaxReceiptVersion
         /\ Share!Bump(s1, status).text = s1.text /\ Share!Bump(s1, status).intent = s1.intent
         /\ Share!Bump(s1, status).key = s1.key /\ Share!Bump(s1, status).media = s1.media
         /\ Share!Bump(s1, status).savedAsset = s1.savedAsset /\ Share!Bump(s1, status).savedItem = s1.savedItem
<1>1. s1.version + 1 \in 0..MaxReceiptVersion /\ s1 \in Share!ShareCaptureReceipt
  BY ShareParts, ShareAssumption
<1>2. Share!Bump(s1, status) = [s1 EXCEPT !.version = s1.version + 1, !.status = status]
  BY DEF Share!Bump
<1> QED BY <1>1, <1>2 DEF Share!ShareCaptureReceipt

\* The passing of time and expiry keep the invariant.
LEMMA TimeGoesOn ==
  ASSUME Share!ShareInv, Share!timePasses \/ Share!leaseExpires \/ Share!expireDue
  PROVE  Share!ShareInv'
<1>1. /\ UNCHANGED <<s3, s4, s5, s6, s7>> /\ s2' \in BOOLEAN
      /\ s1' \in Share!ShareCaptureReceipt /\ s1'.key = s1.key /\ s1'.text = s1.text /\ s1'.intent = s1.intent
      /\ s1'.savedAsset = s1.savedAsset /\ s1'.savedItem = s1.savedItem
      /\ s1'.version \in {s1.version, s1.version + 1}
      /\ s1.status = "none" => s1'.version = s1.version
      /\ s1'.status = s1.status \/ (s1.status \notin {"none", "converted"} /\ s1'.status = "expired")
  <2>1. CASE Share!timePasses
    BY <2>1, ShareParts DEF Share!timePasses
  <2>2. CASE Share!leaseExpires
    BY <2>2, ShareParts DEF Share!leaseExpires, Share!ShareCaptureReceipt
  <2>3. CASE Share!expireDue
    <3>1. PICK b : b = Share!Bump(s1, "expired")
      OBVIOUS
    <3>2. /\ b \in Share!ShareCaptureReceipt /\ b.status = "expired" /\ b.key = s1.key /\ b.text = s1.text
          /\ b.intent = s1.intent /\ b.savedAsset = s1.savedAsset /\ b.savedItem = s1.savedItem
          /\ b.version = s1.version + 1
      BY <2>3, <3>1, Bumped DEF Share!expireDue, Share!ShareCaptureStatus
    <3>3. s1' = [b EXCEPT !.owner = NoRequest, !.live = FALSE]
      BY <2>3, <3>1 DEF Share!expireDue
    <3> QED BY <2>3, <3>2, <3>3, ShareParts DEF Share!expireDue, Share!ShareCaptureReceipt
  <2> QED BY <2>1, <2>2, <2>3
<1>2. Share!Onward
  <2>1. s1.version \in Nat
    BY ShareParts
  <2> QED BY <1>1, <2>1 DEF Share!Onward, Share!Terminal
<1>3. ASSUME NEW w \in Shares PROVE Share!RequestFits(s6[w])'
  <2>1. PICK x \in Share!Request : x = s6[w]
    BY ShareParts
  <2>2. Share!RequestFits(x)
    BY <2>1, ShareParts DEF Share!RequestFits, Share!Staging
  <2>3. Share!RequestFits(x)' /\ x = s6'[w]
    BY <1>1, <1>2, <2>1, <2>2, RequestStands
  <2> QED BY <2>3 DEF Share!RequestFits, Share!Staging
<1>4. Share!ShareTypeOK' /\ Share!NothingBefore'
  BY <1>1, ShareParts DEF Share!ShareInv, Share!ShareTypeOK, Share!NothingBefore
<1>5. Share!ObjectFits' /\ Share!NoLostObject'
  BY <1>1 DEF Share!ShareInv, Share!ObjectFits, Share!NoLostObject, Share!Intaking
<1>6. Share!ConvertedIsSaved' /\ Share!OneSetOfChoices'
  BY <1>1 DEF Share!ShareInv, Share!ConvertedIsSaved, Share!OneSetOfChoices
<1> QED BY <1>3, <1>4, <1>5, <1>6 DEF Share!ShareInv

\* Where there is a request or an object there is a receipt.
LEMMA NotNone ==
  ASSUME Share!ShareInv, NEW q \in Shares, s6[q].pc # "idle" \/ s3
  PROVE  s1.status # "none"
  BY DEF Share!ShareInv, Share!NothingBefore

\* A request that goes on is a request, with the same choices.
LEMMA RequestTo ==
  ASSUME Share!ShareInv, NEW q \in Shares, NEW pc, Share!To(q, pc),
         pc \in {"staging", "written", "inspected", "refused", "broken", "revised", "claimed", "stored", "saved", "converted", "removed"},
         NEW r, r = [s6[q] EXCEPT !.pc = pc]
  PROVE  /\ r \in Share!Request /\ s6' = [s6 EXCEPT ![q] = r] /\ r.pc = pc /\ r.op = s6[q].op
         /\ r.version = s6[q].version /\ r.text = s6[q].text /\ r.intent = s6[q].intent
<1>1. s6[q] \in Share!Request /\ s6 \in [Shares -> Share!Request]
  BY ShareParts
<1>2. r \in Share!Request
  BY <1>1 DEF Share!Request
<1>3. r.pc = pc /\ r.op = s6[q].op /\ r.version = s6[q].version /\ r.text = s6[q].text /\ r.intent = s6[q].intent
  BY <1>1 DEF Share!Request
<1> QED BY <1>1, <1>2, <1>3 DEF Share!To

\* The beginning of an intake keeps the invariant.
LEMMA IntakeStarts ==
  ASSUME Share!ShareInv, NEW q \in Shares, NEW media \in BOOLEAN, NEW text \in Texts, Share!intake(q, media, text)
  PROVE  Share!ShareInv'
<1>1. /\ s1.status = "none" /\ s1.version = 0 /\ ~ s3 /\ UNCHANGED <<s2, s3, s4, s5, s7>>
      /\ \A w \in Shares : s6[w].pc = "idle" /\ s6[w].op = "none"
  BY ShareParts DEF Share!intake, Share!ShareInv, Share!NothingBefore, Share!RequestFits
<1>2. PICK status \in {"receiving", "pending"} :
        s1' = [s1 EXCEPT !.version = 1, !.status = status, !.media = media, !.key = media, !.text = text]
  BY DEF Share!intake
<1>3. 1 \in 0..MaxReceiptVersion /\ s1 \in Share!ShareCaptureReceipt
  BY ShareParts, ShareAssumption
<1>4. /\ s1' \in Share!ShareCaptureReceipt /\ s1'.version = 1 /\ s1'.intent = s1.intent /\ s1'.status = status
      /\ s1'.key = media
  BY <1>2, <1>3 DEF Share!ShareCaptureReceipt, Share!ShareCaptureStatus
<1>5. PICK r : r = [Share!IdleRequest EXCEPT !.pc = "staging", !.op = "intake", !.version = 1]
  OBVIOUS
<1>6. Share!IdleRequest \in Share!Request /\ Share!RequestFits(Share!IdleRequest)' /\ Share!IdleRequest.pc = "idle" /\ Share!IdleRequest.op = "none" /\ Share!IdleRequest.version = 0
  BY <1>4, IdleRequestFits
<1>7. r \in Share!Request /\ r.pc = "staging" /\ r.op = "intake" /\ r.version = 1
  BY <1>3, <1>5, <1>6 DEF Share!Request
<1>8. Share!RequestFits(r)'
  BY <1>4, <1>7 DEF Share!RequestFits, Share!Staging
<1>9. PICK x \in Share!Request : /\ Share!RequestFits(x)' /\ x.pc \notin {"refused", "removed"}
                                 /\ s6' = [s6 EXCEPT ![q] = x] \/ (s6' = s6 /\ x = s6[q])
  <2>1. CASE media
    <3>1. s6' = [s6 EXCEPT ![q] = r]
      BY <1>5, <2>1 DEF Share!intake
    <3> QED BY <1>7, <1>8, <3>1
  <2>2. CASE ~ media
    <3>1. s6' = s6
      BY <2>2 DEF Share!intake
    <3>2. PICK x \in Share!Request : x = s6[q]
      BY ShareParts
    <3>3. Share!RequestFits(x)'
      BY <1>1, <1>4, <3>2, ShareParts, ShareAssumption DEF Share!RequestFits, Share!Staging
    <3> QED BY <1>1, <3>1, <3>2, <3>3
  <2> QED BY <2>1, <2>2
<1>10. Share!Onward /\ Share!ConvertedIsSaved' /\ Share!OneSetOfChoices'
  <2>1. s1.version = 0
    BY <1>1 DEF Share!ShareInv, Share!NothingBefore
  <2> QED BY <1>1, <1>4, <2>1 DEF Share!Onward, Share!ConvertedIsSaved, Share!OneSetOfChoices, Share!ShareInv,
     Share!Terminal
<1> QED BY <1>1, <1>4, <1>9, <1>10, ShareParts, ShareGoesOn
\* So does staging its object.
LEMMA Staged ==
  ASSUME Share!ShareInv, NEW q \in Shares, Share!writeCaptured(q) \/ \E yes \in BOOLEAN : Share!stageShareCapture(q, yes)
  PROVE  Share!ShareInv'
<1>1. PICK pc \in {"written", "inspected", "refused"} :
        /\ Share!To(q, pc) /\ s6[q].pc \in {"staging", "written"} /\ s3' \in BOOLEAN
        /\ pc = "refused" => ~ s3'
        /\ s3' => s3 \/ pc = "written"
        /\ UNCHANGED <<s1, s2, s4, s5, s7>>
  BY ShareParts DEF Share!writeCaptured, Share!stageShareCapture
<1>2. PICK r : r = [s6[q] EXCEPT !.pc = pc]
  OBVIOUS
<1>3. /\ r \in Share!Request /\ s6' = [s6 EXCEPT ![q] = r] /\ r.pc = pc /\ r.op = s6[q].op
      /\ r.version = s6[q].version /\ r.text = s6[q].text /\ r.intent = s6[q].intent
  BY <1>1, <1>2, RequestTo
<1>4. s6[q].op = "intake" /\ Share!RequestFits(r)'
  BY <1>1, <1>3, ShareParts DEF Share!RequestFits, Share!Staging
<1>5. /\ s1' \in Share!ShareCaptureReceipt /\ Share!Onward /\ Share!ConvertedIsSaved' /\ Share!OneSetOfChoices'
      /\ s1'.status # "none" /\ (s3' => s3 \/ (r.op = "intake" /\ r.pc = "written"))
  BY <1>1, <1>3, <1>4, ReceiptStands, NotNone
<1>6. /\ s3' /\ ~ s7' /\ s6[q].op = "intake" /\ s6[q].pc \in Share!Staging =>
           (r.op = "intake" /\ r.pc \in Share!Staging) \/ (s1'.key /\ s1'.status \notin Share!Terminal)
      /\ r.pc \in {"refused", "removed"} => s6[q].pc = r.pc \/ ~ s3'
  BY <1>1, <1>3, <1>4 DEF Share!Staging
<1> QED BY <1>1, <1>3, <1>4, <1>5, <1>6, ShareParts, ShareGoesOn

\* So does the receipt's note of it.
LEMMA MediaUpdated ==
  ASSUME Share!ShareInv, NEW q \in Shares, Share!updateMedia(q)
  PROVE  Share!ShareInv'
<1>0. /\ s6[q].pc \in {"inspected", "refused"} /\ s6[q].op = "intake" /\ Share!RequestFits(s6[q]) /\ s6[q] \in Share!Request
      /\ UNCHANGED <<s2, s3, s4, s5, s7>> /\ s1.status # "none"
      /\ s6[q].pc = "refused" => ~ s3
  BY ShareParts, NotNone DEF Share!updateMedia, Share!RequestFits, Share!Staging, Share!ShareInv, Share!ObjectFits
<1>1. PICK next : next = IF s1.status = "receiving" THEN "inspecting"
                         ELSE IF s6[q].pc = "refused" THEN "rejected" ELSE "pending_review"
  OBVIOUS
<1>2. CASE UNCHANGED s1 /\ Share!To(q, "broken")
  <2>1. PICK r : r = [s6[q] EXCEPT !.pc = "broken"]
    OBVIOUS
  <2>2. /\ r \in Share!Request /\ s6' = [s6 EXCEPT ![q] = r] /\ r.pc = "broken" /\ r.op = "intake"
        /\ r.version = s6[q].version
    BY <1>0, <1>2, <2>1, RequestTo
  <2>3. Share!RequestFits(r)'
    BY <1>0, <1>2, <2>2 DEF Share!RequestFits, Share!Staging
  <2>4. s1' \in Share!ShareCaptureReceipt /\ Share!Onward /\ Share!ConvertedIsSaved' /\ Share!OneSetOfChoices'
    BY <1>0, <1>2, ReceiptStands
  <2>5. r.op = "intake" /\ r.pc \in Share!Staging
    BY <2>2 DEF Share!Staging
  <2> QED BY <1>0, <1>2, <2>2, <2>3, <2>4, <2>5, ShareParts, ShareGoesOn
<1>3. CASE /\ Share!Fenced(q) /\ s1.status \in {"receiving", "inspecting"}
           /\ s1' = [Share!Bump(s1, next) EXCEPT !.key = ~ (s6[q].pc = "refused")]
           /\ IF next = "inspecting" THEN s6' = [s6 EXCEPT ![q].version = @ + 1] ELSE Share!Ends(q)
  <2>1. PICK b : b = Share!Bump(s1, next)
    OBVIOUS
  <2>2. next \in Share!ShareCaptureStatus /\ next \in {"inspecting", "rejected", "pending_review"} /\ s1.version < MaxReceiptVersion
    BY <1>1, <1>3 DEF Share!ShareCaptureStatus, Share!Fenced
  <2>3. /\ b \in Share!ShareCaptureReceipt /\ b.status = next /\ b.version = s1.version + 1 /\ b.text = s1.text
        /\ b.intent = s1.intent /\ s1.version + 1 \in 0..MaxReceiptVersion
    BY <2>1, <2>2, Bumped
  <2>4. PICK key \in BOOLEAN : key = ~ (s6[q].pc = "refused")
    OBVIOUS
  <2>5. s1' = [b EXCEPT !.key = key]
    BY <1>3, <2>1, <2>4
  <2>6. /\ s1' \in Share!ShareCaptureReceipt /\ s1'.status = next /\ s1'.version = s1.version + 1
        /\ s1'.text = s1.text /\ s1'.intent = s1.intent /\ s1'.key = key
    BY <2>3, <2>5 DEF Share!ShareCaptureReceipt
  <2>7. Share!Onward /\ Share!ConvertedIsSaved' /\ Share!OneSetOfChoices'
    BY <1>0, <1>3, <2>2, <2>6, ShareParts DEF Share!Onward, Share!Terminal, Share!ConvertedIsSaved,
       Share!OneSetOfChoices, Share!ShareInv
  <2>8. PICK r \in Share!Request : /\ s6' = [s6 EXCEPT ![q] = r] /\ Share!RequestFits(r)' /\ r.pc \in {"idle", s6[q].pc}
                                   /\ r.pc = "idle" => r.op # "intake" /\ next # "inspecting"
                                   /\ r.pc # "idle" => r.op = "intake"
    <3>1. CASE next = "inspecting"
      <4>1. PICK r : r = [s6[q] EXCEPT !.version = s6[q].version + 1]
        OBVIOUS
      <4>2. s6[q].version + 1 \in 0..MaxReceiptVersion /\ s6[q].version = s1.version
        BY <1>3, <2>3 DEF Share!Fenced
      <4>3. r \in Share!Request /\ r.pc = s6[q].pc /\ r.op = "intake" /\ r.version = s1.version + 1
        BY <1>0, <4>1, <4>2 DEF Share!Request
      <4>4. s6' = [s6 EXCEPT ![q] = r]
        BY <1>3, <3>1, <4>1, ShareParts
      <4>5. Share!RequestFits(r)'
        BY <1>0, <2>6, <4>3, ShareParts DEF Share!RequestFits, Share!Staging
      <4> QED BY <1>0, <4>3, <4>4, <4>5
    <3>2. CASE next # "inspecting"
      BY <1>3, <2>6, <3>2, IdleRequestFits DEF Share!Ends
    <3> QED BY <3>1, <3>2
  <2>9. s3' => key
    BY <1>0, <2>4
  <2>10. s3' /\ ~ s7' /\ s6[q].op = "intake" /\ s6[q].pc \in Share!Staging =>
           (r.op = "intake" /\ r.pc \in Share!Staging) \/ (s1'.key /\ s1'.status \notin Share!Terminal)
    BY <1>0, <1>1, <2>2, <2>4, <2>6, <2>8, <2>9 DEF Share!Staging, Share!Terminal
  <2>11. r.pc \in {"refused", "removed"} => s6[q].pc = r.pc \/ ~ s3'
    BY <1>0, <2>8
  <2>12. s1'.status # "none" /\ (s3' /\ ~ s1'.key => ~ s1.key \/ s6[q].pc = "removed")
    BY <2>2, <2>6, <2>9
  <2> QED BY <1>0, <2>6, <2>7, <2>8, <2>10, <2>11, <2>12, ShareParts, ShareGoesOn
<1> QED BY <1>1, <1>2, <1>3 DEF Share!updateMedia

\* So does the end of an intake that failed.
LEMMA IntakeEnds ==
  ASSUME Share!ShareInv, NEW q \in Shares, Share!intakeFails(q)
  PROVE  Share!ShareInv'
<1>1. /\ s6[q].pc # "idle" /\ s6' = [s6 EXCEPT ![q] = Share!IdleRequest] /\ s3' = FALSE
      /\ UNCHANGED <<s2, s4, s5, s7>> /\ s1.status # "none"
  BY NotNone DEF Share!intakeFails, Share!Ends
<1>2. CASE UNCHANGED s1
  <2>1. s1' \in Share!ShareCaptureReceipt /\ Share!Onward /\ Share!ConvertedIsSaved' /\ Share!OneSetOfChoices'
    BY <1>1, <1>2, ReceiptStands
  <2> QED BY <1>1, <1>2, <2>1, IdleRequestFits, ShareParts, ShareGoesOn
<1>3. CASE Share!Fenced(q) /\ s1.status \notin Share!Terminal /\ s1' = Share!markFailed
  <2>1. PICK status, b : status = (IF s1.media THEN "rejected" ELSE "failed") /\ b = Share!Bump(s1, status)
    OBVIOUS
  <2>2. status \in Share!ShareCaptureStatus /\ status \in {"rejected", "failed"} /\ s1.version < MaxReceiptVersion
    BY <1>3, <2>1 DEF Share!ShareCaptureStatus, Share!Fenced
  <2>3. /\ b \in Share!ShareCaptureReceipt /\ b.status = status /\ b.version = s1.version + 1 /\ b.text = s1.text
        /\ b.intent = s1.intent
    BY <2>1, <2>2, Bumped
  <2>4. s1' = [b EXCEPT !.owner = NoRequest, !.live = FALSE]
    BY <1>3, <2>1 DEF Share!markFailed
  <2>5. /\ s1' \in Share!ShareCaptureReceipt /\ s1'.status = status /\ s1'.version = s1.version + 1
        /\ s1'.intent = s1.intent
    BY <2>3, <2>4 DEF Share!ShareCaptureReceipt
  <2>6. Share!Onward /\ Share!ConvertedIsSaved' /\ Share!OneSetOfChoices'
    BY <1>1, <1>3, <2>2, <2>5, ShareParts DEF Share!Onward, Share!Terminal, Share!ConvertedIsSaved,
       Share!OneSetOfChoices, Share!ShareInv
  <2> QED BY <1>1, <2>2, <2>5, <2>6, IdleRequestFits, ShareParts, ShareGoesOn
<1> QED BY <1>2, <1>3 DEF Share!intakeFails
\* A request that saves a capture moves, with what it saved.
LEMMA SaverGoesOn ==
  ASSUME Share!ShareInv, Share!Onward, UNCHANGED <<s2, s3, s7>>, s1' \in Share!ShareCaptureReceipt,
         s4' \in Share!ShareCaptureMode \cup {"none"}, s5' \subseteq Texts, s1'.status # "none",
         Share!ConvertedIsSaved', Share!OneSetOfChoices',
         NEW q \in Shares, s6[q].op # "intake", NEW r \in Share!Request, r.op # "intake", r.pc \notin {"refused", "removed"},
         s6' = [s6 EXCEPT ![q] = r], Share!RequestFits(r)', s1'.key = s1.key
  PROVE  Share!ShareInv'
  BY ShareParts, ShareGoesOn

\* Reading the receipt keeps the invariant.
LEMMA ReceiptIsRead ==
  ASSUME Share!ShareInv, NEW q \in Shares, NEW op \in {"convert", "materialize"}, NEW text \in Texts,
         NEW intent \in Share!ShareCaptureMode \cup {"none"}, op = "convert" <=> intent = "none", Share!getByTokenHash(q, op, text, intent)
  PROVE  Share!ShareInv'
<1>1. /\ s6[q].pc = "idle" /\ s6[q].op = "none" /\ s1.status \in {"pending", "pending_review", "materializing"}
      /\ UNCHANGED <<s1, s2, s3, s4, s5, s7>>
  BY ShareParts DEF Share!getByTokenHash, Share!RequestFits
<1>2. PICK t \in Texts : t = IF s1.status = "materializing" THEN s1.text ELSE text
  BY ShareParts DEF Share!ShareCaptureReceipt
<1>3. PICK r : r = [pc |-> "read", op |-> op, version |-> s1.version, text |-> t, intent |-> intent]
  OBVIOUS
<1>4. r \in Share!Request /\ r.pc = "read" /\ r.op = op /\ r.version = s1.version /\ r.intent = intent
  BY <1>3, ShareParts DEF Share!Request
<1>5. s6' = [s6 EXCEPT ![q] = r]
  BY <1>2, <1>3 DEF Share!getByTokenHash
<1>6. Share!RequestFits(r)'
  BY <1>1, <1>4, ShareParts DEF Share!RequestFits, Share!Staging
<1>7. s1' \in Share!ShareCaptureReceipt /\ Share!Onward /\ Share!ConvertedIsSaved' /\ Share!OneSetOfChoices'
  BY <1>1, ReceiptStands
<1> QED BY <1>1, <1>4, <1>5, <1>6, <1>7, ShareParts, SaverGoesOn

\* What the invariant says of a request that saves a capture.
LEMMA SaverIs ==
  ASSUME Share!ShareInv, NEW q \in Shares, s6[q].pc \in {"read", "revised", "claimed", "stored", "saved"}
  PROVE  /\ s6[q].op # "intake" /\ s1.status # "none" /\ Share!RequestFits(s6[q]) /\ s6[q] \in Share!Request
         /\ s6[q].text \in Texts /\ s6[q].intent \in Share!ShareCaptureMode \cup {"none"}
         /\ s6[q].op \in {"convert", "materialize"} /\ (s6[q].op = "convert" <=> s6[q].intent = "none")
<1>1. Share!RequestFits(s6[q]) /\ s6[q] \in Share!Request
  BY ShareParts
<1>2. s6[q].op \in {"convert", "materialize"} /\ (s6[q].op = "convert" <=> s6[q].intent = "none")
  BY <1>1 DEF Share!RequestFits
<1> QED BY <1>1, <1>2, NotNone DEF Share!Request

\* Its end keeps the invariant.
LEMMA SaverEnds ==
  ASSUME Share!ShareInv, NEW q \in Shares, s6[q].pc \in {"read", "revised", "claimed", "stored", "saved"}, Share!Ends(q),
         UNCHANGED <<s1, s2, s3, s4, s5, s7>>
  PROVE  Share!ShareInv'
<1>1. s1' \in Share!ShareCaptureReceipt /\ Share!Onward /\ Share!ConvertedIsSaved' /\ Share!OneSetOfChoices'
  BY ReceiptStands
<1> QED BY <1>1, SaverIs, IdleRequestFits, ShareParts, SaverGoesOn DEF Share!Ends

\* So does a revision of the text.
LEMMA TextRevised ==
  ASSUME Share!ShareInv, NEW q \in Shares, Share!revise(q)
  PROVE  Share!ShareInv'
<1>1. s6[q].pc = "read" /\ UNCHANGED <<s2, s3, s4, s5, s7>>
  BY DEF Share!revise
<1>2. CASE s6[q].text = s1.text /\ UNCHANGED s1 /\ Share!To(q, "revised")
  <2>1. PICK r : r = [s6[q] EXCEPT !.pc = "revised"]
    OBVIOUS
  <2>2. /\ r \in Share!Request /\ s6' = [s6 EXCEPT ![q] = r] /\ r.pc = "revised" /\ r.op = s6[q].op
        /\ r.version = s6[q].version /\ r.text = s6[q].text /\ r.intent = s6[q].intent
    BY <1>2, <2>1, RequestTo
  <2>3. Share!RequestFits(r)'
    BY <1>1, <1>2, <2>2, SaverIs DEF Share!RequestFits, Share!Staging
  <2>4. s1' \in Share!ShareCaptureReceipt /\ Share!Onward /\ Share!ConvertedIsSaved' /\ Share!OneSetOfChoices'
    BY <1>1, <1>2, ReceiptStands
  <2> QED BY <1>1, <1>2, <2>2, <2>3, <2>4, SaverIs, ShareParts, SaverGoesOn
<1>3. CASE /\ Share!Fenced(q) /\ s1.status \in {"pending", "pending_review"}
           /\ s1' = [Share!Bump(s1, s1.status) EXCEPT !.text = s6[q].text]
           /\ s6' = [s6 EXCEPT ![q].pc = "revised", ![q].version = @ + 1]
  <2>1. PICK b : b = Share!Bump(s1, s1.status)
    OBVIOUS
  <2>2. s1.status \in Share!ShareCaptureStatus /\ s1.version < MaxReceiptVersion /\ s6[q].version = s1.version
    BY <1>3, ShareParts DEF Share!ShareCaptureReceipt, Share!Fenced
  <2>3. /\ b \in Share!ShareCaptureReceipt /\ b.status = s1.status /\ b.version = s1.version + 1 /\ b.intent = s1.intent
        /\ b.key = s1.key /\ s1.version + 1 \in 0..MaxReceiptVersion
    BY <2>1, <2>2, Bumped
  <2>4. s1' = [b EXCEPT !.text = s6[q].text] /\ s6[q].text \in Texts
    BY <1>1, <1>3, <2>1, SaverIs
  <2>5. /\ s1' \in Share!ShareCaptureReceipt /\ s1'.status = s1.status /\ s1'.version = s1.version + 1
        /\ s1'.intent = s1.intent /\ s1'.key = s1.key /\ s1'.text = s6[q].text
    BY <2>3, <2>4 DEF Share!ShareCaptureReceipt
  <2>6. Share!Onward /\ Share!ConvertedIsSaved' /\ Share!OneSetOfChoices'
    BY <1>1, <1>3, <2>5, ShareParts DEF Share!Onward, Share!Terminal, Share!ConvertedIsSaved, Share!OneSetOfChoices,
       Share!ShareInv
  <2>7. PICK r : r = [s6[q] EXCEPT !.pc = "revised", !.version = s1.version + 1]
    OBVIOUS
  <2>8. /\ r \in Share!Request /\ r.pc = "revised" /\ r.op = s6[q].op /\ r.version = s1.version + 1
        /\ r.text = s6[q].text /\ r.intent = s6[q].intent
    BY <1>1, <2>3, <2>7, SaverIs DEF Share!Request
  <2>9. s6' = [s6 EXCEPT ![q] = r]
    BY <1>3, <2>2, <2>7, ShareParts
  <2>10. Share!RequestFits(r)'
    BY <1>1, <2>5, <2>8, SaverIs, ShareParts DEF Share!RequestFits, Share!Staging
  <2> QED BY <1>1, <1>3, <2>5, <2>6, <2>8, <2>9, <2>10, SaverIs, ShareParts, SaverGoesOn
<1>4. CASE UNCHANGED s1 /\ Share!Ends(q)
  BY <1>1, <1>4, SaverEnds
<1> QED BY <1>2, <1>3, <1>4 DEF Share!revise

\* So does the claim of one set of choices.
LEMMA Claimed ==
  ASSUME Share!ShareInv, NEW q \in Shares, Share!claimMaterialization(q)
  PROVE  Share!ShareInv'
<1>1. s6[q].pc = "revised" /\ s6[q].op = "materialize" /\ UNCHANGED <<s2, s3, s4, s5, s7>>
  BY DEF Share!claimMaterialization
<1>2. CASE UNCHANGED s1 /\ Share!Ends(q)
  BY <1>1, <1>2, SaverEnds
<1>3. CASE /\ Share!Fenced(q) /\ Share!sameIntent(s6[q].intent) /\ s1.status \in {"pending_review", "materializing"}
           /\ s1' = [Share!Bump(s1, "materializing") EXCEPT !.intent = s6[q].intent, !.owner = q, !.live = TRUE]
           /\ s6' = [s6 EXCEPT ![q].pc = "claimed", ![q].version = @ + 1]
  <2>1. PICK b, intent : b = Share!Bump(s1, "materializing") /\ intent = s6[q].intent
    OBVIOUS
  <2>2. /\ s1.version < MaxReceiptVersion /\ s6[q].version = s1.version /\ s1.intent \in {"none", intent}
        /\ intent \in Share!ShareCaptureMode /\ s6[q].text = s1.text /\ s4 \in {"none", s1.intent}
    BY <1>1, <1>3, <2>1, SaverIs DEF Share!Fenced, Share!sameIntent, Share!RequestFits, Share!ShareInv,
       Share!OneSetOfChoices
  <2>3. /\ b \in Share!ShareCaptureReceipt /\ b.status = "materializing" /\ b.version = s1.version + 1 /\ b.text = s1.text
        /\ b.key = s1.key /\ s1.version + 1 \in 0..MaxReceiptVersion
    BY <2>1, <2>2, Bumped DEF Share!ShareCaptureStatus
  <2>4. s1' = [b EXCEPT !.intent = intent, !.owner = q, !.live = TRUE]
    BY <1>3, <2>1
  <2>5. /\ s1' \in Share!ShareCaptureReceipt /\ s1'.status = "materializing" /\ s1'.version = s1.version + 1
        /\ s1'.intent = intent /\ s1'.key = s1.key /\ s1'.text = s1.text
    BY <2>2, <2>3, <2>4 DEF Share!ShareCaptureReceipt
  <2>6. Share!Onward /\ Share!ConvertedIsSaved' /\ Share!OneSetOfChoices'
    BY <1>1, <1>3, <2>2, <2>5, ShareParts DEF Share!Onward, Share!Terminal, Share!ConvertedIsSaved, Share!OneSetOfChoices
  <2>7. PICK r : r = [s6[q] EXCEPT !.pc = "claimed", !.version = s1.version + 1]
    OBVIOUS
  <2>8. /\ r \in Share!Request /\ r.pc = "claimed" /\ r.op = "materialize" /\ r.version = s1.version + 1
        /\ r.text = s6[q].text /\ r.intent = intent
    BY <1>1, <2>1, <2>3, <2>7, SaverIs DEF Share!Request
  <2>9. s6' = [s6 EXCEPT ![q] = r]
    BY <1>3, <2>2, <2>7, ShareParts
  <2>10. Share!RequestFits(r)'
    BY <1>1, <2>2, <2>5, <2>8, ShareParts DEF Share!RequestFits, Share!Staging, Share!ShareCaptureMode
  <2> QED BY <1>1, <1>3, <2>5, <2>6, <2>8, <2>9, <2>10, SaverIs, ShareParts, SaverGoesOn
<1> QED BY <1>2, <1>3 DEF Share!claimMaterialization

\* So does the file it saves.
LEMMA Stored ==
  ASSUME Share!ShareInv, NEW q \in Shares, Share!materializeShareCapture(q)
  PROVE  Share!ShareInv'
<1>1. s6[q].pc = "claimed" /\ UNCHANGED <<s1, s2, s3, s5, s7>>
  BY DEF Share!materializeShareCapture
<1>2. CASE UNCHANGED s4 /\ Share!Ends(q)
  BY <1>1, <1>2, SaverEnds
<1>3. CASE /\ s4 \in {"none", s6[q].intent} /\ s4' = s6[q].intent
           /\ Share!To(q, IF s6[q].intent = "content" THEN "stored" ELSE "saved")
  <2>1. PICK pc \in {"stored", "saved"} : pc = IF s6[q].intent = "content" THEN "stored" ELSE "saved"
    OBVIOUS
  <2>2. PICK r : r = [s6[q] EXCEPT !.pc = pc]
    OBVIOUS
  <2>3. /\ r \in Share!Request /\ s6' = [s6 EXCEPT ![q] = r] /\ r.pc = pc /\ r.op = s6[q].op
        /\ r.version = s6[q].version /\ r.text = s6[q].text /\ r.intent = s6[q].intent
    BY <1>3, <2>1, <2>2, RequestTo
  <2>4. /\ s6[q].op = "materialize" /\ s6[q].intent = s1.intent /\ s6[q].intent \in Share!ShareCaptureMode
        /\ s6[q].intent # "none"
    BY <1>1, SaverIs DEF Share!RequestFits
  <2>5. Share!RequestFits(r)'
    BY <1>1, <1>3, <2>1, <2>3, <2>4, SaverIs DEF Share!RequestFits, Share!Staging, Share!ShareCaptureMode
  <2>6. s1' \in Share!ShareCaptureReceipt /\ Share!Onward /\ Share!ConvertedIsSaved' /\ Share!OneSetOfChoices'
    BY <1>1, <1>3, <2>4, ShareParts DEF Share!ShareInv, Share!Onward, Share!ConvertedIsSaved, Share!OneSetOfChoices
  <2> QED BY <1>1, <1>3, <2>1, <2>3, <2>4, <2>5, <2>6, SaverIs, ShareParts, SaverGoesOn
<1> QED BY <1>2, <1>3 DEF Share!materializeShareCapture

\* So does the item it makes.
LEMMA ContentCreated ==
  ASSUME Share!ShareInv, NEW q \in Shares, Share!createShareCaptureDraftContent(q)
  PROVE  Share!ShareInv'
<1>1. /\ s6[q].pc \in {"revised", "stored"}
      /\ s6[q].pc = "revised" => s6[q].op = "convert"
      /\ s5' = s5 \cup {s6[q].text} /\ Share!To(q, "saved") /\ UNCHANGED <<s1, s2, s3, s4, s7>>
  BY DEF Share!createShareCaptureDraftContent
<1>2. PICK r : r = [s6[q] EXCEPT !.pc = "saved"]
  OBVIOUS
<1>3. /\ r \in Share!Request /\ s6' = [s6 EXCEPT ![q] = r] /\ r.pc = "saved" /\ r.op = s6[q].op
      /\ r.version = s6[q].version /\ r.text = s6[q].text /\ r.intent = s6[q].intent
  BY <1>1, <1>2, RequestTo
<1>4. Share!RequestFits(r)'
  BY <1>1, <1>3, SaverIs DEF Share!RequestFits, Share!Staging
<1>5. s1' \in Share!ShareCaptureReceipt /\ Share!Onward /\ Share!ConvertedIsSaved' /\ Share!OneSetOfChoices' /\ s5' \subseteq Texts
  BY <1>1, ShareParts, SaverIs DEF Share!ShareInv, Share!Onward, Share!ConvertedIsSaved, Share!OneSetOfChoices
<1> QED BY <1>1, <1>3, <1>4, <1>5, SaverIs, ShareParts, SaverGoesOn

\* So does noting that it is converted.
LEMMA Converted ==
  ASSUME Share!ShareInv, NEW q \in Shares, Share!markConverted(q)
  PROVE  Share!ShareInv'
<1>1. s6[q].pc = "saved" /\ UNCHANGED <<s2, s3, s4, s5, s7>>
  BY DEF Share!markConverted
<1>2. CASE UNCHANGED s1 /\ Share!Ends(q)
  BY <1>1, <1>2, SaverEnds
<1>3. CASE /\ Share!convertible(q)
           /\ s1' = [Share!Bump(s1, "converted") EXCEPT !.owner = NoRequest, !.live = FALSE,
                            !.savedAsset = (s6[q].op = "materialize"),
                            !.savedItem = IF s6[q].intent = "library" THEN "none" ELSE s6[q].text]
           /\ IF s6[q].op = "materialize" THEN Share!To(q, "converted") ELSE Share!Ends(q)
  <2>1. PICK b, saved, item : /\ b = Share!Bump(s1, "converted") /\ saved = (s6[q].op = "materialize")
                              /\ item = IF s6[q].intent = "library" THEN "none" ELSE s6[q].text
    OBVIOUS
  <2>2. /\ s1.version < MaxReceiptVersion /\ s6[q].version = s1.version /\ s1.status \in {"pending", "materializing"}
        /\ saved \in BOOLEAN /\ item \in Texts \cup {"none"} /\ s6[q].text = s1.text
        /\ s6[q].intent # "library" => s6[q].text \in s5
        /\ saved => s4 = s1.intent
    BY <1>1, <1>3, <2>1, SaverIs DEF Share!convertible, Share!Fenced, Share!RequestFits
  <2>3. /\ b \in Share!ShareCaptureReceipt /\ b.status = "converted" /\ b.version = s1.version + 1 /\ b.text = s1.text
        /\ b.key = s1.key /\ b.intent = s1.intent
    BY <2>1, <2>2, Bumped DEF Share!ShareCaptureStatus
  <2>4. s1' = [b EXCEPT !.owner = NoRequest, !.live = FALSE, !.savedAsset = saved, !.savedItem = item]
    BY <1>3, <2>1
  <2>5. /\ s1' \in Share!ShareCaptureReceipt /\ s1'.status = "converted" /\ s1'.version = s1.version + 1
        /\ s1'.intent = s1.intent /\ s1'.key = s1.key /\ s1'.text = s1.text
        /\ s1'.savedAsset = saved /\ s1'.savedItem = item
    BY <2>2, <2>3, <2>4 DEF Share!ShareCaptureReceipt
  <2>6. Share!Onward /\ Share!ConvertedIsSaved' /\ Share!OneSetOfChoices'
    BY <1>1, <2>1, <2>2, <2>5, ShareParts DEF Share!ShareInv, Share!Onward, Share!Terminal, Share!ConvertedIsSaved,
       Share!OneSetOfChoices
  <2>7. PICK r \in Share!Request : s6' = [s6 EXCEPT ![q] = r] /\ Share!RequestFits(r)' /\ r.op # "intake" /\ r.pc \in {"idle", "converted"}
    <3>1. CASE s6[q].op = "materialize"
      <4>1. PICK r : r = [s6[q] EXCEPT !.pc = "converted"]
        OBVIOUS
      <4>2. /\ r \in Share!Request /\ s6' = [s6 EXCEPT ![q] = r] /\ r.pc = "converted" /\ r.op = s6[q].op
            /\ r.version = s6[q].version
        BY <1>3, <3>1, <4>1, RequestTo
      <4>3. Share!RequestFits(r)'
        BY <2>2, <2>5, <4>2, ShareParts DEF Share!RequestFits, Share!Staging, Share!Terminal
      <4> QED BY <1>1, <4>2, <4>3, SaverIs
    <3>2. CASE s6[q].op # "materialize"
      BY <1>3, <2>5, <3>2, IdleRequestFits DEF Share!Ends
    <3> QED BY <3>1, <3>2
  <2> QED BY <1>1, <2>5, <2>6, <2>7, SaverIs, ShareParts, SaverGoesOn
<1> QED BY <1>2, <1>3 DEF Share!markConverted

\* So does the beginning of a cleanup.
LEMMA CleanupStarts ==
  ASSUME Share!ShareInv, NEW q \in Shares, Share!cleanupDue(q)
  PROVE  Share!ShareInv'
<1>1. /\ s6[q].pc = "idle" /\ s6[q].op = "none" /\ s1.status \in Share!Terminal /\ s1.status # "none"
      /\ UNCHANGED <<s1, s2, s3, s4, s5, s7>>
  BY ShareParts DEF Share!cleanupDue, Share!listQuarantineCleanup, Share!RequestFits, Share!Terminal
<1>2. PICK r : r = [Share!IdleRequest EXCEPT !.pc = "converted", !.op = "cleanup"]
  OBVIOUS
<1>3. s1' \in Share!ShareCaptureReceipt /\ Share!Onward /\ Share!ConvertedIsSaved' /\ Share!OneSetOfChoices'
  BY <1>1, ReceiptStands
<1>4. r \in Share!Request /\ r.pc = "converted" /\ r.op = "cleanup" /\ r.version = 0
  BY <1>2, <1>3, IdleRequestFits DEF Share!Request
<1>5. s6' = [s6 EXCEPT ![q] = r] /\ Share!RequestFits(r)'
  BY <1>1, <1>2, <1>4, ShareParts DEF Share!cleanupDue, Share!RequestFits, Share!Staging
<1> QED BY <1>1, <1>3, <1>4, <1>5, ShareParts, SaverGoesOn

\* So does the cleanup.
LEMMA Cleaned ==
  ASSUME Share!ShareInv, NEW q \in Shares, Share!deleteCapturedObject(q) \/ Share!clearQuarantine(q) \/ Share!stop(q)
  PROVE  Share!ShareInv'
<1>1. s6[q].pc # "idle" /\ s1.status # "none" /\ UNCHANGED <<s2, s4, s5>>
  BY NotNone DEF Share!deleteCapturedObject, Share!clearQuarantine, Share!stop
<1>2. CASE Share!deleteCapturedObject(q)
  <2>1. s6[q].pc = "converted" /\ s3' = FALSE /\ Share!To(q, "removed") /\ UNCHANGED <<s1, s7>>
    BY <1>2 DEF Share!deleteCapturedObject
  <2>2. PICK r : r = [s6[q] EXCEPT !.pc = "removed"]
    OBVIOUS
  <2>3. /\ r \in Share!Request /\ s6' = [s6 EXCEPT ![q] = r] /\ r.pc = "removed" /\ r.op = s6[q].op
        /\ r.version = s6[q].version
    BY <2>1, <2>2, RequestTo
  <2>4. Share!RequestFits(r)'
    BY <2>1, <2>3, ShareParts DEF Share!RequestFits, Share!Staging
  <2>5. s1' \in Share!ShareCaptureReceipt /\ Share!Onward /\ Share!ConvertedIsSaved' /\ Share!OneSetOfChoices'
    BY <1>1, <2>1, ReceiptStands
  <2> QED BY <1>1, <2>1, <2>3, <2>4, <2>5, ShareParts, ShareGoesOn
<1>3. CASE Share!clearQuarantine(q)
  <2>1. s6[q].pc = "removed" /\ s6' = [s6 EXCEPT ![q] = Share!IdleRequest] /\ UNCHANGED <<s3, s7>>
    BY <1>3 DEF Share!clearQuarantine, Share!Ends
  <2>2. s1' \in Share!ShareCaptureReceipt /\ Share!Onward /\ Share!ConvertedIsSaved' /\ Share!OneSetOfChoices' /\ s1'.status # "none"
    <3>1. CASE UNCHANGED s1
      BY <1>1, <3>1, ReceiptStands
    <3>2. CASE s1.version < MaxReceiptVersion /\ s1' = [s1 EXCEPT !.version = @ + 1, !.key = FALSE]
      <4>1. s1.version + 1 \in 0..MaxReceiptVersion /\ s1 \in Share!ShareCaptureReceipt
        BY <3>2, ShareParts, ShareAssumption
      <4>2. /\ s1' \in Share!ShareCaptureReceipt /\ s1'.version = s1.version + 1 /\ s1'.status = s1.status
            /\ s1'.text = s1.text /\ s1'.intent = s1.intent
            /\ s1'.savedAsset = s1.savedAsset /\ s1'.savedItem = s1.savedItem
        BY <3>2, <4>1 DEF Share!ShareCaptureReceipt
      <4> QED BY <1>1, <4>2, ShareParts DEF Share!ShareInv, Share!Onward, Share!ConvertedIsSaved, Share!OneSetOfChoices
    <3> QED BY <1>3, <3>1, <3>2 DEF Share!clearQuarantine
  <2>3. s6[q].pc \notin Share!Staging
    BY <2>1 DEF Share!Staging
  <2> QED BY <1>1, <2>1, <2>2, <2>3, IdleRequestFits, ShareParts, ShareGoesOn
<1>4. CASE Share!stop(q)
  <2>1. s6' = [s6 EXCEPT ![q] = Share!IdleRequest] /\ s7' = TRUE /\ UNCHANGED <<s1, s3>>
    BY <1>4 DEF Share!stop, Share!Ends
  <2>2. s1' \in Share!ShareCaptureReceipt /\ Share!Onward /\ Share!ConvertedIsSaved' /\ Share!OneSetOfChoices'
    BY <1>1, <2>1, ReceiptStands
  <2> QED BY <1>1, <2>1, <2>2, IdleRequestFits, ShareParts, ShareGoesOn
<1> QED BY <1>2, <1>3, <1>4

\* The invariant of the captures holds before the first one.
LEMMA ShareInitially == ASSUME Share!ShareInit PROVE Share!ShareInv
<1>1. (CHOOSE t \in Texts : TRUE) \in Texts /\ 0 \in 0..MaxReceiptVersion
  BY ShareAssumption
<1>2. Share!IdleRequest \in Share!Request /\ Share!IdleRequest.pc = "idle" /\ Share!IdleRequest.op = "none" /\ Share!IdleRequest.version = 0
  BY <1>1 DEF Share!IdleRequest, Share!Request
<1>3. Share!ShareTypeOK
  BY <1>1, <1>2 DEF Share!ShareInit, Share!ShareTypeOK, Share!ShareCaptureReceipt, Share!ShareCaptureStatus,
     Share!ShareCaptureMode
<1>4. s1.version = 0 /\ s1.status = "none" /\ ~ s3 /\ s4 = "none" /\ \A q \in Shares : s6[q] = Share!IdleRequest
  BY DEF Share!ShareInit
<1>5. Share!RequestFits(Share!IdleRequest)
  BY <1>2, <1>4 DEF Share!RequestFits, Share!Staging
<1>6. \A q \in Shares : Share!RequestFits(s6[q])
  BY <1>4, <1>5 DEF Share!RequestFits, Share!Staging
<1> QED BY <1>2, <1>3, <1>4, <1>6 DEF Share!ShareInv, Share!NothingBefore, Share!ObjectFits, Share!NoLostObject,
   Share!ConvertedIsSaved, Share!OneSetOfChoices

\* Every step of the captures keeps it.
LEMMA ShareKeeps == ASSUME Share!ShareInv, Share!ShareNext PROVE Share!ShareInv'
<1>1. CASE Share!timePasses \/ Share!leaseExpires \/ Share!expireDue
  BY <1>1, TimeGoesOn
<1>2. ASSUME NEW q \in Shares,
             \/ Share!writeCaptured(q) \/ Share!updateMedia(q) \/ Share!intakeFails(q)
             \/ \E yes \in BOOLEAN : Share!stageShareCapture(q, yes) \/ \E t \in Texts : Share!intake(q, yes, t)
      PROVE  Share!ShareInv'
  BY <1>2, Staged, MediaUpdated, IntakeEnds, IntakeStarts
<1>3. ASSUME NEW q \in Shares,
             \/ Share!revise(q) \/ Share!claimMaterialization(q) \/ Share!materializeShareCapture(q) \/ Share!createShareCaptureDraftContent(q)
             \/ Share!markConverted(q)
      PROVE  Share!ShareInv'
  BY <1>3, TextRevised, Claimed, Stored, ContentCreated, Converted
<1>4. ASSUME NEW q \in Shares, Share!cleanupDue(q) \/ Share!deleteCapturedObject(q) \/ Share!clearQuarantine(q) \/ Share!stop(q) PROVE Share!ShareInv'
  BY <1>4, CleanupStarts, Cleaned
<1>5. ASSUME NEW q \in Shares, NEW t \in Texts, Share!convert(q, t) PROVE Share!ShareInv'
  BY <1>5, ReceiptIsRead DEF Share!convert
<1>6. ASSUME NEW q \in Shares, NEW t \in Texts, NEW i \in Share!ShareCaptureMode, Share!materialize(q, t, i) PROVE Share!ShareInv'
  <2>1. i # "none" /\ i \in Share!ShareCaptureMode \cup {"none"}
    BY DEF Share!ShareCaptureMode
  <2> QED BY <1>6, <2>1, ReceiptIsRead DEF Share!materialize
<1> QED BY <1>1, <1>2, <1>3, <1>4, <1>5, <1>6 DEF Share!ShareNext

\* It contains what the captures promise.
LEMMA ShareHolds ==
  ASSUME Share!ShareInv
  PROVE  Share!ShareTypeOK /\ Share!ConvertedIsSaved /\ Share!OneSetOfChoices /\ Share!NoLostObject
  BY DEF Share!ShareInv

-----------------------------------------------------------------------------
(* Proofs.  Folders.                                                       *)

\* The types of the folders.
LEMMA FolderParts ==
  ASSUME Tree!FolderTypeOK
  PROVE  /\ s1 \in [Folders -> Tree!MediaFolder \cup {Nowhere}] /\ s2 \in [Files -> Tree!MediaFolder]
         /\ s3 \in [Txs -> Tree!Tx] /\ s4 \in BOOLEAN
         /\ \A t \in Txs : s3[t].to \in Tree!MediaFolder
  BY DEF Tree!FolderTypeOK, Tree!Tx

\* There are no folders initially.
LEMMA FolderInitially == ASSUME Tree!FolderInit PROVE Tree!FolderTypeOK /\ Tree!NothingInDeletedFolder
<1>1. Tree!NoTx \in Tree!Tx /\ Root \in Tree!MediaFolder
  BY DEF Tree!NoTx, Tree!Tx, Tree!MediaFolder
<1> QED BY <1>1 DEF Tree!FolderInit, Tree!FolderTypeOK, Tree!NothingInDeletedFolder, Tree!Existing

\* A transaction that begins or ends is one of the open transactions, or none.
LEMMA TxGoesOn ==
  ASSUME Tree!FolderTypeOK,
         \/ \E t \in Txs : Tree!Ends(t)
         \/ \E t \in Txs, op \in {"create", "move", "delete", "organize"}, what \in Folders \cup Files, to \in Tree!MediaFolder :
              Tree!Begins(t, op, what, to)
  PROVE  s3' \in [Txs -> Tree!Tx] /\ s4' \in BOOLEAN
<1>1. CASE \E t \in Txs : Tree!Ends(t)
  <2>1. Tree!NoTx \in Tree!Tx
    BY DEF Tree!NoTx, Tree!Tx, Tree!MediaFolder
  <2> QED BY <1>1, <2>1, FolderParts DEF Tree!Ends
<1>2. ASSUME NEW t \in Txs, NEW op \in {"create", "move", "delete", "organize"}, NEW what \in Folders \cup Files,
             NEW to \in Tree!MediaFolder, Tree!Begins(t, op, what, to)
      PROVE  s3' \in [Txs -> Tree!Tx] /\ s4' \in BOOLEAN
  <2>1. PICK x : x = [op |-> op, what |-> what, to |-> to]
    OBVIOUS
  <2>2. x \in Tree!Tx
    BY <2>1 DEF Tree!Tx
  <2>3. s3' = [s3 EXCEPT ![t] = x] /\ s4' \in BOOLEAN
    BY <1>2, <2>1 DEF Tree!Begins
  <2> QED BY <2>2, <2>3, FolderParts
<1> QED BY <1>1, <1>2

\* Only a write of a transaction changes folders and files.
LEMMA FolderTxs ==
  ASSUME Tree!FolderTypeOK, Tree!FolderNext
  PROVE  /\ s3' \in [Txs -> Tree!Tx] /\ s4' \in BOOLEAN
         /\ (\E t \in Txs : Tree!place(t) \/ Tree!deleteIfEmpty(t) \/ Tree!applyMediaOrganizationMutation(t)) \/ UNCHANGED <<s1, s2>>
<1>1. CASE \E t \in Txs : Tree!place(t) \/ Tree!deleteIfEmpty(t) \/ Tree!applyMediaOrganizationMutation(t)
  <2>1. \E t \in Txs : Tree!Ends(t)
    BY <1>1 DEF Tree!place, Tree!deleteIfEmpty, Tree!applyMediaOrganizationMutation
  <2> QED BY <1>1, <2>1, TxGoesOn
<1>2. CASE \E t \in Txs : Tree!rollback(t)
  <2>1. \E t \in Txs : Tree!Ends(t)
    BY <1>2 DEF Tree!rollback
  <2> QED BY <1>2, <2>1, TxGoesOn DEF Tree!rollback
<1>3. CASE \E t \in Txs, f \in Folders : Tree!deleteFolder(t, f) \/ \E to \in Tree!MediaFolder : Tree!createFolder(t, f, to) \/ Tree!updateFolder(t, f, to)
  <2>1. PICK t \in Txs, f \in Folders : Tree!deleteFolder(t, f) \/ \E to \in Tree!MediaFolder : Tree!createFolder(t, f, to) \/ Tree!updateFolder(t, f, to)
    BY <1>3
  <2>2. Root \in Tree!MediaFolder
    BY DEF Tree!MediaFolder
  <2>3. /\ UNCHANGED <<s1, s2>>
        /\ \E op \in {"create", "move", "delete"}, to \in Tree!MediaFolder : Tree!Begins(t, op, f, to)
    BY <2>1, <2>2 DEF Tree!deleteFolder, Tree!createFolder, Tree!updateFolder
  <2> QED BY <2>3, TxGoesOn
<1>4. CASE \E t \in Txs, a \in Files, to \in Tree!MediaFolder : Tree!bulkOrganize(t, a, to)
  <2>1. PICK t \in Txs, a \in Files, to \in Tree!MediaFolder : UNCHANGED <<s1, s2>> /\ Tree!Begins(t, "organize", a, to)
    BY <1>4 DEF Tree!bulkOrganize
  <2> QED BY <2>1, TxGoesOn
<1> QED BY <1>1, <1>2, <1>3, <1>4 DEF Tree!FolderNext

\* Every step leaves nothing in a folder that was deleted.
LEMMA FolderKeeps ==
  ASSUME Tree!FolderTypeOK, Tree!NothingInDeletedFolder, Tree!FolderNext
  PROVE  Tree!FolderTypeOK' /\ Tree!NothingInDeletedFolder'
<1>1. CASE UNCHANGED <<s1, s2>>
  BY <1>1, FolderTxs DEF Tree!FolderTypeOK, Tree!NothingInDeletedFolder, Tree!Existing
<1>2. ASSUME NEW t \in Txs, Tree!place(t) PROVE Tree!FolderTypeOK' /\ Tree!NothingInDeletedFolder'
  <2>1. PICK f, to : f = s3[t].what /\ to = s3[t].to
    OBVIOUS
  <2>2. /\ UNCHANGED s2 /\ to \in Tree!MediaFolder
        /\ s1' = (IF to \in Tree!Existing \cup {Root} THEN [s1 EXCEPT ![f] = to] ELSE s1)
    BY <1>2, <2>1, FolderParts DEF Tree!place
  <2>3. s1' \in [Folders -> Tree!MediaFolder \cup {Nowhere}] /\ Tree!Existing \subseteq Tree!Existing' /\ Tree!Existing' \subseteq Tree!Existing \cup {f}
    BY <2>2, FolderAssumption, FolderParts DEF Tree!Existing, Tree!MediaFolder
  <2>4. \A g \in Tree!Existing' : s1'[g] \in Tree!Existing \cup {Root}
    BY <2>2, <2>3, FolderParts DEF Tree!Existing, Tree!NothingInDeletedFolder
  <2> QED BY <2>2, <2>3, <2>4, FolderTxs, FolderParts DEF Tree!FolderTypeOK, Tree!NothingInDeletedFolder
<1>3. ASSUME NEW t \in Txs, Tree!deleteIfEmpty(t) PROVE Tree!FolderTypeOK' /\ Tree!NothingInDeletedFolder'
  <2>1. PICK f : f = s3[t].what
    OBVIOUS
  <2>2. /\ UNCHANGED s2
        /\ \/ UNCHANGED s1
           \/ /\ \A g \in Folders : s1[g] # f
              /\ \A a \in Files : s2[a] # f
              /\ s1' = [s1 EXCEPT ![f] = Nowhere]
    BY <1>3, <2>1 DEF Tree!deleteIfEmpty
  <2>3. s1' \in [Folders -> Tree!MediaFolder \cup {Nowhere}] /\ Tree!Existing' \subseteq Tree!Existing /\ \A g \in Tree!Existing' : s1'[g] = s1[g]
    BY <2>2, FolderParts DEF Tree!Existing
  <2>4. CASE UNCHANGED s1
    BY <2>2, <2>4, FolderTxs, FolderParts DEF Tree!FolderTypeOK, Tree!NothingInDeletedFolder, Tree!Existing
  <2>5. CASE /\ \A g \in Folders : s1[g] # f
             /\ \A a \in Files : s2[a] # f
             /\ s1' = [s1 EXCEPT ![f] = Nowhere]
    <3>1. Tree!Existing \ {f} \subseteq Tree!Existing'
      BY <2>5, FolderParts DEF Tree!Existing
    <3>2. \A g \in Tree!Existing' : s1'[g] \in Tree!Existing' \cup {Root}
      BY <2>3, <2>5, <3>1 DEF Tree!NothingInDeletedFolder, Tree!Existing
    <3>3. \A a \in Files : s2[a] \in Tree!Existing' \cup {Root}
      BY <2>5, <3>1 DEF Tree!NothingInDeletedFolder
    <3> QED BY <2>2, <2>3, <3>2, <3>3, FolderTxs, FolderParts DEF Tree!FolderTypeOK, Tree!NothingInDeletedFolder
  <2> QED BY <2>2, <2>4, <2>5
<1>4. ASSUME NEW t \in Txs, Tree!applyMediaOrganizationMutation(t) PROVE Tree!FolderTypeOK' /\ Tree!NothingInDeletedFolder'
  <2>1. PICK a, to : a = s3[t].what /\ to = s3[t].to
    OBVIOUS
  <2>2. /\ UNCHANGED s1 /\ to \in Tree!MediaFolder
        /\ s2' = (IF to \in Tree!Existing \cup {Root} THEN [s2 EXCEPT ![a] = to] ELSE s2)
    BY <1>4, <2>1, FolderParts DEF Tree!applyMediaOrganizationMutation
  <2> QED BY <2>2, FolderTxs, FolderParts DEF Tree!FolderTypeOK, Tree!NothingInDeletedFolder, Tree!Existing
<1> QED BY <1>1, <1>2, <1>3, <1>4, FolderTxs

\* x
\* Folders and files keep their types, and nothing is in a deleted folder.
FoldersFit == Tree!FolderTypeOK /\ Tree!NothingInDeletedFolder

\* Sets of folders are finite, and are counted as sets are.
LEMMA FolderCounts ==
  /\ Tree!Cardinality(Folders) \in Nat
  /\ \A S \in SUBSET Folders : Tree!Cardinality(S) \in Nat /\ Tree!Cardinality(S) <= Tree!Cardinality(Folders)
  /\ \A S, T \in SUBSET Folders : /\ S \subseteq T => Tree!Cardinality(S) <= Tree!Cardinality(T)
                                  /\ T \subseteq S => Tree!Cardinality(S \ T) = Tree!Cardinality(S) - Tree!Cardinality(T)
                                  /\ Tree!Cardinality(S \cup T) <= Tree!Cardinality(S) + Tree!Cardinality(T)
  /\ Tree!Cardinality({}) = 0 /\ \A f \in Folders : Tree!Cardinality({f}) = 1
<1>1. \A S \in SUBSET Folders : IsFiniteSet(S) /\ Cardinality(S) \in Nat /\ Cardinality(S) <= Cardinality(Folders)
  <2> TAKE S \in SUBSET Folders
  <2>1. IsFiniteSet(S) /\ Cardinality(S) <= Cardinality(Folders)
    BY FolderAssumption, FS_Subset
  <2> QED BY <2>1, FS_CardinalityType
<1>2. ASSUME NEW S \in SUBSET Folders, NEW T \in SUBSET Folders
      PROVE  /\ S \subseteq T => Cardinality(S) <= Cardinality(T)
             /\ T \subseteq S => Cardinality(S \ T) = Cardinality(S) - Cardinality(T)
             /\ Cardinality(S \cup T) <= Cardinality(S) + Cardinality(T)
  <2>1. IsFiniteSet(S) /\ IsFiniteSet(T) /\ Cardinality(S) \in Nat /\ Cardinality(T) \in Nat /\ Cardinality(S \cap T) \in Nat
    BY <1>1
  <2>2. S \subseteq T => Cardinality(S) <= Cardinality(T)
    BY <2>1, FS_Subset
  <2>3. Cardinality(S \ T) = Cardinality(S) - Cardinality(S \cap T)
    BY <2>1, FS_Difference
  <2>0. IsFiniteSet(S) /\ IsFiniteSet(T)
    BY <2>1
  <2>4. /\ IsFiniteSet(S \cup T)
        /\ Cardinality(S \cup T) = Cardinality(S) + Cardinality(T) - Cardinality(S \cap T)
    BY ONLY <2>0, FS_Union
  <2>5. T \subseteq S => Cardinality(S \cap T) = Cardinality(T)
    <3>1. T \subseteq S => S \cap T = T
      OBVIOUS
    <3> QED BY <3>1
  <2>6. T \subseteq S => Cardinality(S \ T) = Cardinality(S) - Cardinality(T)
    BY <2>3, <2>5
  <2>7. Cardinality(S \cup T) <= Cardinality(S) + Cardinality(T)
    BY <2>1, <2>4
  <2> QED BY <2>2, <2>6, <2>7
<1>3. Cardinality({}) = 0 /\ \A f \in Folders : Cardinality({f}) = 1
  BY FS_EmptySet, FS_Singleton
<1>4. Cardinality(Folders) \in Nat
  BY FolderAssumption, FS_CardinalityType
<1>5. \A S : Tree!Cardinality(S) = Cardinality(S)
  BY DEF Tree!Cardinality, Cardinality
<1> QED BY <1>5, <1>1, <1>2, <1>3, <1>4

\* A set of natural numbers that is not empty has a least one.
LEMMA LeastOf ==
  ASSUME NEW T \in SUBSET Nat, T # {}
  PROVE  \E x \in T : \A y \in T : x <= y
<1> DEFINE Less == OpToRel(<, Nat)
<1>1. Less = {ss \in Nat \X Nat : ss[1] < ss[2]}
  BY Zenon DEF OpToRel
<1>2. IsWellFoundedOn(Less, Nat)
  BY NatLessThanWellFounded, Zenon
<1> HIDE DEF Less
<1>3. \E x \in T : \A y \in T : ~(<<y, x>> \in Less)
  BY <1>2, WFMin, T \subseteq Nat, Zenon
<1>4. \A x, y \in Nat : <<y, x>> \notin Less => x <= y
  BY <1>1, SMT
<1> QED BY <1>3, <1>4

\* A bounded set of integers that is not empty has a largest one.
LEMMA Largest ==
  ASSUME NEW S \in SUBSET Int, S # {}, NEW n \in Int, \A i \in S : i <= n
  PROVE  Tree!Max(S) \in S /\ \A i \in S : i <= Tree!Max(S)
<1> DEFINE T == {k \in Nat : n - k \in S}
<1>1. \A i \in S : n - i \in T
  OBVIOUS
<1>2. T # {} /\ T \subseteq Nat
  BY <1>1
<1>3. PICK k \in T : \A y \in T : k <= y
  BY <1>2, LeastOf
<1>4. n - k \in S /\ \A i \in S : i <= n - k
  BY <1>1, <1>3
<1>5. \E x \in S : \A y \in S : x >= y
  BY <1>4
<1> QED BY <1>5 DEF Tree!Max

\* What the ancestors of a folder are: the least set with the folder that goes on to the top.
AncestorsFit ==
  \A f \in Tree!Existing : /\ f \in Tree!ancestors(f) /\ Tree!ancestors(f) \subseteq Tree!Existing /\ Tree!UpwardClosed(Tree!ancestors(f))
                           /\ \A S \in SUBSET Folders : f \in S /\ Tree!UpwardClosed(S) => Tree!ancestors(f) \subseteq S

\* The ancestors of a folder are the least such set.
LEMMA Above == FoldersFit => AncestorsFit
<1> SUFFICES ASSUME FoldersFit, NEW f \in Tree!Existing
             PROVE  /\ f \in Tree!ancestors(f) /\ Tree!ancestors(f) \subseteq Tree!Existing /\ Tree!UpwardClosed(Tree!ancestors(f))
                    /\ \A S \in SUBSET Folders : f \in S /\ Tree!UpwardClosed(S) => Tree!ancestors(f) \subseteq S
  BY DEF AncestorsFit
<1>1. Tree!Existing \subseteq Folders /\ \A h \in Tree!Existing : s1[h] \in Tree!Existing \cup {Root}
  BY DEF Tree!Existing, FoldersFit, Tree!NothingInDeletedFolder
<1>2. Tree!UpwardClosed(Tree!Existing)
  BY <1>1 DEF Tree!UpwardClosed
<1>3. \A S \in SUBSET Folders : f \in S /\ Tree!UpwardClosed(S) => Tree!ancestors(f) \subseteq S
  BY DEF Tree!ancestors
<1>4. f \in Tree!ancestors(f) /\ Tree!ancestors(f) \subseteq Tree!Existing
  BY <1>1, <1>2, <1>3 DEF Tree!ancestors
<1>5. ASSUME NEW h \in Tree!ancestors(f), s1[h] # Root PROVE s1[h] \in Tree!ancestors(f)
  <2>1. s1[h] \in Folders /\ h \in Tree!Existing
    BY <1>1, <1>4, <1>5
  <2>2. ASSUME NEW S \in SUBSET Folders, f \in S, Tree!UpwardClosed(S) PROVE s1[h] \in S
    BY <1>3, <1>5, <2>1, <2>2 DEF Tree!UpwardClosed
  <2> QED BY <2>1, <2>2 DEF Tree!ancestors
<1>6. Tree!UpwardClosed(Tree!ancestors(f))
  BY <1>5 DEF Tree!UpwardClosed
<1> QED BY <1>3, <1>4, <1>6

\* So they are after a step.
LEMMA AboveLater == FoldersFit' => AncestorsFit'
  BY Above, PTL

\* The ancestors of a folder, with its definitions expanded; they hold the ancestors of each of them.
LEMMA AncestorParts ==
  ASSUME FoldersFit
  PROVE  /\ Tree!Existing \subseteq Folders /\ Root \notin Tree!Existing /\ \A h \in Tree!Existing : s1[h] \in Tree!Existing \cup {Root}
         /\ \A f \in Tree!Existing : /\ f \in Tree!ancestors(f) /\ Tree!ancestors(f) \subseteq Tree!Existing
                                     /\ \A h \in Tree!ancestors(f) : s1[h] \in Tree!ancestors(f) \cup {Root}
                                     /\ \A S \in SUBSET Folders : f \in S /\ (\A h \in S \cap Tree!Existing : s1[h] \in S \cup {Root})
                                                                    => Tree!ancestors(f) \subseteq S
         /\ \A f \in Tree!Existing, h \in Tree!Existing : f \in Tree!ancestors(h) => Tree!ancestors(f) \subseteq Tree!ancestors(h)
<1>1. Tree!Existing \subseteq Folders /\ Root \notin Tree!Existing /\ \A h \in Tree!Existing : s1[h] \in Tree!Existing \cup {Root}
  BY FolderAssumption DEF Tree!Existing, FoldersFit, Tree!NothingInDeletedFolder
<1>2. ASSUME NEW f \in Tree!Existing
      PROVE  /\ f \in Tree!ancestors(f) /\ Tree!ancestors(f) \subseteq Tree!Existing
             /\ \A h \in Tree!ancestors(f) : s1[h] \in Tree!ancestors(f) \cup {Root}
             /\ \A S \in SUBSET Folders : f \in S /\ (\A h \in S \cap Tree!Existing : s1[h] \in S \cup {Root})
                                            => Tree!ancestors(f) \subseteq S
  BY Above DEF AncestorsFit, Tree!UpwardClosed
<1>3. ASSUME NEW f \in Tree!Existing, NEW h \in Tree!Existing, f \in Tree!ancestors(h) PROVE Tree!ancestors(f) \subseteq Tree!ancestors(h)
  BY <1>1, <1>2, <1>3
<1> QED BY <1>1, <1>2, <1>3

\* Another ancestor of a folder is an ancestor of its parent.
LEMMA AboveStep ==
  ASSUME FoldersFit, NEW h \in Tree!Existing, NEW f \in Tree!ancestors(h), f # h
  PROVE  s1[h] \in Tree!Existing /\ f \in Tree!ancestors(s1[h])
<1>1. CASE s1[h] = Root
  <2>1. {h} \in SUBSET Folders /\ \A x \in {h} \cap Tree!Existing : s1[x] \in {h} \cup {Root}
    BY <1>1, AncestorParts
  <2>2. Tree!ancestors(h) \subseteq {h}
    BY <2>1, AncestorParts
  <2> QED BY <2>2
<1>2. CASE s1[h] # Root
  <2>1. PICK p \in Tree!Existing : p = s1[h]
    BY <1>2, AncestorParts
  <2> DEFINE S == {h} \cup Tree!ancestors(p)
  <2>2. S \in SUBSET Folders /\ h \in S /\ \A x \in S \cap Tree!Existing : s1[x] \in S \cup {Root}
    BY <2>1, AncestorParts
  <2> HIDE DEF S
  <2>3. Tree!ancestors(h) \subseteq S
    BY <2>2, AncestorParts
  <2> USE DEF S
  <2> QED BY <2>1, <2>3
<1> QED BY <1>1, <1>2

\* Every path ends at the top.
Topped == \A f \in Tree!Existing : \E g \in Tree!ancestors(f) : s1[g] = Root

\* When every path ends at the top, no folders have their parents among themselves.
LEMMA NoCycle ==
  ASSUME FoldersFit, Topped,
         NEW S \in SUBSET Tree!Existing, S # {}
  PROVE  \E h \in S : s1[h] \notin S
<1> SUFFICES ASSUME \A h \in S : s1[h] \in S PROVE FALSE
  OBVIOUS
<1>1. PICK x \in S : TRUE
  OBVIOUS
<1>2. Tree!ancestors(x) \subseteq S
  BY <1>1, AncestorParts
<1>3. PICK g \in Tree!ancestors(x) : s1[g] = Root
  BY <1>1 DEF Topped
<1> QED BY <1>2, <1>3, AncestorParts

\* Two folders are not both above each other.
LEMMA OneOrder ==
  ASSUME FoldersFit, Topped,
         NEW f \in Tree!Existing, NEW h \in Tree!Existing, f \in Tree!ancestors(h), h \in Tree!ancestors(f)
  PROVE  f = h
<1> SUFFICES ASSUME f # h PROVE FALSE
  OBVIOUS
<1> DEFINE T == {z \in Tree!Existing : z \in Tree!ancestors(f) /\ f \in Tree!ancestors(z)}
<1>1. T \in SUBSET Tree!Existing /\ T # {}
  BY AncestorParts
<1>2. ASSUME NEW z \in T PROVE s1[z] \in T
  <2>1. CASE z # f
    <3>1. s1[z] \in Tree!Existing /\ f \in Tree!ancestors(s1[z])
      BY <2>1, AboveStep
    <3> QED BY <3>1, AncestorParts
  <2>2. CASE z = f
    <3>1. s1[f] \in Tree!Existing /\ h \in Tree!ancestors(s1[f])
      BY AboveStep
    <3>2. PICK p \in Tree!Existing : p = s1[f]
      BY <3>1
    <3>3. f \in Tree!ancestors(p)
      BY <3>1, <3>2, AncestorParts
    <3>4. p \in Tree!ancestors(f)
      BY <3>2, AncestorParts
    <3> QED BY <2>2, <3>2, <3>3, <3>4
  <2> QED BY <2>1, <2>2
<1> HIDE DEF T
<1> QED BY <1>1, <1>2, NoCycle

\* The path from a folder up to one of its ancestors stays below that ancestor until it is there.
LEMMA Between ==
  ASSUME FoldersFit, Topped,
         NEW g \in Tree!Existing, NEW f \in Tree!ancestors(g), NEW h \in Tree!ancestors(g) \ Tree!ancestors(f)
  PROVE  h # f /\ s1[h] \in (Tree!ancestors(g) \ Tree!ancestors(f)) \cup {f}
<1> DEFINE S == {x \in Tree!ancestors(g) : f \in Tree!ancestors(x) \/ x \in Tree!ancestors(f)}
<1>0. f \in Tree!Existing /\ h \in Tree!Existing /\ f \in Tree!ancestors(f)
  BY AncestorParts
<1>1. S \in SUBSET Folders /\ g \in S
  BY AncestorParts
<1>2. ASSUME NEW x \in S, s1[x] # Root PROVE s1[x] \in S
  <2>1. x \in Tree!Existing /\ s1[x] \in Tree!ancestors(g)
    BY <1>2, AncestorParts
  <2>2. CASE x \in Tree!ancestors(f)
    BY <1>0, <1>2, <2>1, <2>2, AncestorParts
  <2>3. CASE x \notin Tree!ancestors(f)
    <3>1. f \in Tree!ancestors(x) /\ x # f
      BY <1>0, <2>3
    <3>2. f \in Tree!ancestors(s1[x])
      BY <2>1, <3>1, AboveStep
    <3> QED BY <2>1, <3>2
  <2> QED BY <2>2, <2>3
<1>3. \A x \in S \cap Tree!Existing : s1[x] \in S \cup {Root}
  BY <1>2
<1>4. Tree!ancestors(g) \subseteq S
  <2> HIDE DEF S
  <2> QED BY <1>1, <1>3, AncestorParts
<1>5. f \in Tree!ancestors(h) /\ h # f
  BY <1>0, <1>4
<1>6. PICK p \in Tree!Existing : p = s1[h] /\ f \in Tree!ancestors(p)
  BY <1>0, <1>5, AboveStep
<1>7. p \in Tree!ancestors(g)
  BY <1>6, AncestorParts
<1>8. p \in Tree!ancestors(f) => p = f
  BY <1>0, <1>6, OneOrder
<1> QED BY <1>5, <1>6, <1>7, <1>8

\* How deep the subtree of each folder goes.
SubtreesFit ==
  \A f \in Tree!Existing :
    /\ Tree!depth(f) \in Nat /\ Tree!subtreeDepth(f) \in Int
    /\ \E g \in Tree!descendants(f) : Tree!subtreeDepth(f) = Tree!depth(g) - Tree!depth(f) + 1
    /\ \A g \in Tree!descendants(f) : Tree!depth(g) - Tree!depth(f) + 1 <= Tree!subtreeDepth(f)

\* The subtree of a folder has a deepest folder.
LEMMA Subtrees == FoldersFit => SubtreesFit
<1> SUFFICES ASSUME FoldersFit, NEW f \in Tree!Existing
             PROVE  /\ Tree!depth(f) \in Nat /\ Tree!subtreeDepth(f) \in Int
                    /\ \E g \in Tree!descendants(f) : Tree!subtreeDepth(f) = Tree!depth(g) - Tree!depth(f) + 1
                    /\ \A g \in Tree!descendants(f) : Tree!depth(g) - Tree!depth(f) + 1 <= Tree!subtreeDepth(f)
  BY DEF SubtreesFit
<1>1. \A g \in Tree!Existing : Tree!depth(g) \in Nat /\ Tree!depth(g) <= Tree!Cardinality(Folders)
  <2> TAKE g \in Tree!Existing
  <2>1. Tree!ancestors(g) \in SUBSET Folders
    BY AncestorParts
  <2> QED BY <2>1, FolderCounts DEF Tree!depth
<1>2. f \in Tree!descendants(f) /\ Tree!descendants(f) \subseteq Tree!Existing
  BY AncestorParts DEF Tree!descendants
<1> DEFINE S == {Tree!depth(g) - Tree!depth(f) + 1 : g \in Tree!descendants(f)}
<1>3. S \in SUBSET Int /\ S # {} /\ Tree!Cardinality(Folders) + 1 \in Int /\ \A i \in S : i <= Tree!Cardinality(Folders) + 1
  BY <1>1, <1>2, FolderCounts
<1>4. Tree!subtreeDepth(f) = Tree!Max(S)
  BY DEF Tree!subtreeDepth
<1>5. Tree!Max(S) \in S /\ \A i \in S : i <= Tree!Max(S)
  <2> HIDE DEF S
  <2> QED BY <1>3, Largest
<1> QED BY <1>1, <1>3, <1>4, <1>5

\* So it has after a step.
LEMMA SubtreesLater == FoldersFit' => SubtreesFit'
  BY Subtrees, PTL

\* The folders above a place.
AboveOf(to) == IF to = Root THEN {} ELSE Tree!ancestors(to)

\* A folder that is placed changes no parent but its own, and none above the new one.
LEMMA PlaceGoesUp ==
  ASSUME FoldersFit, FoldersFit',
         NEW f \in Folders, NEW to \in Tree!Existing \cup {Root}, Tree!acceptsParent(f, to), s1' = [s1 EXCEPT ![f] = to]
  PROVE  /\ Tree!Existing' = Tree!Existing \cup {f} /\ (\A h \in Tree!Existing \ {f} : s1'[h] = s1[h]) /\ s1'[f] = to
         /\ AboveOf(to) \in SUBSET (Tree!Existing \ {f}) /\ to \in AboveOf(to) \cup {Root} /\ \A h \in AboveOf(to) : s1[h] \in AboveOf(to) \cup {Root} /\ s1'[h] = s1[h]
<1>1. /\ Tree!Existing' = Tree!Existing \cup {f} /\ (\A h \in Tree!Existing \ {f} : s1'[h] = s1[h]) /\ s1'[f] = to
  BY FolderAssumption, FolderParts DEF Tree!Existing, FoldersFit, Tree!MediaFolder
<1>2. /\ AboveOf(to) \in SUBSET (Tree!Existing \ {f}) /\ to \in AboveOf(to) \cup {Root} /\ \A h \in AboveOf(to) : s1[h] \in AboveOf(to) \cup {Root}
  BY AncestorParts DEF Tree!acceptsParent, AboveOf
<1> QED BY <1>1, <1>2

\* Every path still ends at the top after a folder is placed where acceptsParent lets it.
LEMMA StillTopped ==
  ASSUME FoldersFit, FoldersFit',
         Topped,
         NEW f \in Folders, NEW to \in Tree!Existing \cup {Root}, Tree!acceptsParent(f, to), s1' = [s1 EXCEPT ![f] = to],
         NEW x \in Tree!Existing'
  PROVE  \E g \in Tree!ancestors(x)' : s1'[g] = Root
<1> SUFFICES ASSUME \A g \in Tree!ancestors(x)' : s1'[g] # Root PROVE FALSE
  OBVIOUS
<1>1. PICK S : S = Tree!ancestors(x)'
  OBVIOUS
<1>2. PICK A : A = AboveOf(to)
  OBVIOUS
<1>3. S \in SUBSET Tree!Existing' /\ x \in S /\ \A h \in S : s1'[h] \in S
  <2>1. x \in Tree!ancestors(x)' /\ Tree!ancestors(x)' \subseteq Tree!Existing' /\ Tree!UpwardClosed(Tree!ancestors(x))'
    BY AboveLater DEF AncestorsFit
  <2>2. \A h \in Tree!ancestors(x)' \cap Tree!Existing' : s1'[h] \in Tree!ancestors(x)' \cup {Root}
    BY <2>1 DEF Tree!UpwardClosed
  <2> QED BY <1>1, <2>1, <2>2
<1>4. /\ Tree!Existing' = Tree!Existing \cup {f} /\ (\A h \in Tree!Existing \ {f} : s1'[h] = s1[h]) /\ s1'[f] = to
      /\ A \in SUBSET (Tree!Existing \ {f}) /\ to \in A \cup {Root} /\ \A h \in A : s1[h] \in A \cup {Root} /\ s1'[h] = s1[h]
  BY <1>2, PlaceGoesUp
<1>5. CASE f \notin S
  <2>1. S \in SUBSET Tree!Existing /\ S # {} /\ \A h \in S : s1[h] \in S
    BY <1>3, <1>4, <1>5
  <2> QED BY <2>1, NoCycle
<1>6. CASE f \in S
  <2>1. Root \notin S
    BY <1>3, FolderAssumption DEF Tree!Existing
  <2>2. to \in S \cap A
    BY <1>3, <1>4, <1>6, <2>1
  <2>3. \A h \in S \cap A : s1[h] \in S \cap A
    BY <1>3, <1>4, <2>1
  <2>4. S \cap A \in SUBSET Tree!Existing /\ S \cap A # {}
    BY <1>4, <2>2
  <2> QED BY <2>3, <2>4, NoCycle
<1> QED BY <1>5, <1>6

\* A set that goes on to the top is as large as the depth of a folder in it, at least.
LEMMA BoundedByAbove ==
  ASSUME FoldersFit', NEW x \in Tree!Existing', NEW X \in SUBSET Folders, x \in X,
         \A h \in X \cap Tree!Existing' : s1'[h] \in X \cup {Root}
  PROVE  Tree!ancestors(x)' \subseteq X /\ Tree!depth(x)' <= Tree!Cardinality(X)
<1>1. Tree!UpwardClosed(X)'
  BY DEF Tree!UpwardClosed
<1>2. Tree!ancestors(x)' \subseteq X
  BY <1>1, AboveLater DEF AncestorsFit
<1>3. PICK S : S = Tree!ancestors(x)'
  OBVIOUS
<1>4. Tree!Cardinality(S) <= Tree!Cardinality(X)
  BY <1>2, <1>3, FolderCounts
<1>5. Tree!depth(x)' = Tree!Cardinality(S)
  BY <1>3 DEF Tree!depth
<1> QED BY <1>2, <1>4, <1>5

\* No folder is too deep after a folder is placed where acceptsParent lets it.
LEMMA StillBounded ==
  ASSUME FoldersFit, FoldersFit',
         Topped, \A x \in Tree!Existing : Tree!depth(x) <= MaxDepth,
         NEW f \in Folders, NEW to \in Tree!Existing \cup {Root}, Tree!acceptsParent(f, to), s1' = [s1 EXCEPT ![f] = to],
         NEW x \in Tree!Existing'
  PROVE  Tree!depth(x)' <= MaxDepth
<1>1. PICK A : A = AboveOf(to)
  OBVIOUS
<1>2. /\ Tree!Existing' = Tree!Existing \cup {f} /\ (\A h \in Tree!Existing \ {f} : s1'[h] = s1[h]) /\ s1'[f] = to
      /\ A \in SUBSET (Tree!Existing \ {f}) /\ to \in A \cup {Root} /\ \A h \in A : s1[h] \in A \cup {Root} /\ s1'[h] = s1[h]
  BY <1>1, PlaceGoesUp
<1>3. /\ Tree!Existing \in SUBSET Folders /\ A \in SUBSET Folders /\ {f} \in SUBSET Folders
      /\ \A h \in Tree!Existing : Tree!ancestors(h) \in SUBSET Folders /\ h \in Tree!ancestors(h)
                             /\ \A g \in Tree!ancestors(h) : s1[g] \in Tree!ancestors(h) \cup {Root}
  BY <1>2, AncestorParts
<1>4. Tree!Cardinality(A) \in Nat /\ Tree!Cardinality({f}) = 1 /\ MaxDepth \in Nat
  BY <1>3, FolderCounts, FolderAssumption
<1>5. Tree!Cardinality(A) + (IF f \in Tree!Existing THEN Tree!subtreeDepth(f) ELSE 1) <= MaxDepth
  BY <1>1, FolderCounts DEF AboveOf, Tree!acceptsParent, Tree!depth
<1>6. Tree!Cardinality({f} \cup A) <= 1 + Tree!Cardinality(A) /\ Tree!Cardinality({f} \cup A) \in Nat
  <2>1. {f} \cup A \in SUBSET Folders
    BY <1>3
  <2> QED BY <1>3, <1>4, <2>1, FolderCounts
<1>7. CASE x \notin Tree!Existing
  <2>1. x = f /\ f \notin Tree!Existing
    BY <1>2, <1>7
  <2> DEFINE X == {f} \cup A
  <2>2. X \in SUBSET Folders /\ x \in X /\ \A h \in X \cap Tree!Existing' : s1'[h] \in X \cup {Root}
    BY <1>2, <1>3, <2>1
  <2>3. Tree!depth(x)' <= Tree!Cardinality(X)
    <3> HIDE DEF X
    <3> QED BY <2>2, BoundedByAbove
  <2>4. PICK n : n = Tree!depth(x)'
    OBVIOUS
  <2>5. n \in Nat
    BY <2>4, SubtreesLater DEF SubtreesFit
  <2> QED BY <1>4, <1>5, <1>6, <2>1, <2>3, <2>4, <2>5
<1>8. CASE x \in Tree!Existing /\ f \notin Tree!ancestors(x)
  <2>1. /\ Tree!ancestors(x) \in SUBSET Folders /\ x \in Tree!ancestors(x)
        /\ \A h \in Tree!ancestors(x) \cap Tree!Existing' : s1'[h] \in Tree!ancestors(x) \cup {Root}
    BY <1>2, <1>3, <1>8
  <2>2. Tree!depth(x)' <= Tree!Cardinality(Tree!ancestors(x))
    BY <2>1, BoundedByAbove
  <2>3. Tree!Cardinality(Tree!ancestors(x)) = Tree!depth(x) /\ Tree!depth(x) <= MaxDepth /\ Tree!depth(x) \in Nat
    BY <1>8, Subtrees DEF Tree!depth, SubtreesFit
  <2>4. PICK n : n = Tree!depth(x)'
    OBVIOUS
  <2>5. n \in Nat
    BY <2>4, SubtreesLater DEF SubtreesFit
  <2> QED BY <1>4, <2>2, <2>3, <2>4, <2>5
<1>9. CASE x \in Tree!Existing /\ f \in Tree!ancestors(x)
  <2>1. f \in Tree!Existing /\ Tree!ancestors(f) \subseteq Tree!ancestors(x)
    BY <1>9, AncestorParts
  <2> DEFINE D == Tree!ancestors(x) \ Tree!ancestors(f)
  <2> DEFINE X == D \cup ({f} \cup A)
  <2>2. \A h \in D : h # f /\ s1[h] \in D \cup {f}
    BY <1>9, Between
  <2>3. X \in SUBSET Folders /\ x \in X
    <3>1. x \in Tree!ancestors(f) => x = f
      BY <1>9, <2>1, OneOrder
    <3> QED BY <1>3, <1>9, <3>1
  <2>4. D \subseteq Tree!Existing
    BY <1>9, AncestorParts
  <2>5. \A h \in X \cap Tree!Existing' : s1'[h] \in X \cup {Root}
    <3>1. \A h \in D : s1'[h] \in X
      BY <1>2, <2>2, <2>4
    <3> QED BY <1>2, <3>1
  <2>6. Tree!depth(x)' <= Tree!Cardinality(X)
    <3> HIDE DEF X
    <3> QED BY <2>3, <2>5, BoundedByAbove
  <2>7. Tree!Cardinality(X) <= Tree!Cardinality(D) + Tree!Cardinality({f} \cup A) /\ Tree!Cardinality(X) \in Nat
    <3>1. D \in SUBSET Folders /\ {f} \cup A \in SUBSET Folders
      BY <1>3, <1>9
    <3> HIDE DEF D
    <3> QED BY <2>3, <3>1, FolderCounts
  <2>8. Tree!Cardinality(D) = Tree!depth(x) - Tree!depth(f)
    BY <1>3, <1>9, <2>1, FolderCounts DEF Tree!depth
  <2>9. x \in Tree!descendants(f)
    BY <1>9 DEF Tree!descendants
  <2>10. /\ Tree!depth(x) \in Nat /\ Tree!depth(f) \in Nat /\ Tree!subtreeDepth(f) \in Int
         /\ Tree!depth(x) - Tree!depth(f) + 1 <= Tree!subtreeDepth(f)
    BY <1>9, <2>1, <2>9, Subtrees DEF SubtreesFit
  <2>11. PICK n : n = Tree!depth(x)'
    OBVIOUS
  <2>12. n \in Nat
    BY <2>11, SubtreesLater DEF SubtreesFit
  <2> HIDE DEF X, D
  <2> QED BY <1>4, <1>5, <1>6, <2>1, <2>6, <2>7, <2>8, <2>10, <2>11, <2>12
<1> QED BY <1>7, <1>8, <1>9

\* The path of a folder changes only when a parent on it does.
LEMMA PathsStand ==
  ASSUME FoldersFit, FoldersFit',
         Tree!Existing' \subseteq Tree!Existing, \A x \in Tree!Existing' : s1'[x] = s1[x], NEW x \in Tree!Existing'
  PROVE  Tree!ancestors(x)' = Tree!ancestors(x) /\ Tree!depth(x)' = Tree!depth(x)
<1>1. /\ Tree!ancestors(x) \in SUBSET Folders /\ x \in Tree!ancestors(x)
      /\ \A h \in Tree!ancestors(x) \cap Tree!Existing' : s1'[h] \in Tree!ancestors(x) \cup {Root}
  BY AncestorParts
<1>2. Tree!ancestors(x)' \subseteq Tree!ancestors(x)
  BY <1>1, BoundedByAbove
<1>3. PICK S : S = Tree!ancestors(x)'
  OBVIOUS
<1>4. /\ S \subseteq Tree!Existing' /\ x \in S
      /\ \A h \in S : s1'[h] \in S \cup {Root}
  <2>1. x \in Tree!ancestors(x)' /\ Tree!ancestors(x)' \subseteq Tree!Existing' /\ Tree!UpwardClosed(Tree!ancestors(x))'
    BY AboveLater DEF AncestorsFit
  <2>2. \A h \in Tree!ancestors(x)' \cap Tree!Existing' : s1'[h] \in Tree!ancestors(x)' \cup {Root}
    BY <2>1 DEF Tree!UpwardClosed
  <2> QED BY <1>3, <2>1, <2>2
<1>5. S \in SUBSET Folders /\ \A h \in S \cap Tree!Existing : s1[h] \in S \cup {Root}
  BY <1>4, AncestorParts
<1>6. Tree!ancestors(x) \subseteq S
  BY <1>4, <1>5, AncestorParts
<1>7. Tree!ancestors(x)' = Tree!ancestors(x)
  BY <1>2, <1>3, <1>6
<1> QED BY <1>7 DEF Tree!depth

\* A subtree gets no deeper when folders are only deleted.
LEMMA SubtreeShrinks ==
  ASSUME FoldersFit, FoldersFit',
         Tree!Existing' \subseteq Tree!Existing, \A x \in Tree!Existing' : s1'[x] = s1[x], NEW f \in Tree!Existing'
  PROVE  Tree!subtreeDepth(f)' <= Tree!subtreeDepth(f) /\ Tree!subtreeDepth(f)' \in Int
<1>1. PICK n : n = Tree!subtreeDepth(f)'
  OBVIOUS
<1>2. PICK g \in Tree!descendants(f)' : n = Tree!depth(g)' - Tree!depth(f)' + 1
  BY <1>1, SubtreesLater DEF SubtreesFit
<1>3. n \in Int
  BY <1>1, SubtreesLater DEF SubtreesFit
<1>4. g \in Tree!Existing' /\ f \in Tree!ancestors(g)'
  BY <1>2 DEF Tree!descendants
<1>5. g \in Tree!descendants(f) /\ Tree!depth(g)' = Tree!depth(g) /\ Tree!depth(f)' = Tree!depth(f)
  BY <1>4, PathsStand DEF Tree!descendants
<1>6. Tree!depth(g) - Tree!depth(f) + 1 <= Tree!subtreeDepth(f)
  BY <1>5, Subtrees DEF SubtreesFit
<1> QED BY <1>1, <1>2, <1>3, <1>5, <1>6

\* A place that was accepted still is when folders are only deleted.
LEMMA StillAccepted ==
  ASSUME FoldersFit, FoldersFit',
         Tree!Existing' \subseteq Tree!Existing, \A x \in Tree!Existing' : s1'[x] = s1[x],
         NEW f, f \in Tree!Existing <=> f \in Tree!Existing', NEW to \in Tree!Existing' \cup {Root}, Tree!acceptsParent(f, to)
  PROVE  Tree!acceptsParent(f, to)'
<1>1. to # f /\ (to = Root \/ (to \in Tree!Existing' /\ f \notin Tree!ancestors(to)'))
  BY PathsStand DEF Tree!acceptsParent
<1>2. PICK a, b, c : a = (IF to = Root THEN 0 ELSE Tree!depth(to)) /\ b = Tree!subtreeDepth(f) /\ c = Tree!subtreeDepth(f)'
  OBVIOUS
<1>3. a \in Nat /\ a = (IF to = Root THEN 0 ELSE Tree!depth(to)')
  <2>1. CASE to = Root
    BY <1>2, <2>1
  <2>2. CASE to # Root
    <3>1. to \in Tree!Existing' /\ to \in Tree!Existing
      BY <2>2
    <3> QED BY <1>2, <2>2, <3>1, PathsStand, Subtrees DEF SubtreesFit
  <2> QED BY <2>1, <2>2
<1>4. f \in Tree!Existing' => c <= b /\ c \in Int /\ b \in Int
  BY <1>2, SubtreeShrinks, Subtrees DEF SubtreesFit
<1>5. a + (IF f \in Tree!Existing THEN b ELSE 1) <= MaxDepth
  BY <1>2 DEF Tree!acceptsParent
<1>6. a + (IF f \in Tree!Existing' THEN c ELSE 1) <= MaxDepth
  BY <1>3, <1>4, <1>5, FolderAssumption
<1>7. (IF to = Root THEN 0 ELSE Tree!depth(to)') + (IF f \in Tree!Existing' THEN Tree!subtreeDepth(f)' ELSE 1) <= MaxDepth
  BY <1>2, <1>3, <1>6
<1> QED BY <1>1, <1>7 DEF Tree!acceptsParent

\* The tree stays one when folders are only deleted.
LEMMA TreeStands ==
  ASSUME FoldersFit, FoldersFit', Tree!TreeUnlessOverlapped,
         Tree!Existing' \subseteq Tree!Existing, \A x \in Tree!Existing' : s1'[x] = s1[x], s4 => s4'
  PROVE  Tree!TreeUnlessOverlapped'
<1> SUFFICES ASSUME ~ s4', NEW x \in Tree!Existing'
             PROVE  (\E g \in Tree!ancestors(x)' : s1'[g] = Root) /\ Tree!depth(x)' <= MaxDepth
  BY DEF Tree!TreeUnlessOverlapped
<1>1. Tree!ancestors(x)' = Tree!ancestors(x) /\ Tree!depth(x)' = Tree!depth(x) /\ x \in Tree!Existing
  BY PathsStand
<1>2. PICK g \in Tree!ancestors(x) : s1[g] = Root
  BY <1>1 DEF Tree!TreeUnlessOverlapped
<1>3. Tree!ancestors(x)' \subseteq Tree!Existing'
  BY AboveLater DEF AncestorsFit
<1>4. s1'[g] = Root
  BY <1>1, <1>2, <1>3
<1> QED BY <1>1, <1>2, <1>4 DEF Tree!TreeUnlessOverlapped

\* The invariant holds initially.
LEMMA FoldersBegin == ASSUME Tree!FolderInit PROVE Tree!FolderInv
<1>1. FoldersFit
  BY FolderInitially DEF FoldersFit
<1>2. \A t \in Txs : s3[t].op = "none"
  BY DEF Tree!FolderInit, Tree!NoTx
<1>3. Tree!Existing = {}
  BY DEF Tree!FolderInit, Tree!Existing
<1> QED BY <1>1, <1>2, <1>3 DEF Tree!FolderInv, FoldersFit, Tree!RowsAreLocked, Tree!PlacesFit, Tree!TreeUnlessOverlapped

\* The end of a transaction that places no folder keeps the invariant.
LEMMA TxEnds ==
  ASSUME Tree!FolderInv, FoldersFit', NEW t \in Txs, Tree!Ends(t),
         Tree!Existing' \subseteq Tree!Existing, \A x \in Tree!Existing' : s1'[x] = s1[x],
         Tree!Existing' = Tree!Existing \/ (s3[t].op = "delete" /\ Tree!Existing \subseteq Tree!Existing' \cup {s3[t].what})
  PROVE  Tree!FolderInv'
<1>1. /\ FoldersFit /\ Tree!RowsAreLocked /\ Tree!PlacesFit /\ Tree!TreeUnlessOverlapped
      /\ Tree!Existing \subseteq Folders /\ Tree!Existing' \subseteq Folders
  BY DEF Tree!FolderInv, FoldersFit, Tree!Existing
<1>2. (\A u \in Txs \ {t} : s3'[u] = s3[u]) /\ s3'[t].op = "none" /\ s4' = s4
  BY <1>1, FolderParts DEF FoldersFit, Tree!Ends, Tree!NoTx
<1>3. Tree!TreeUnlessOverlapped'
  BY <1>1, <1>2, TreeStands
<1>4. \A u \in Txs \ {t} : s3[u].op \in {"create", "move", "delete"} => (s3[u].what \in Tree!Existing <=> s3[u].what \in Tree!Existing')
  BY <1>1 DEF Tree!RowsAreLocked
<1>5. Tree!RowsAreLocked'
  <2>1. \A u \in Txs : s3'[u].op \in {"move", "delete"} => s3'[u].what \in Tree!Existing'
    BY <1>1, <1>2, <1>4 DEF Tree!RowsAreLocked
  <2>2. \A u \in Txs : s3'[u].op = "create" => s3'[u].what \in Folders \ Tree!Existing'
    BY <1>1, <1>2, <1>4 DEF Tree!RowsAreLocked
  <2>3. \A v, u \in Txs : {s3'[v].op, s3'[u].op} \subseteq {"create", "move", "delete"} /\ s3'[v].what = s3'[u].what => v = u
    BY <1>1, <1>2 DEF Tree!RowsAreLocked
  <2> QED BY <2>1, <2>2, <2>3 DEF Tree!RowsAreLocked
<1>6. Tree!PlacesFit'
  <2> SUFFICES ASSUME ~ s4', NEW v \in Txs, s3'[v].op \in {"create", "move"}
               PROVE  /\ \A u \in Txs : s3'[u].op \in {"create", "move"} => v = u
                      /\ \A f \in Folders, to \in Tree!Existing' \cup {Root} :
                           s3'[v].what = f /\ s3'[v].to = to => Tree!acceptsParent(f, to)'
    BY DEF Tree!PlacesFit
  <2>1. v # t /\ s3'[v] = s3[v] /\ ~ s4
    BY <1>2
  <2>2. \A u \in Txs : s3'[u].op \in {"create", "move"} => v = u
    BY <1>1, <1>2, <2>1 DEF Tree!PlacesFit
  <2>3. ASSUME NEW f \in Folders, NEW to \in Tree!Existing' \cup {Root}, s3'[v].what = f, s3'[v].to = to
        PROVE  Tree!acceptsParent(f, to)'
    <3>1. Tree!acceptsParent(f, to)
      BY <1>1, <2>1, <2>3 DEF Tree!PlacesFit
    <3>2. f \in Tree!Existing <=> f \in Tree!Existing'
      BY <1>4, <2>1, <2>3
    <3> QED BY <1>1, <3>1, <3>2, StillAccepted
  <2> QED BY <2>2, <2>3
<1> QED BY <1>1, <1>3, <1>5, <1>6 DEF Tree!FolderInv, FoldersFit

\* The beginning of a transaction keeps it.
LEMMA TxBegins ==
  ASSUME Tree!FolderInv, FoldersFit', UNCHANGED s1,
         NEW t \in Txs, NEW op \in {"create", "move", "delete", "organize"}, NEW what, NEW to \in Tree!MediaFolder, Tree!Begins(t, op, what, to),
         op = "create" => what \in Folders \ Tree!Existing /\ \A u \in Txs : s3[u].what # what,
         op \in {"move", "delete"} => what \in Tree!Existing /\ ~ Tree!LockedByOther(t, what),
         op \in {"create", "move"} => Tree!acceptsParent(what, to)
  PROVE  Tree!FolderInv'
<1>1. /\ FoldersFit /\ Tree!RowsAreLocked /\ Tree!PlacesFit /\ Tree!TreeUnlessOverlapped
      /\ Tree!Existing \subseteq Folders /\ Tree!Existing' = Tree!Existing
  BY DEF Tree!FolderInv, FoldersFit, Tree!Existing
<1>2. PICK x : x = [op |-> op, what |-> what, to |-> to]
  OBVIOUS
<1>3. x.op = op /\ x.what = what /\ x.to = to
  BY <1>2
<1>4. (\A u \in Txs \ {t} : s3'[u] = s3[u]) /\ s3'[t] = x
  BY <1>1, <1>2, FolderParts DEF FoldersFit, Tree!Begins
<1>5. /\ ~ s4' => ~ s4
      /\ (~ s4' /\ op \in {"create", "move"}) => \A u \in Txs \ {t} : s3[u].op \notin {"create", "move"}
  BY FolderParts, <1>1 DEF Tree!Begins
<1>6. Tree!TreeUnlessOverlapped'
  BY <1>1, <1>5, TreeStands
<1>7. Tree!RowsAreLocked'
  <2>1. \A u \in Txs : s3'[u].op \in {"move", "delete"} => s3'[u].what \in Tree!Existing'
    BY <1>1, <1>3, <1>4 DEF Tree!RowsAreLocked
  <2>2. \A u \in Txs : s3'[u].op = "create" => s3'[u].what \in Folders \ Tree!Existing'
    BY <1>1, <1>3, <1>4 DEF Tree!RowsAreLocked
  <2>3. \A u \in Txs \ {t} : op \in {"create", "move", "delete"} /\ s3[u].op \in {"create", "move", "delete"} => s3[u].what # what
    BY <1>1 DEF Tree!RowsAreLocked, Tree!LockedByOther
  <2>4. \A v, u \in Txs : {s3'[v].op, s3'[u].op} \subseteq {"create", "move", "delete"} /\ s3'[v].what = s3'[u].what => v = u
    BY <1>1, <1>3, <1>4, <2>3 DEF Tree!RowsAreLocked
  <2> QED BY <2>1, <2>2, <2>4 DEF Tree!RowsAreLocked
<1>8. Tree!PlacesFit'
  <2> SUFFICES ASSUME ~ s4', NEW v \in Txs, s3'[v].op \in {"create", "move"}
               PROVE  /\ \A u \in Txs : s3'[u].op \in {"create", "move"} => v = u
                      /\ \A f \in Folders, p \in Tree!Existing' \cup {Root} :
                           s3'[v].what = f /\ s3'[v].to = p => Tree!acceptsParent(f, p)'
    BY DEF Tree!PlacesFit
  <2>1. \A u \in Txs : s3'[u].op \in {"create", "move"} => v = u
    BY <1>1, <1>3, <1>4, <1>5 DEF Tree!PlacesFit
  <2>2. ASSUME NEW f \in Folders, NEW p \in Tree!Existing' \cup {Root}, s3'[v].what = f, s3'[v].to = p
        PROVE  Tree!acceptsParent(f, p)'
    <3>1. Tree!acceptsParent(f, p)
      BY <1>1, <1>3, <1>4, <1>5, <2>2 DEF Tree!PlacesFit
    <3> QED BY <1>1, <3>1, StillAccepted
  <2> QED BY <2>1, <2>2
<1> QED BY <1>1, <1>6, <1>7, <1>8 DEF Tree!FolderInv, FoldersFit

\* So does the write that places a folder.
LEMMA Placed ==
  ASSUME Tree!FolderInv, FoldersFit', NEW t \in Txs, Tree!place(t)
  PROVE  Tree!FolderInv'
<1>1. /\ FoldersFit /\ Tree!RowsAreLocked /\ Tree!PlacesFit /\ Tree!TreeUnlessOverlapped
  BY DEF Tree!FolderInv, FoldersFit
<1>2. PICK f, to : f = s3[t].what /\ to = s3[t].to
  OBVIOUS
<1>3. /\ s3[t].op \in {"create", "move"} /\ Tree!Ends(t)
      /\ s1' = IF to \in Tree!Existing \cup {Root} THEN [s1 EXCEPT ![f] = to] ELSE s1
  BY <1>2 DEF Tree!place
<1>4. CASE to \notin Tree!Existing \cup {Root}
  <2>1. s1' = s1
    BY <1>3, <1>4
  <2>2. Tree!Existing' = Tree!Existing /\ \A x \in Tree!Existing' : s1'[x] = s1[x]
    BY <2>1 DEF Tree!Existing
  <2> QED BY <1>3, <2>2, TxEnds
<1>5. CASE to \in Tree!Existing \cup {Root}
  <2>1. f \in Folders
    BY <1>1, <1>2, <1>3 DEF Tree!RowsAreLocked, Tree!Existing
  <2>2. s1' = [s1 EXCEPT ![f] = to]
    BY <1>3, <1>5
  <2>3. (\A u \in Txs \ {t} : s3'[u] = s3[u]) /\ s3'[t].op = "none" /\ s4' = s4
    BY <1>1, <1>3, FolderParts DEF FoldersFit, Tree!Ends, Tree!NoTx
  <2>4. Tree!Existing' = Tree!Existing \cup {f}
    BY <1>1, <1>5, <2>1, <2>2, FolderAssumption, FolderParts DEF FoldersFit, Tree!Existing
  <2>5. Tree!RowsAreLocked'
    <3>1. \A u \in Txs \ {t} : s3[u].op \in {"create", "move", "delete"} => s3[u].what # f
      BY <1>1, <1>2, <1>3 DEF Tree!RowsAreLocked
    <3>2. \A u \in Txs : s3'[u].op \in {"move", "delete"} => s3'[u].what \in Tree!Existing'
      BY <1>1, <2>3, <2>4 DEF Tree!RowsAreLocked
    <3>3. \A u \in Txs : s3'[u].op = "create" => s3'[u].what \in Folders \ Tree!Existing'
      BY <1>1, <2>3, <2>4, <3>1 DEF Tree!RowsAreLocked
    <3>4. \A v, u \in Txs : {s3'[v].op, s3'[u].op} \subseteq {"create", "move", "delete"} /\ s3'[v].what = s3'[u].what => v = u
      BY <1>1, <2>3 DEF Tree!RowsAreLocked
    <3> QED BY <3>2, <3>3, <3>4 DEF Tree!RowsAreLocked
  <2>6. Tree!PlacesFit'
    <3>1. ~ s4' => \A v \in Txs : s3'[v].op \notin {"create", "move"}
      BY <1>1, <1>3, <2>3 DEF Tree!PlacesFit
    <3> QED BY <3>1 DEF Tree!PlacesFit
  <2>7. ASSUME ~ s4', NEW x \in Tree!Existing'
        PROVE  (\E g \in Tree!ancestors(x)' : s1'[g] = Root) /\ Tree!depth(x)' <= MaxDepth
    <3>1. ~ s4
      BY <2>3, <2>7
    <3>2. Tree!acceptsParent(f, to)
      BY <1>1, <1>2, <1>3, <1>5, <2>1, <3>1 DEF Tree!PlacesFit
    <3>3. Topped /\ \A y \in Tree!Existing : Tree!depth(y) <= MaxDepth
      BY <1>1, <3>1 DEF Tree!TreeUnlessOverlapped, Topped
    <3> QED BY <1>1, <1>5, <2>1, <2>2, <3>2, <3>3, StillTopped, StillBounded
  <2>8. Tree!TreeUnlessOverlapped'
    BY <2>7 DEF Tree!TreeUnlessOverlapped
  <2> QED BY <2>5, <2>6, <2>8 DEF Tree!FolderInv, FoldersFit
<1> QED BY <1>4, <1>5

\* Every step keeps it.
LEMMA FoldersGoOn == ASSUME Tree!FolderInv, Tree!FolderNext PROVE Tree!FolderInv'
<1>1. FoldersFit /\ FoldersFit'
  BY FolderKeeps DEF Tree!FolderInv, FoldersFit
<1>2. ASSUME NEW t \in Txs, Tree!deleteIfEmpty(t) PROVE Tree!FolderInv'
  <2>1. PICK f : f = s3[t].what
    OBVIOUS
  <2>2. s3[t].op = "delete" /\ Tree!Ends(t) /\ (UNCHANGED s1 \/ s1' = [s1 EXCEPT ![f] = Nowhere])
    BY <1>2, <2>1 DEF Tree!deleteIfEmpty
  <2>3. /\ Tree!Existing' \subseteq Tree!Existing /\ Tree!Existing \subseteq Tree!Existing' \cup {f}
        /\ \A x \in Tree!Existing' : s1'[x] = s1[x]
    BY <1>1, <2>2, FolderParts DEF FoldersFit, Tree!Existing
  <2> QED BY <1>1, <2>1, <2>2, <2>3, TxEnds
<1>3. ASSUME NEW t \in Txs, Tree!rollback(t) \/ Tree!applyMediaOrganizationMutation(t) PROVE Tree!FolderInv'
  <2>1. Tree!Ends(t) /\ s1' = s1
    BY <1>3 DEF Tree!rollback, Tree!applyMediaOrganizationMutation
  <2>2. Tree!Existing' = Tree!Existing /\ \A x \in Tree!Existing' : s1'[x] = s1[x]
    BY <2>1 DEF Tree!Existing
  <2> QED BY <1>1, <2>1, <2>2, TxEnds
<1>4. ASSUME NEW t \in Txs, NEW f \in Folders, Tree!deleteFolder(t, f) PROVE Tree!FolderInv'
  <2>1. f \in Tree!Existing /\ ~ Tree!LockedByOther(t, f) /\ Tree!Begins(t, "delete", f, Root) /\ UNCHANGED s1 /\ Root \in Tree!MediaFolder
    BY <1>4 DEF Tree!deleteFolder, Tree!MediaFolder
  <2> QED BY <1>1, <2>1, TxBegins
<1>5. ASSUME NEW t \in Txs, NEW f \in Folders, NEW to \in Tree!MediaFolder, Tree!createFolder(t, f, to) PROVE Tree!FolderInv'
  <2>1. /\ f \in Folders \ Tree!Existing /\ (\A u \in Txs : s3[u].what # f) /\ Tree!acceptsParent(f, to)
        /\ Tree!Begins(t, "create", f, to) /\ UNCHANGED s1
    BY <1>5 DEF Tree!createFolder
  <2> QED BY <1>1, <2>1, TxBegins
<1>6. ASSUME NEW t \in Txs, NEW f \in Folders, NEW to \in Tree!MediaFolder, Tree!updateFolder(t, f, to) PROVE Tree!FolderInv'
  <2>1. f \in Tree!Existing /\ ~ Tree!LockedByOther(t, f) /\ Tree!acceptsParent(f, to) /\ Tree!Begins(t, "move", f, to) /\ UNCHANGED s1
    BY <1>6 DEF Tree!updateFolder
  <2> QED BY <1>1, <2>1, TxBegins
<1>7. ASSUME NEW t \in Txs, NEW a \in Files, NEW to \in Tree!MediaFolder, Tree!bulkOrganize(t, a, to) PROVE Tree!FolderInv'
  <2>1. Tree!Begins(t, "organize", a, to) /\ UNCHANGED s1
    BY <1>7 DEF Tree!bulkOrganize
  <2> QED BY <1>1, <2>1, TxBegins
<1> QED BY <1>1, <1>2, <1>3, <1>4, <1>5, <1>6, <1>7, Placed DEF Tree!FolderNext

\* So does a step of another component.
LEMMA FoldersStand == ASSUME Tree!FolderInv, UNCHANGED Tree!folderVars PROVE Tree!FolderInv'
<1>1. /\ FoldersFit /\ Tree!RowsAreLocked /\ Tree!PlacesFit /\ Tree!TreeUnlessOverlapped
      /\ s1' = s1 /\ s2' = s2 /\ s3' = s3 /\ s4' = s4
  BY DEF Tree!FolderInv, FoldersFit, Tree!folderVars
<1>2. Tree!Existing' = Tree!Existing
  BY <1>1 DEF Tree!Existing
<1>3. FoldersFit' /\ Tree!RowsAreLocked'
  BY <1>1, <1>2 DEF FoldersFit, Tree!FolderTypeOK, Tree!NothingInDeletedFolder, Tree!RowsAreLocked
<1>4. Tree!TreeUnlessOverlapped'
  BY <1>1, <1>2, <1>3, TreeStands
<1>5. ASSUME NEW f \in Folders, NEW to \in Tree!Existing' \cup {Root}, Tree!acceptsParent(f, to) PROVE Tree!acceptsParent(f, to)'
  BY <1>1, <1>2, <1>3, <1>5, StillAccepted
<1>6. Tree!PlacesFit'
  BY <1>1, <1>2, <1>5 DEF Tree!PlacesFit
<1> QED BY <1>3, <1>4, <1>6 DEF Tree!FolderInv, FoldersFit

-----------------------------------------------------------------------------
(* Proofs.  The components together.                                       *)

\* The invariant of the component that Init chose.
StudioParties ==
  /\ component \in {"boards", "tasks", "runtimes", "agent posts", "panel", "media", "folders", "studio", "captures"}
  /\ component = "boards"      => Board!BoardInv
  /\ component = "tasks"       => Task!TaskInv
  /\ component = "runtimes"    => Agents!RuntimeInv
  /\ component = "agent posts" => Post!PostInv
  /\ component = "panel"       => Panel!PanelInv
  /\ component = "media"       => Media!MediaInv
  /\ component = "folders"     => Tree!FolderInv
  /\ component = "studio"      => Studio!StudioInv
  /\ component = "captures"    => Share!ShareInv

\* It holds initially.
LEMMA PartiesBegin == Init => StudioParties
  BY BoardInitially, TaskInitially, RuntimeInitially, AgentPostInitially, PanelInitially, MediaInitially,
     FoldersBegin, StudioInitially, ShareInitially DEF Init, StudioParties

\* A step is a step of the component that Init chose, or of none.
LEMMA PartiesStep ==
  ASSUME [Next]_vars
  PROVE  /\ UNCHANGED component
         /\ component = "boards"      => [Board!BoardNext]_Board!boardVars
         /\ component = "tasks"       => [Task!TaskNext]_Task!taskVars
         /\ component = "runtimes"    => [Agents!RuntimeNext]_Agents!runtimeVars
         /\ component = "agent posts" => [Post!AgentPostNext]_Post!agentPostVars
         /\ component = "panel"       => [Panel!PanelNext]_Panel!panelVars
         /\ component = "media"       => [Media!MediaNext]_Media!mediaVars
         /\ component = "folders"     => [Tree!FolderNext]_Tree!folderVars
         /\ component = "studio"      => [Studio!StudioNext]_Studio!studioVars
         /\ component = "captures"    => [Share!ShareNext]_Share!shareVars
<1>1. CASE UNCHANGED vars
  BY <1>1 DEF vars, Board!boardVars, Task!taskVars, Agents!runtimeVars, Post!agentPostVars, Panel!panelVars,
     Media!mediaVars, Tree!folderVars, Studio!studioVars, Share!shareVars
<1>2. CASE Next
  BY <1>2 DEF Next, BoardSteps, TaskSteps, RuntimeSteps, AgentPostSteps, PanelSteps, MediaSteps, FolderSteps,
     StudioSteps, ShareSteps
<1> QED BY <1>1, <1>2

\* A component that nobody moves keeps its invariant.
LEMMA PartiesStand ==
  /\ Agents!RuntimeInv /\ UNCHANGED Agents!runtimeVars => Agents!RuntimeInv'
  /\ Studio!StudioInv /\ UNCHANGED Studio!studioVars => Studio!StudioInv'
  /\ Share!ShareInv /\ UNCHANGED Share!shareVars => Share!ShareInv'
<1>1. ASSUME Agents!RuntimeInv, UNCHANGED Agents!runtimeVars PROVE Agents!RuntimeInv'
  <2>1. UNCHANGED <<s1, s2, s3, s4, s5, s6, s7, s8>>
    BY <1>1 DEF Agents!runtimeVars
  <2>2. (\A o \in RuntimeOperations : Agents!OpFits(s5[o]))'
    BY <1>1, <2>1 DEF Agents!RuntimeInv, Agents!OpFits, Agents!Seen, Agents!RevisionFits, Agents!TestFits,
       Agents!CallFits, Agents!Exists, Agents!atVersion
  <2>3. (Agents!RuntimeTypeOK /\ Agents!CalledIsKnown)'
    BY <1>1, <2>1 DEF Agents!RuntimeInv, Agents!RuntimeTypeOK, Agents!CalledIsKnown
  <2>4. (Agents!HealthyWasTested /\ Agents!OnlyTestedIsCalled /\ Agents!PersonalStaysPersonal)'
    BY <1>1, <2>1 DEF Agents!RuntimeInv, Agents!HealthyWasTested, Agents!OnlyTestedIsCalled,
       Agents!PersonalStaysPersonal, Agents!Exists
  <2> QED BY <2>2, <2>3, <2>4 DEF Agents!RuntimeInv
<1>2. ASSUME Studio!StudioInv, UNCHANGED Studio!studioVars PROVE Studio!StudioInv'
  BY <1>2 DEF Studio!studioVars, Studio!StudioInv, Studio!StudioTypeOK, Studio!ProjectFits, Studio!RenderFits,
     Studio!RendererFits
<1>3. ASSUME Share!ShareInv, UNCHANGED Share!shareVars PROVE Share!ShareInv'
  BY <1>3 DEF Share!shareVars, Share!ShareInv, Share!ShareTypeOK, Share!NothingBefore, Share!ObjectFits,
     Share!NoLostObject, Share!ConvertedIsSaved, Share!OneSetOfChoices, Share!RequestFits, Share!Intaking
<1> QED BY <1>1, <1>2, <1>3

\* Every step keeps it.
LEMMA PartiesGoOn == ASSUME StudioParties, [Next]_vars PROVE StudioParties'
<1>1. /\ component = "media" => Media!MediaInv'
      /\ component = "panel" => Panel!PanelInv'
      /\ component = "tasks" => Task!TaskInv'
  BY PartiesStep, MediaMoves, PanelMoves, TasksGoOn DEF StudioParties
<1>2. /\ component = "boards" => Board!BoardInv'
      /\ component = "agent posts" => Post!PostInv'
  BY PartiesStep, BoardKeeps, AgentPostsGoOn DEF StudioParties
<1>3. /\ component = "runtimes" => Agents!RuntimeInv'
      /\ component = "studio" => Studio!StudioInv'
  BY PartiesStep, RuntimeKeeps, StudioKeeps, PartiesStand DEF StudioParties
<1>4. /\ component = "captures" => Share!ShareInv'
      /\ component = "folders" => Tree!FolderInv'
  BY PartiesStep, ShareKeeps, FoldersGoOn, FoldersStand, PartiesStand DEF StudioParties
<1> QED BY <1>1, <1>2, <1>3, <1>4, PartiesStep DEF StudioParties

\* The invariants of the components contain what they promise.
LEMMA PartiesShow ==
  StudioParties => TypesOK /\ AgentWorkIsReviewed /\ AppliedOnce /\ AgentsAreReady /\ FilesAreWhole
<1> SUFFICES ASSUME StudioParties
             PROVE  TypesOK /\ AgentWorkIsReviewed /\ AppliedOnce /\ AgentsAreReady /\ FilesAreWhole
  OBVIOUS
<1>1. /\ component = "boards" => /\ Board!BoardTypeOK /\ Board!DecisionAppliedOnce /\ Board!AppliedDecisionHappened
                                 /\ Board!ReadyIsSealed /\ Board!DeactivatedIsShut
      /\ component = "tasks" => /\ Task!TaskTypeOK /\ Task!InvokedOnce /\ Task!DependenciesFinished
                                /\ Task!ApprovedByAnother /\ Task!ActiveExecutionAnswers /\ Task!HandoffIsAResult
      /\ component = "runtimes" => /\ Agents!RuntimeTypeOK /\ Agents!HealthyWasTested
                                   /\ Agents!OnlyTestedIsCalled /\ Agents!PersonalStaysPersonal
  BY BoardHolds, TaskHolds, RuntimeHolds DEF StudioParties
<1>2. /\ component = "agent posts" => /\ Post!PostTypeOK /\ Post!PaidOnce /\ Post!OneDraftPerPost
                                      /\ Post!PublishedAsReviewed
      /\ component = "panel" => Panel!PanelTypeOK /\ Panel!PreviewIsOfTheForm /\ Panel!ScheduledAsShown
      /\ component = "media" => Media!MediaTypeOK /\ Media!ReadyIsDeclared /\ Media!ReadyKeepsObject
      /\ component = "folders" => /\ Tree!FolderTypeOK /\ Tree!NothingInDeletedFolder
                                  /\ Tree!TreeUnlessOverlapped
      /\ component = "studio" => /\ Studio!StudioTypeOK /\ Studio!OutputIsOfTheRevision
                                 /\ Studio!FinishedByItsLease
      /\ component = "captures" => /\ Share!ShareTypeOK /\ Share!ConvertedIsSaved /\ Share!OneSetOfChoices
                                   /\ Share!NoLostObject
  BY AgentPostsHold, PanelHolds, MediaHolds, StudioHolds, ShareHolds DEF StudioParties, Tree!FolderInv
<1>3. TypesOK
  BY <1>1, <1>2 DEF TypesOK, StudioParties
<1>4. AgentWorkIsReviewed /\ AppliedOnce /\ AgentsAreReady
  BY <1>1, <1>2 DEF AgentWorkIsReviewed, AppliedOnce, AgentsAreReady
<1>5. FilesAreWhole
  BY <1>2 DEF FilesAreWhole
<1> QED BY <1>3, <1>4, <1>5

\* So it holds in every state of a behaviour.
LEMMA PartiesHold == Spec => []StudioParties
<1>1. StudioParties /\ [Next]_vars => StudioParties'
  BY PartiesGoOn
<1> QED BY <1>1, PartiesBegin, PTL DEF Spec

\* Every variable keeps its type, for any number of Boards' decisions, tasks, executions, runtimes, posts, files, folders,
\* renders and requests.
THEOREM StudioTypes == Spec => []TypesOK
  BY PartiesHold, PartiesShow, PTL

\* What agents make passes a person, for any number of tasks, people, executions, posts, workers and accounts.
THEOREM StudioReviews == Spec => []AgentWorkIsReviewed
  BY PartiesHold, PartiesShow, PTL

\* What must not be repeated happens once, for any number of decisions, deliveries, executions, posts and workers.
THEOREM StudioAppliesOnce == Spec => []AppliedOnce
  BY PartiesHold, PartiesShow, PTL

\* An agent that may be called is the agent that was set up, for any number of decisions, tasks, profiles and requests.
THEOREM StudioAgents == Spec => []AgentsAreReady
  BY PartiesHold, PartiesShow, PTL

\* Records and the files they speak of agree, for any finite number of folders and any number of files, transactions,
\* jobs, renders, renderers and shared captures.
THEOREM StudioFiles == Spec => []FilesAreWhole
  BY PartiesHold, PartiesShow, PTL

\* What is over does not come back, for any number of files, jobs and readers.
THEOREM StudioEnds == Spec => EndedStaysEnded
<1> DEFINE Stays == /\ component = "media" => Media!EndedStaysEnded
                    /\ component = "panel" => Panel!DetailNeverOlder
<1>1. StudioParties /\ [Next]_vars => StudioParties' /\ [Stays]_vars
  <2> SUFFICES ASSUME StudioParties, [Next]_vars PROVE [Stays]_vars
    BY PartiesGoOn
  <2>1. Stays
    BY PartiesStep, MediaEnded, PanelNewer DEF StudioParties
  <2> QED BY <2>1
<1> QED BY <1>1, PartiesBegin, PTL DEF Spec, EndedStaysEnded
=============================================================================
