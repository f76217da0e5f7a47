---------------------------- MODULE AgentRuntimes ---------------------------
(***************************************************************************)
(* The AI runtimes of a workspace: a profile says which endpoint, models   *)
(* and key to use; it is tested, assigned to the brand, and then used to   *)
(* write drafts, to review, and (for the owner's personal Codex) to        *)
(* research.  One brand; a profile's connection is a number that every     *)
(* change of its endpoint, model or key replaces.                          *)
(*                                                                         *)
(* The service reads a profile, calls the provider, and writes afterwards: *)
(* the version is what keeps the three together.  An operation is one      *)
(* request to the API, or one research job of the worker.                  *)
(***************************************************************************)
EXTENDS Naturals, FiniteSets

CONSTANTS
    Profiles,        \* identifiers of runtime profiles
    Members,         \* people of the workspace
    ConfiguredOwner, \* LOCAL_CODEX_OWNER_USER_ID
    Operations,      \* requests and jobs in flight
    NoProfile,       \* nothing assigned, nothing read
    MaxRuntimeVersion  \* bound on the versions of a profile

VARIABLES
    authMode,        \* AUTH_MODE of the installation
    profile,         \* agent_runtime_profiles
    assigned,        \* agent_runtime_assignments, of the one brand
    role,            \* workspace memberships: "owner", "editor" or "none"
    op,              \* per operation: its step and what it read
    ledger,          \* profiles named in agent_run_ledger
    tested,          \* history: <<profile, connection>> that passed a test
    called           \* history: <<profile, connection, person>> sent a prompt

runtimeVars == <<authMode, profile, assigned, role, op, ledger, tested, called>>

AgentRuntimePreset == {"openai", "custom", "codex-local"}
AgentRuntimeStatus == {"unverified", "healthy", "error", "disabled"}

AgentRuntimeProfile ==
    [preset : AgentRuntimePreset, createdBy : Members, version : 1..MaxRuntimeVersion,
     status : AgentRuntimeStatus, connection : 1..MaxRuntimeVersion, vision : BOOLEAN]

NoRuntime == [preset |-> "none"]
RemovedRuntime == [preset |-> "removed"]       \* identifiers are never reused
Exists(p) == profile[p].preset \in AgentRuntimePreset

Operation ==
    [pc : {"idle", "update", "inspect", "vision", "passed", "failed", "assign", "provider",
           "answered", "context"},
     actor : Members, id : Profiles \cup {NoProfile}, read : AgentRuntimeProfile \cup {NoRuntime},
     at : 0..MaxRuntimeVersion]

IdleOp == [pc |-> "idle", actor |-> ConfiguredOwner, id |-> NoProfile,
           read |-> NoRuntime, at |-> 0]

RuntimeTypeOK ==
    /\ authMode \in {"single-user", "sessions"}
    /\ profile \in [Profiles -> AgentRuntimeProfile \cup {NoRuntime, RemovedRuntime}]
    /\ assigned \in Profiles \cup {NoProfile}
    /\ role \in [Members -> {"owner", "editor", "none"}]
    /\ op \in [Operations -> Operation]
    /\ ledger \subseteq Profiles
    /\ tested \subseteq Profiles \X (1..MaxRuntimeVersion)
    /\ called \subseteq Profiles \X (1..MaxRuntimeVersion) \X Members

RuntimeInit ==
    /\ authMode \in {"single-user", "sessions"}
    /\ profile = [p \in Profiles |-> NoRuntime]
    /\ assigned = NoProfile
    /\ role \in {f \in [Members -> {"owner", "editor", "none"}] :
                  /\ f[ConfiguredOwner] = "owner"
                  /\ \A m \in Members \ {ConfiguredOwner} :
                        (authMode = "single-user") <=> (f[m] = "none")}
    /\ op = [o \in Operations |-> IdleOp]
    /\ ledger = {} /\ tested = {} /\ called = {}

-----------------------------------------------------------------------------
(* Who may use what.                                                       *)

\* Mutant: any workspace owner may use the personal runtime.
canUseAsOwner(actor) == authMode = "single-user" \/ role[actor] = "owner"

\* A personal runtime belongs to exactly one configured session owner.
canUseLocalCodex(actor) ==
    \/ authMode = "single-user"
    \/ actor = ConfiguredOwner /\ role[actor] = "owner"

\* assertSafe, for the personal runtime; other endpoints are checked against
\* the network, which may refuse anything.
assertSafe(q, actor) ==
    q.preset = "codex-local" =>
        /\ canUseLocalCodex(actor)
        /\ authMode = "sessions" => q.createdBy = actor

mayManage(actor) == role[actor] = "owner"

createAgentRuntimeProfile(preset, actor, vision) ==
    [preset |-> preset, createdBy |-> actor, version |-> 1, status |-> "unverified",
     connection |-> 1, vision |-> vision]

\* A revision names what it changes: the name only, the connection, or
\* whether the profile is disabled.
reviseAgentRuntimeProfile(q, change) ==
    [q EXCEPT !.version = @ + 1,
              !.connection = IF change = "connection" THEN q.version + 1 ELSE @,
              !.status = CASE change = "disable" -> "disabled"
                           [] change = "enable" -> "unverified"
                           [] @ # "disabled" /\ change = "connection" -> "unverified"
                           [] OTHER -> @]

-----------------------------------------------------------------------------
(* The repository: every write is fenced by the version it expects.        *)

atVersion(p, v) == Exists(p) /\ profile[p].version = v

updateProfile(p, q, expected) ==
    IF atVersion(p, expected) THEN profile' = [profile EXCEPT ![p] = q]
                              ELSE UNCHANGED profile

\* Mutant: the result of a test is saved on whatever the profile is now.
healthOfAnyVersion(p, expected) == Exists(p)

healthFence(p, expected) == atVersion(p, expected)

updateHealth(p, expected, status) ==
    IF healthFence(p, expected)
    THEN profile' = [profile EXCEPT ![p].version = @ + 1, ![p].status = status]
    ELSE UNCHANGED profile

\* A profile used by a run cannot be deleted; its assignment goes with it.
removeProfile(p, expected) ==
    IF atVersion(p, expected) /\ p \notin ledger
    THEN /\ profile' = [profile EXCEPT ![p] = RemovedRuntime]
         /\ assigned' = IF assigned = p THEN NoProfile ELSE assigned
    ELSE UNCHANGED <<profile, assigned>>

getExecutionContext ==
    IF assigned # NoProfile /\ Exists(assigned) /\ profile[assigned].status = "healthy"
    THEN profile[assigned] ELSE NoRuntime

-----------------------------------------------------------------------------
(* The service, one request at a time.                                     *)

go(o, r) == op' = [op EXCEPT ![o] = r]
end(o) == go(o, IdleOp)
hist == <<tested, called>>
room(p) == profile[p].version < MaxRuntimeVersion

create(o, actor) ==
    /\ op[o].pc = "idle" /\ mayManage(actor)
    /\ \E p \in Profiles, preset \in AgentRuntimePreset, vision \in BOOLEAN :
        LET q == createAgentRuntimeProfile(preset, actor, vision) IN
        /\ profile[p] = NoRuntime
        /\ assertSafe(q, actor)
        /\ profile' = [profile EXCEPT ![p] = q]
    /\ UNCHANGED <<authMode, assigned, role, op, ledger, hist>>

\* The owner edits a profile seen at some version; the profile is read anew,
\* and the revision is saved only on the version the owner saw.
StartUpdate(o, actor) ==
    /\ op[o].pc = "idle" /\ mayManage(actor)
    /\ \E p \in Profiles, change \in {"name", "connection", "disable", "enable"} :
        /\ Exists(p) /\ room(p)
        /\ LET q == reviseAgentRuntimeProfile(profile[p], change) IN
           /\ assertSafe(q, actor)
           /\ go(o, [IdleOp EXCEPT !.pc = "update", !.id = p, !.read = q,
                                !.at = profile[p].version])
    /\ UNCHANGED <<authMode, profile, assigned, role, ledger, hist>>

update(o) ==
    /\ op[o].pc = "update"
    /\ updateProfile(op[o].id, op[o].read, op[o].at)
    /\ end(o)
    /\ UNCHANGED <<authMode, assigned, role, ledger, hist>>

\* provider(): the profile and its key are read; a version that moved since
\* the caller looked refuses the call.
\* Mutant: the configuration found is used, whatever was looked at.
providerOfAnyVersion(p, expected) == Exists(p)

providerFence(p, expected) == expected = 0 \/ profile[p].version = expected

provider(p, expected, actor) ==
    /\ Exists(p)
    /\ providerFence(p, expected)
    /\ assertSafe(profile[p], actor)

StartTest(o, actor) ==
    /\ op[o].pc = "idle" /\ mayManage(actor)
    /\ \E p \in Profiles :
        /\ provider(p, 0, actor) /\ room(p)
        /\ go(o, [pc |-> "inspect", actor |-> actor, id |-> p, read |-> profile[p],
                  at |-> profile[p].version])
    /\ UNCHANGED <<authMode, profile, assigned, role, ledger, hist>>

\* inspect(): the provider lists the model, or it does not.
inspect(o) ==
    /\ op[o].pc = "inspect"
    /\ \E ok \in BOOLEAN :
        go(o, [op[o] EXCEPT !.pc = IF ~ok THEN "failed"
                                   ELSE IF op[o].read.vision THEN "vision" ELSE "passed"])
    /\ UNCHANGED <<authMode, profile, assigned, role, ledger, hist>>

\* The vision model is inspected and shown three colours; a profile that
\* changed since, or is gone, ends the test without a verdict.
probeImageInput(o) ==
    /\ op[o].pc = "vision"
    /\ IF provider(op[o].id, op[o].at, op[o].actor)
       THEN \E ok \in BOOLEAN :
                go(o, [op[o] EXCEPT !.pc = IF ok THEN "passed" ELSE "failed"])
       ELSE end(o)
    /\ UNCHANGED <<authMode, profile, assigned, role, ledger, hist>>

test(o) ==
    /\ op[o].pc \in {"passed", "failed"}
    /\ updateHealth(op[o].id, op[o].at, IF op[o].pc = "passed" THEN "healthy" ELSE "error")
    /\ tested' = IF op[o].pc = "passed"
                 THEN tested \cup {<<op[o].id, op[o].read.connection>>} ELSE tested
    /\ end(o)
    /\ UNCHANGED <<authMode, assigned, role, ledger, called>>

\* The profile is read and checked; whether it is healthy is checked by the
\* statement that assigns it.
StartAssign(o, actor) ==
    /\ op[o].pc = "idle" /\ mayManage(actor)
    /\ \E p \in Profiles :
        /\ Exists(p) /\ assertSafe(profile[p], actor)
        /\ go(o, [IdleOp EXCEPT !.pc = "assign", !.id = p])
    /\ UNCHANGED <<authMode, profile, assigned, role, ledger, hist>>

assign(o) ==
    /\ op[o].pc = "assign"
    /\ assigned' = IF Exists(op[o].id) /\ profile[op[o].id].status = "healthy"
                   THEN op[o].id ELSE assigned
    /\ end(o)
    /\ UNCHANGED <<authMode, profile, role, ledger, hist>>

unassign(o, actor) ==
    /\ op[o].pc = "idle" /\ mayManage(actor) /\ assigned # NoProfile
    /\ assigned' = NoProfile
    /\ UNCHANGED <<authMode, profile, role, op, ledger, hist>>

remove(o, actor) ==
    /\ op[o].pc = "idle" /\ mayManage(actor)
    /\ \E p \in Profiles :
        /\ Exists(p)
        /\ removeProfile(p, profile[p].version)
    /\ UNCHANGED <<authMode, role, op, ledger, hist>>

\* runText: the assignment's healthy profile is read ...
StartRun(o, actor) ==
    /\ op[o].pc = "idle" /\ role[actor] # "none"
    /\ getExecutionContext # NoRuntime
    /\ go(o, [pc |-> "provider", actor |-> actor, id |-> assigned,
              read |-> NoRuntime, at |-> getExecutionContext.version])
    /\ UNCHANGED <<authMode, profile, assigned, role, ledger, hist>>

\* ... and read again with its key, at the version that was healthy.
runText(o) ==
    /\ op[o].pc = "provider"
    /\ IF provider(op[o].id, op[o].at, op[o].actor)
       THEN /\ called' = called \cup
                 {<<op[o].id, profile[op[o].id].connection, op[o].actor>>}
            /\ go(o, [op[o] EXCEPT !.pc = "answered"])
       ELSE end(o) /\ UNCHANGED called
    /\ UNCHANGED <<authMode, profile, assigned, role, ledger, tested>>

\* The outcome is written to the ledger, unless the profile is gone.
recordRun(o) ==
    /\ op[o].pc = "answered"
    /\ ledger' = IF Exists(op[o].id) THEN ledger \cup {op[o].id} ELSE ledger
    /\ end(o)
    /\ UNCHANGED <<authMode, profile, assigned, role, hist>>

-----------------------------------------------------------------------------
(* The worker's research with the personal runtime.                        *)

\* Who a research job acts for: a schedule acts for its last editor, a manual
\* run only for the editor who asked for it.
monitorResearchActor(trigger, requestedBy, updatedBy) ==
    IF authMode = "single-user" THEN requestedBy
    ELSE IF trigger = "manual" /\ requestedBy # updatedBy THEN NoProfile
    ELSE updatedBy

\* The assignment and its profile are read, then the person's membership.
StartResearch(o) ==
    /\ op[o].pc = "idle"
    /\ assigned # NoProfile /\ Exists(assigned)
    /\ profile[assigned].preset = "codex-local"
    /\ \E trigger \in {"manual", "scheduled"}, requestedBy, updatedBy \in Members :
        LET actor == monitorResearchActor(trigger, requestedBy, updatedBy) IN
        /\ actor # NoProfile
        /\ authMode # "single-user" =>
            /\ profile[assigned].createdBy = actor
            /\ canUseLocalCodex(actor)
        /\ go(o, [pc |-> "context", actor |-> actor, id |-> assigned,
                  read |-> NoRuntime, at |-> 0])
    /\ UNCHANGED <<authMode, profile, assigned, role, ledger, hist>>

\* The context must still be that profile, healthy, with its key.
selectBrandSourcing(o) ==
    /\ op[o].pc = "context"
    /\ IF assigned = op[o].id /\ getExecutionContext # NoRuntime
       THEN called' = called \cup
              {<<op[o].id, getExecutionContext.connection, op[o].actor>>}
       ELSE UNCHANGED called
    /\ end(o)
    /\ UNCHANGED <<authMode, profile, assigned, role, ledger, tested>>

\* A membership changes or ends; the last owner stays.
ChangeRole(m) ==
    /\ authMode = "sessions"
    /\ \E r \in {"owner", "editor", "none"} :
        /\ r # role[m]
        /\ r = "owner" \/ \E n \in Members \ {m} : role[n] = "owner"
        /\ role' = [role EXCEPT ![m] = r]
    /\ UNCHANGED <<authMode, profile, assigned, op, ledger, hist>>

RuntimeNext ==
    \/ \E o \in Operations :
        \/ \E actor \in Members :
            \/ create(o, actor) \/ StartUpdate(o, actor) \/ StartTest(o, actor)
            \/ StartAssign(o, actor) \/ unassign(o, actor) \/ remove(o, actor)
            \/ StartRun(o, actor)
        \/ update(o) \/ inspect(o) \/ probeImageInput(o) \/ test(o) \/ assign(o)
        \/ runText(o) \/ recordRun(o) \/ StartResearch(o) \/ selectBrandSourcing(o)
    \/ \E m \in Members : ChangeRole(m)

RuntimeSpec == RuntimeInit /\ [][RuntimeNext]_runtimeVars

-----------------------------------------------------------------------------
(* Properties.                                                             *)

\* A profile is healthy only with the connection that passed a test: a test
\* that ends after the endpoint, model or key changed does not count for the
\* new one, and neither does a revision that changes them.
HealthyWasTested ==
    \A p \in Profiles :
        (Exists(p) /\ profile[p].status = "healthy") => <<p, profile[p].connection>> \in tested

\* Prompts go only to a connection that passed a test: the profile read with
\* its key is the one that was healthy a read earlier.
OnlyTestedIsCalled == \A c \in called : <<c[1], c[2]>> \in tested

\* With sessions, the personal Codex runs for its configured owner alone:
\* neither a colleague's draft, a monitor edited by somebody else, nor an
\* assignment by another owner borrows it.
PersonalStaysPersonal ==
    authMode = "sessions" =>
        \A c \in called :
            (Exists(c[1]) /\ profile[c[1]].preset = "codex-local") => c[3] = ConfiguredOwner

-----------------------------------------------------------------------------
(* The inductive invariant: what was read of a profile still describes it  *)
(* as long as its version is the one that was read.                        *)

Seen(r) ==
    r.pc # "idle" =>
        /\ r.id \in Profiles /\ profile[r.id] # NoRuntime
        /\ Exists(r.id) => r.at <= profile[r.id].version

\* A revision keeps what was tested, unless it is for another connection.
RevisionFits(r) ==
    r.pc = "update" =>
        /\ r.read \in AgentRuntimeProfile /\ r.at + 1 \in 1..MaxRuntimeVersion /\ r.read.version = r.at + 1
        /\ atVersion(r.id, r.at) =>
               /\ r.read.preset = profile[r.id].preset
               /\ r.read.status = "healthy" =>
                      profile[r.id].status = "healthy" /\ r.read.connection = profile[r.id].connection

TestFits(r) ==
    r.pc \in {"inspect", "vision", "passed", "failed"} =>
        /\ r.read \in AgentRuntimeProfile /\ r.at + 1 \in 1..MaxRuntimeVersion
        /\ atVersion(r.id, r.at) => profile[r.id] = r.read

\* A run reads the key of the version that was healthy, and research acts for the owner.
CallFits(r) ==
    /\ r.pc = "provider" =>
           r.at # 0 /\ (atVersion(r.id, r.at) => profile[r.id].status = "healthy")
    /\ r.pc = "context" =>
           (authMode = "sessions" /\ Exists(r.id) /\ profile[r.id].preset = "codex-local" => r.actor = ConfiguredOwner)

OpFits(r) == Seen(r) /\ RevisionFits(r) /\ TestFits(r) /\ CallFits(r)

\* What was called was there, and stays the kind of runtime it was.
CalledIsKnown == \A c \in called : profile[c[1]] # NoRuntime

RuntimeInv ==
    /\ RuntimeTypeOK
    /\ \A o \in Operations : OpFits(op[o])
    /\ HealthyWasTested /\ OnlyTestedIsCalled /\ PersonalStaysPersonal /\ CalledIsKnown
=============================================================================
