---------------------------- MODULE PostingQueues ----------------------------
(***************************************************************************)
(* The calendar of one connected account: direct scheduling, the weekly    *)
(* queue and rescheduling, each with the conflict check that is shown to a *)
(* person first and made again under the account's lock.  A transaction    *)
(* that holds the lock is one step; what a request read before it may be   *)
(* old by then.                                                            *)
(***************************************************************************)
EXTENDS Integers, Sequences, FiniteSetsExt

CONSTANTS Items,      \* content items, each with one approved draft
          Requests, NoRequest,
          Times,      \* instants: minutes of the calendar
          Window,     \* the minutes within which two posts of an account overlap
          Weeks,      \* the sets of slots that a manager may save
          Gap,        \* wall-clock times that a change of the clock skips
          MaxWrites   \* bound of the exploration: targets and changes of the profile together

VARIABLES now, profile,
          targets,    \* publish targets, in the order they were made
          edits,      \* the version of a content item
          requests

queueVars == <<now, profile, targets, edits, requests>>

AccountPostingQueueProfile == [version : 1..(MaxWrites + 1), enabled : BOOLEAN, slots : Weeks]

\* "queued" stands for the statuses before publishing (pending, action required, acknowledged).
activeStatuses == {"queued", "publishing"}

PublishTarget == [item : Items, at : Times, status : activeStatuses \cup {"cancelled", "published"},
                  queue : Requests \cup {NoRequest},   \* the key of the reservation, when the queue assigned the time
                  reviewed : SUBSET (1..MaxWrites)]   \* the conflicts that a person had seen

ScheduleRequest == [op : {"schedule", "next", "reschedule"}, item : Items, at : Times, version : Nat, profile : 1..(MaxWrites + 1),
                    moved : 0..MaxWrites, acknowledged : SUBSET ((1..MaxWrites) \X activeStatuses)]

Targets == DOMAIN targets

QueueTypeOK ==
  /\ now \in Nat /\ profile \in AccountPostingQueueProfile
  /\ targets \in Seq(PublishTarget) /\ Len(targets) + profile.version <= MaxWrites + 1
  /\ edits \in [Items -> Nat] /\ requests \in [Requests -> ScheduleRequest \cup {NoRequest}]

QueueInit ==
  /\ now = 0 /\ profile \in [version : {1}, enabled : {TRUE}, slots : Weeks]
  /\ targets = <<>> /\ edits = [i \in Items |-> 0] /\ requests = [q \in Requests |-> NoRequest]

-----------------------------------------------------------------------------
Active == {t \in Targets : targets[t].status \in activeStatuses}

Near(s, t) == IF s < t THEN t - s < Window ELSE s - t < Window

\* Active targets of the account with the same draft, or closer than the window; each with its status.
inspectScheduleConflicts(item, at, moved) ==
  {<<t, targets[t].status>> : t \in {u \in Active \ {moved} : targets[u].item = item \/ Near(targets[u].at, at)}}

\* Mutant: the check that the service made before the lock is trusted.
acknowledgedBefore(q, at) == requests[q].at = at

\* What was acknowledged, the time and the set of conflicts with their statuses, is what there is now.
assertScheduleConflictAcknowledgement(q, at) ==
  LET conflicts == inspectScheduleConflicts(requests[q].item, at, requests[q].moved) IN
    conflicts = {} \/ (conflicts = requests[q].acknowledged /\ at = requests[q].at)

\* Mutant: any future slot is offered.
resolveOccupied == {at \in profile.slots \ Gap : at > now}

\* The slots of the profile that are ahead, exist on the clock, and are not taken by an active target.
resolvePostingQueue == {at \in profile.slots \ Gap : at > now /\ \A t \in Active : targets[t].at # at}

-----------------------------------------------------------------------------
timePasses ==
  /\ now < Max(Times) /\ now' = now + 1
  /\ UNCHANGED <<profile, targets, edits, requests>>

\* The manager saw the current version; targets that are scheduled stay.
saveProfile(slots, enabled) ==
  /\ profile.version + Len(targets) <= MaxWrites /\ (enabled => slots # {})
  /\ profile' = [version |-> profile.version + 1, enabled |-> enabled, slots |-> slots]
  /\ UNCHANGED <<now, targets, edits, requests>>

\* The browser's check: item, conflicts and, for the queue, the preview's first slot are read and shown.
schedulePreflight(q, op, item, at, moved) ==
  /\ requests[q] = NoRequest /\ at > now
  /\ op = "next" => profile.enabled /\ resolvePostingQueue # {} /\ at = Min(resolvePostingQueue)
  /\ IF op = "reschedule" THEN moved \in Active /\ targets[moved].status = "queued" /\ targets[moved].item = item ELSE moved = 0
  /\ requests' = [requests EXCEPT ![q] =
       [op |-> op, item |-> item, at |-> at, version |-> edits[item], profile |-> profile.version, moved |-> moved,
        acknowledged |-> inspectScheduleConflicts(item, at, moved)]]
  /\ UNCHANGED <<now, profile, targets, edits>>

\* The item, a target and, for a move, the cancelled one are written together.
commit(q, at, queue) ==
  LET r == requests[q]
      kept == [t \in Targets |-> IF t = r.moved THEN [targets[t] EXCEPT !.status = "cancelled"] ELSE targets[t]] IN
    /\ profile.version + Len(targets) <= MaxWrites
    /\ targets' = Append(kept, [item |-> r.item, at |-> at, status |-> "queued", queue |-> queue,
                                 reviewed |-> {c[1] : c \in r.acknowledged}])
    /\ edits' = [edits EXCEPT ![r.item] = @ + 1]

Finish(q) == requests' = [requests EXCEPT ![q] = NoRequest]

\* Under the lock: the conflicts again, then the item by its version.
schedule(q) ==
  LET r == requests[q] IN
    /\ r # NoRequest /\ r.op \in {"schedule", "reschedule"} /\ Finish(q)
    /\ IF /\ edits[r.item] = r.version /\ r.at > now /\ assertScheduleConflictAcknowledgement(q, r.at)
          /\ r.op = "reschedule" => targets[r.moved].status = "queued"
         THEN commit(q, r.at, NoRequest) ELSE UNCHANGED <<targets, edits>>
    /\ UNCHANGED <<now, profile>>

\* A key that has a reservation is answered with it.  Under the lock: the profile and the item by their versions, the slot by the database clock, the conflicts of that slot.
scheduleNext(q) ==
  LET r == requests[q] IN
    /\ r # NoRequest /\ r.op = "next" /\ Finish(q)
    /\ IF /\ \A t \in Targets : targets[t].queue # q
          /\ profile.version = r.profile /\ profile.enabled /\ edits[r.item] = r.version /\ resolvePostingQueue # {}
          /\ assertScheduleConflictAcknowledgement(q, Min(resolvePostingQueue))
         THEN commit(q, Min(resolvePostingQueue), q) ELSE UNCHANGED <<targets, edits>>
    /\ UNCHANGED <<now, profile>>

\* Cancelling needs no lock; the reservation of a queued target is released with it.
commitCancellation(t) ==
  /\ t \in Active /\ targets[t].status = "queued"
  /\ targets' = [targets EXCEPT ![t] = [targets[t] EXCEPT !.status = "cancelled"]] /\ edits' = [edits EXCEPT ![targets[t].item] = @ + 1]
  /\ UNCHANGED <<now, profile, requests>>

\* The worker publishes what is due.
publish(t) ==
  /\ t \in Active /\ targets[t].at <= now
  /\ targets' = [targets EXCEPT ![t] = [targets[t] EXCEPT !.status = IF targets[t].status = "queued" THEN "publishing" ELSE "published"]]
  /\ edits' = [edits EXCEPT ![targets[t].item] = @ + 1]
  /\ UNCHANGED <<now, profile, requests>>

QueueNext ==
  \/ timePasses \/ \E slots \in Weeks, enabled \in BOOLEAN : saveProfile(slots, enabled)
  \/ \E t \in Targets : commitCancellation(t) \/ publish(t)
  \/ \E q \in Requests :
       \/ schedule(q) \/ scheduleNext(q)
       \/ \E op \in {"schedule", "next", "reschedule"}, item \in Items, at \in Times, moved \in {0} \cup Targets :
            schedulePreflight(q, op, item, at, moved)

QueueSpec == QueueInit /\ [][QueueNext]_queueVars

-----------------------------------------------------------------------------
\* Two active posts of an account with the same content, or closer than the window, were seen as a conflict by whoever
\* scheduled the later one, whatever was scheduled, moved or published between the check and the write.
NoUnreviewedConflict ==
  \A t \in Active, u \in Active :
    t < u /\ (targets[t].item = targets[u].item \/ Near(targets[t].at, targets[u].at)) => t \in targets[u].reviewed

\* Two active targets that the queue assigned never share an instant, and the queue never assigns a taken one.
QueueSlotsAreDistinct ==
  \A t \in Active, u \in Active : t < u /\ targets[u].queue # NoRequest => targets[t].at # targets[u].at

-----------------------------------------------------------------------------
\* The inductive invariant: what holds of every pair of targets holds of the next one, by the check under the lock.
QueueInv == QueueTypeOK /\ NoUnreviewedConflict /\ QueueSlotsAreDistinct
=============================================================================
