----------------------------- MODULE ContentStore -----------------------------
(***************************************************************************)
(* The stored content item and the requests and jobs that change it.  A    *)
(* client reads the whole item, computes a new one with version + 1 and    *)
(* commits it; the transaction updates the row only if the stored version  *)
(* is still the one that was read, and writes the audit event and the      *)
(* outbox messages of the change with it.                                  *)
(***************************************************************************)
EXTENDS Naturals, Sequences

CONSTANTS Clients,      \* API requests and worker jobs
          Kinds,        \* kinds of change; "schedule" also queues a command
          MaxVersion    \* bound on the number of commits

ASSUME KindsAssumption == "schedule" \in Kinds
ASSUME MaxVersionAssumption == MaxVersion \in Nat

VARIABLES row,      \* stored item: version and the changes its payload shows
          copy,     \* the item each client holds
          holding,  \* clients that hold a copy
          audit,    \* audit events, in commit order
          outbox    \* versions whose change queued a publish command

vars == <<row, copy, holding, audit, outbox>>

Change == [by : Clients, kind : Kinds]
Item   == [version : Nat, payload : Seq(Change)]

Empty == [version |-> 0, payload |-> <<>>]

TypeOK ==
  /\ row \in Item
  /\ copy \in [Clients -> Item]
  /\ holding \subseteq Clients
  /\ audit \in Seq(Change)
  /\ outbox \subseteq Nat

Init ==
  /\ row = Empty
  /\ copy = [c \in Clients |-> Empty]
  /\ holding = {}
  /\ audit = <<>>
  /\ outbox = {}

\* get: one row, read at once.  getForUpdate also refuses a version other than
\* the one the caller asked for; it then reads again, or gives up.
Get(c) ==
  /\ copy' = [copy EXCEPT ![c] = row]
  /\ holding' = holding \cup {c}
  /\ UNCHANGED <<row, audit, outbox>>

\* Mutant: the change is stored without its kind.
ChangedKindless(item, change) ==
  [version |-> item.version + 1,
   payload |-> Append(item.payload, [change EXCEPT !.kind = "none"])]

\* A domain operation: the change on top of the copy.
Changed(item, change) ==
  [version |-> item.version + 1, payload |-> Append(item.payload, change)]

\* Mutant: the update is unconditional.
FreshAlways(next) == TRUE

\* The guard of the conditional update.
Fresh(next) == row.version = next.version - 1

\* Mutant: the outbox message is written outside the transaction and lost.
CommitWithoutMessage(c) ==
  /\ c \in holding
  /\ row.version < MaxVersion
  /\ \E kind \in Kinds :
       LET change == [by |-> c, kind |-> kind]
           next   == Changed(copy[c], change)
       IN /\ Fresh(next)
          /\ row' = next
          /\ copy' = [copy EXCEPT ![c] = next]
          /\ audit' = Append(audit, change)
  /\ UNCHANGED <<holding, outbox>>

\* commit: item, audit event and outbox messages in one transaction.  The
\* client goes on with the item it committed.
Commit(c) ==
  /\ c \in holding
  /\ row.version < MaxVersion
  /\ \E kind \in Kinds :
       LET change == [by |-> c, kind |-> kind]
           next   == Changed(copy[c], change)
       IN /\ Fresh(next)
          /\ row' = next
          /\ copy' = [copy EXCEPT ![c] = next]
          /\ audit' = Append(audit, change)
          /\ outbox' = IF kind = "schedule" THEN outbox \cup {next.version}
                                            ELSE outbox
  /\ UNCHANGED holding

\* content_version_conflict, the end of a request, or a crash after a commit
\* whose answer is lost: the copy is given up, and nothing is stored.
Release(c) ==
  /\ c \in holding
  /\ holding' = holding \ {c}
  /\ UNCHANGED <<row, copy, audit, outbox>>

Next == \E c \in Clients : Get(c) \/ Commit(c) \/ Release(c)

Spec == Init /\ [][Next]_vars

-----------------------------------------------------------------------------
(* Properties.                                                             *)

\* No lost update: the payload shows exactly the audited changes in order, so
\* that no accepted change was overwritten by a client with an older copy.
NoLostUpdate == row.payload = audit /\ row.version = Len(audit)

\* A copy with the stored version is the stored item, however many commits
\* other clients made before: the basis of every guard a domain operation
\* evaluates on its copy.
EqualVersionEqualItem ==
  \A c \in Clients : copy[c].version = row.version => copy[c] = row

\* A copy never shows a change that is not in the stored history.
CopyIsPast ==
  \A c \in Clients : /\ copy[c].version <= Len(audit)
                     /\ copy[c].payload = SubSeq(audit, 1, copy[c].version)

\* A scheduled target and its publish command are stored together or not at
\* all, whoever commits in between.
ScheduledIsQueued ==
  outbox = {i \in 1 .. Len(row.payload) : row.payload[i].kind = "schedule"}

\* The conditional update implements the atomic item.
Abstract == INSTANCE AtomicItem WITH history <- row.payload, commands <- outbox

ImplementsAtomicItem == Abstract!Spec
=============================================================================
