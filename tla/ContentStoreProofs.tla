-------------------------- MODULE ContentStoreProofs --------------------------
(***************************************************************************)
(* The properties of the content store for any number of clients, any set  *)
(* of change kinds and any number of commits.                              *)
(*                                                                         *)
(* NoLostUpdate is not inductive alone: a commit stores what the client    *)
(* computed from its copy, so one has to know that a copy with the stored  *)
(* version shows the stored history.  CopyIsPast, every copy is a prefix   *)
(* of the audited history, is the missing part.                            *)
(***************************************************************************)
EXTENDS ContentStore, TLAPS

\* The inductive invariant.
IInv == TypeOK /\ NoLostUpdate /\ CopyIsPast /\ ScheduledIsQueued

-----------------------------------------------------------------------------
(* Facts about one appended change.                                        *)

\* Appending a change keeps the earlier changes and adds one.
LEMMA AppendFacts ==
  ASSUME NEW S, NEW s \in Seq(S), NEW x \in S
  PROVE  /\ Append(s, x) \in Seq(S)
         /\ Len(Append(s, x)) = Len(s) + 1
         /\ Append(s, x)[Len(s) + 1] = x
         /\ \A i \in 1 .. Len(s) : Append(s, x)[i] = s[i]
  OBVIOUS

\* A prefix of the history is not disturbed by a change appended to it.
LEMMA PrefixOfAppend ==
  ASSUME NEW S, NEW s \in Seq(S), NEW x \in S, NEW n \in Nat, n <= Len(s)
  PROVE  SubSeq(Append(s, x), 1, n) = SubSeq(s, 1, n)
  OBVIOUS

\* The prefix of full length is the whole history.
LEMMA WholePrefix ==
  ASSUME NEW S, NEW s \in Seq(S)
  PROVE  SubSeq(s, 1, Len(s)) = s
  OBVIOUS

-----------------------------------------------------------------------------
(* One commit.                                                             *)

\* What a commit does when the invariant holds: the copy it was computed from
\* is the stored item, so the new item is the old history and one change.
LEMMA CommitAppends ==
  ASSUME IInv, NEW c \in Clients, Commit(c)
  PROVE  \E kind \in Kinds :
           LET change == [by |-> c, kind |-> kind]
           IN /\ change \in Change
              /\ row' = [version |-> Len(audit) + 1, payload |-> Append(audit, change)]
              /\ copy' = [copy EXCEPT ![c] = row']
              /\ audit' = Append(audit, change)
              /\ outbox' = IF kind = "schedule" THEN outbox \cup {Len(audit) + 1}
                                                ELSE outbox
              /\ holding' = holding
<1>1. PICK kind \in Kinds :
        LET change == [by |-> c, kind |-> kind]
            next   == Changed(copy[c], change)
        IN /\ Fresh(next)
           /\ row' = next
           /\ copy' = [copy EXCEPT ![c] = next]
           /\ audit' = Append(audit, change)
           /\ outbox' = IF kind = "schedule" THEN outbox \cup {next.version} ELSE outbox
  BY DEF Commit
<1> DEFINE change == [by |-> c, kind |-> kind]
<1>2. change \in Change
  BY DEF Change
<1>3. copy[c] \in Item /\ row \in Item /\ audit \in Seq(Change)
  BY DEF IInv, TypeOK
<1>4. copy[c].version = row.version
  BY <1>1, <1>3 DEF Fresh, Changed, Item
<1>5. copy[c].version = Len(audit) /\ copy[c].payload = audit
  <2>1. copy[c].version = Len(audit)
    BY <1>4 DEF IInv, NoLostUpdate
  <2>2. copy[c].payload = SubSeq(audit, 1, Len(audit))
    BY <2>1 DEF IInv, CopyIsPast
  <2> QED BY <2>1, <2>2, <1>3, WholePrefix
<1>6. Changed(copy[c], change)
        = [version |-> Len(audit) + 1, payload |-> Append(audit, change)]
  BY <1>5 DEF Changed
<1>7. /\ row' = [version |-> Len(audit) + 1, payload |-> Append(audit, change)]
      /\ copy' = [copy EXCEPT ![c] = row']
      /\ audit' = Append(audit, change)
      /\ holding' = holding
  BY <1>1, <1>6 DEF Commit
<1>8. outbox' = IF kind = "schedule" THEN outbox \cup {Len(audit) + 1} ELSE outbox
  <2>1. Changed(copy[c], change).version = Len(audit) + 1
    BY <1>6
  <2>2. outbox' = IF kind = "schedule"
                    THEN outbox \cup {Changed(copy[c], change).version}
                    ELSE outbox
    BY <1>1
  <2> QED BY <2>1, <2>2, Zenon
<1> QED
  BY <1>2, <1>7, <1>8

-----------------------------------------------------------------------------
(* The inductive step.                                                     *)

\* The item just created satisfies the invariant.
LEMMA InitIInv == Init => IInv
<1> SUFFICES ASSUME Init PROVE IInv
  OBVIOUS
<1>1. Empty \in Item
  BY DEF Empty, Item
<1>2. TypeOK
  BY <1>1 DEF Init, TypeOK
<1>3. NoLostUpdate /\ CopyIsPast
  <2>1. SubSeq(<<>>, 1, 0) = <<>> /\ Len(<<>>) = 0
    OBVIOUS
  <2>2. row.payload = <<>> /\ row.version = 0 /\ audit = <<>>
    BY DEF Init, Empty
  <2>3. \A c \in Clients : copy[c].payload = <<>> /\ copy[c].version = 0
    BY DEF Init, Empty
  <2>4. NoLostUpdate
    BY <2>1, <2>2 DEF NoLostUpdate
  <2>5. CopyIsPast
    <3>1. Len(audit) = 0 /\ 0 <= 0 /\ SubSeq(audit, 1, 0) = <<>>
      BY <2>1, <2>2
    <3> QED BY <2>3, <3>1, Zenon DEF CopyIsPast
  <2> QED BY <2>4, <2>5
<1>4. ScheduledIsQueued
  BY DEF Init, ScheduledIsQueued, Empty
<1> QED BY <1>2, <1>3, <1>4 DEF IInv

\* Reading the item (get) keeps the invariant: the new copy is the whole history.
LEMMA GetKeepsIInv ==
  ASSUME IInv, NEW c \in Clients, Get(c)
  PROVE  IInv'
<1> USE DEF Get
<1>1. TypeOK'
  BY DEF IInv, TypeOK
<1>2. NoLostUpdate' /\ ScheduledIsQueued'
  BY DEF IInv, NoLostUpdate, ScheduledIsQueued
<1>3. CopyIsPast'
  <2> SUFFICES ASSUME NEW d \in Clients
               PROVE  /\ copy'[d].version <= Len(audit)
                      /\ copy'[d].payload = SubSeq(audit, 1, copy'[d].version)
    BY DEF CopyIsPast
  <2>1. CASE d = c
    <3>1. copy'[d] = row
      BY <2>1 DEF IInv, TypeOK
    <3>2. row.version = Len(audit) /\ row.payload = audit /\ audit \in Seq(Change)
      BY DEF IInv, NoLostUpdate, TypeOK
    <3> QED BY <3>1, <3>2, WholePrefix
  <2>2. CASE d # c
    BY <2>2 DEF IInv, TypeOK, CopyIsPast
  <2> QED BY <2>1, <2>2
<1> QED BY <1>1, <1>2, <1>3 DEF IInv

\* A commit keeps the invariant: history, row, outbox and copies grow together.
LEMMA CommitKeepsIInv ==
  ASSUME IInv, NEW c \in Clients, Commit(c)
  PROVE  IInv'
<1>1. PICK kind \in Kinds :
        LET change == [by |-> c, kind |-> kind]
        IN /\ change \in Change
           /\ row' = [version |-> Len(audit) + 1, payload |-> Append(audit, change)]
           /\ copy' = [copy EXCEPT ![c] = row']
           /\ audit' = Append(audit, change)
           /\ outbox' = IF kind = "schedule" THEN outbox \cup {Len(audit) + 1} ELSE outbox
           /\ holding' = holding
  BY CommitAppends
<1> DEFINE change == [by |-> c, kind |-> kind]
<1>2. audit \in Seq(Change) /\ Len(audit) \in Nat /\ change \in Change
  BY <1>1 DEF IInv, TypeOK
<1>3. /\ audit' \in Seq(Change)
      /\ Len(audit') = Len(audit) + 1
      /\ audit'[Len(audit) + 1] = change
      /\ \A i \in 1 .. Len(audit) : audit'[i] = audit[i]
  BY <1>1, <1>2, AppendFacts
<1>4. row' \in Item /\ row'.payload = audit' /\ row'.version = Len(audit')
  BY <1>1, <1>2, <1>3 DEF Item
<1>5. TypeOK'
  <2>1. copy' \in [Clients -> Item]
    BY <1>1, <1>4 DEF IInv, TypeOK
  <2>2. holding' \subseteq Clients /\ outbox' \subseteq Nat
    <3>1. outbox \subseteq Nat /\ holding \subseteq Clients /\ Len(audit) + 1 \in Nat
      BY <1>2 DEF IInv, TypeOK
    <3>2. outbox' \subseteq outbox \cup {Len(audit) + 1} /\ holding' = holding
      BY <1>1
    <3> QED BY <3>1, <3>2
  <2> QED BY <1>3, <1>4, <2>1, <2>2 DEF TypeOK
<1>6. NoLostUpdate'
  BY <1>4 DEF NoLostUpdate
<1>7. CopyIsPast'
  <2> SUFFICES ASSUME NEW d \in Clients
               PROVE  /\ copy'[d].version <= Len(audit')
                      /\ copy'[d].payload = SubSeq(audit', 1, copy'[d].version)
    BY DEF CopyIsPast
  <2>1. CASE d = c
    <3>1. copy'[d] = row'
      BY <1>1, <2>1 DEF IInv, TypeOK
    <3> QED BY <3>1, <1>3, <1>4, WholePrefix
  <2>2. CASE d # c
    <3>1. copy'[d] = copy[d] /\ copy[d] \in Item
      BY <1>1, <2>2 DEF IInv, TypeOK
    <3>2. /\ copy[d].version \in Nat
          /\ copy[d].version <= Len(audit)
          /\ copy[d].payload = SubSeq(audit, 1, copy[d].version)
      BY <3>1 DEF IInv, CopyIsPast, Item
    <3>3. SubSeq(audit', 1, copy[d].version) = SubSeq(audit, 1, copy[d].version)
      BY <1>1, <1>2, <3>2, PrefixOfAppend
    <3> QED BY <1>2, <1>3, <3>1, <3>2, <3>3
  <2> QED BY <2>1, <2>2
<1>8. ScheduledIsQueued'
  <2>1. outbox = {i \in 1 .. Len(audit) : audit[i].kind = "schedule"}
    BY DEF IInv, ScheduledIsQueued, NoLostUpdate
  <2>2. change.kind = kind
    OBVIOUS
  <2>3. ASSUME NEW i
        PROVE  i \in outbox' <=> i \in 1 .. Len(audit') /\ audit'[i].kind = "schedule"
    BY <1>1, <1>2, <1>3, <2>1, <2>2
  <2> QED BY <1>4, <2>3 DEF ScheduledIsQueued
<1> QED BY <1>5, <1>6, <1>7, <1>8 DEF IInv

\* Every step of a client keeps the invariant.
LEMMA NextKeepsIInv == IInv /\ [Next]_vars => IInv'
<1> SUFFICES ASSUME IInv, [Next]_vars PROVE IInv'
  OBVIOUS
<1>1. ASSUME NEW c \in Clients, Get(c) PROVE IInv'
  BY <1>1, GetKeepsIInv
<1>2. ASSUME NEW c \in Clients, Commit(c) PROVE IInv'
  BY <1>2, CommitKeepsIInv
<1>3. ASSUME NEW c \in Clients, Release(c) PROVE IInv'
  BY <1>3 DEF Release, IInv, TypeOK, NoLostUpdate, CopyIsPast, ScheduledIsQueued
<1>4. CASE UNCHANGED vars
  BY <1>4 DEF vars, IInv, TypeOK, NoLostUpdate, CopyIsPast, ScheduledIsQueued
<1> QED BY <1>1, <1>2, <1>3, <1>4 DEF Next

\* The inductive invariant holds in every reachable state.
THEOREM StoreInvariant == Spec => []IInv
  BY InitIInv, NextKeepsIInv, PTL DEF Spec

-----------------------------------------------------------------------------
(* The properties.                                                         *)

\* Rows, copies, audit events and commands have their types.
THEOREM TypeCorrect == Spec => []TypeOK
<1>1. IInv => TypeOK
  BY DEF IInv
<1> QED BY <1>1, StoreInvariant, PTL

\* The conditional update of PostgresContentRepository.commit loses no
\* accepted change, for any number of clients and commits.
THEOREM LosesNoUpdate == Spec => []NoLostUpdate
<1>1. IInv => NoLostUpdate
  BY DEF IInv
<1> QED BY <1>1, StoreInvariant, PTL

\* A client whose copy has the stored version holds the stored item, so a
\* guard evaluated on the copy holds of the item the commit replaces.
THEOREM EqualVersions == Spec => []EqualVersionEqualItem
<1>1. IInv => EqualVersionEqualItem
  <2> SUFFICES ASSUME IInv, NEW c \in Clients, copy[c].version = row.version
               PROVE  copy[c] = row
    BY DEF EqualVersionEqualItem
  <2>1. row \in Item /\ copy[c] \in Item /\ audit \in Seq(Change)
    BY DEF IInv, TypeOK
  <2>2. copy[c].payload = SubSeq(audit, 1, Len(audit)) /\ row.payload = audit
    BY DEF IInv, CopyIsPast, NoLostUpdate
  <2>3. copy[c].payload = row.payload
    BY <2>1, <2>2, WholePrefix
  <2> QED BY <2>1, <2>3 DEF Item
<1> QED BY <1>1, StoreInvariant, PTL

\* The publish command of a scheduled target is stored with the target, and
\* no command is stored without one.
THEOREM CommandWithTarget == Spec => []ScheduledIsQueued
<1>1. IInv => ScheduledIsQueued
  BY DEF IInv
<1> QED BY <1>1, StoreInvariant, PTL

\* The content store implements the atomic item: under the refinement mapping
\* (history is the payload, commands the outbox) every step is one accepted
\* change or no step at all.
THEOREM Refinement == Spec => ImplementsAtomicItem
<1>1. Init => Abstract!Init
  BY DEF Init, Empty, Abstract!Init
<1>2. IInv /\ [Next]_vars => [Abstract!Accept]_<<row.payload, outbox>>
  <2> SUFFICES ASSUME IInv, [Next]_vars
               PROVE  [Abstract!Accept]_<<row.payload, outbox>>
    OBVIOUS
  <2>1. ASSUME NEW c \in Clients, Commit(c) PROVE Abstract!Accept
    <3>1. PICK kind \in Kinds :
            LET change == [by |-> c, kind |-> kind]
            IN /\ change \in Change
               /\ row' = [version |-> Len(audit) + 1, payload |-> Append(audit, change)]
               /\ copy' = [copy EXCEPT ![c] = row']
               /\ audit' = Append(audit, change)
               /\ outbox' = IF kind = "schedule" THEN outbox \cup {Len(audit) + 1} ELSE outbox
               /\ holding' = holding
      BY <2>1, CommitAppends
    <3>2. row.payload = audit
      BY DEF IInv, NoLostUpdate
    <3>3. [by |-> c, kind |-> kind] \in Abstract!Change
      BY DEF Abstract!Change
    <3> QED BY <3>1, <3>2, <3>3 DEF Abstract!Accept
  <2>2. ASSUME NEW c \in Clients, Get(c) \/ Release(c)
        PROVE  UNCHANGED <<row.payload, outbox>>
    BY <2>2 DEF Get, Release
  <2>3. CASE UNCHANGED vars
    BY <2>3 DEF vars
  <2> QED BY <2>1, <2>2, <2>3 DEF Next
<1> QED
  BY <1>1, <1>2, StoreInvariant, PTL DEF Spec, ImplementsAtomicItem, Abstract!Spec
=============================================================================
