---------------------------- MODULE MediaFolders ----------------------------
(***************************************************************************)
(* Folders of the media library: a tree kept by parent links.  A move      *)
(* locks the folder it moves and reads the ancestors of the new parent     *)
(* without locking them; its write takes the key lock of the parent that   *)
(* the foreign key needs, and waits for whoever has the parent locked.     *)
(* A request with an old version of a folder or a file ends at once and is *)
(* not shown.                                                              *)
(***************************************************************************)
EXTENDS Integers, FiniteSets, FiniteSetsExt

CONSTANTS Folders, Files, Txs, Root, Nowhere,
          MaxDepth   \* MAX_MEDIA_FOLDER_DEPTH

VARIABLES parent,     \* the folders that exist, and where they are
          filed,      \* the folder of a file, or Root
          txs,        \* open transactions
          overlapped  \* history: two transactions that place folders were open at the same time

folderVars == <<parent, filed, txs, overlapped>>

MediaFolder == Folders \cup {Root}

Tx == [op : {"none", "create", "move", "delete", "organize"}, what : Folders \cup Files \cup {Nowhere}, to : MediaFolder]

FolderTypeOK ==
  /\ parent \in [Folders -> MediaFolder \cup {Nowhere}] /\ filed \in [Files -> MediaFolder]
  /\ txs \in [Txs -> Tx] /\ overlapped \in BOOLEAN

NoTx == [op |-> "none", what |-> Nowhere, to |-> Root]

FolderInit ==
  /\ parent = [f \in Folders |-> Nowhere] /\ filed = [a \in Files |-> Root]
  /\ txs = [t \in Txs |-> NoTx] /\ overlapped = FALSE

-----------------------------------------------------------------------------
Existing == {f \in Folders : parent[f] # Nowhere}

UpwardClosed(S) == \A f \in S \cap Existing : parent[f] \in S \cup {Root}

\* The recursive query: a folder, its parent, and so on to the top.
ancestors(f) == {g \in Folders : \A S \in SUBSET Folders : f \in S /\ UpwardClosed(S) => g \in S}

descendants(f) == {g \in Existing : f \in ancestors(g)}

depth(f) == Cardinality(ancestors(f))

subtreeDepth(f) == Max({depth(g) - depth(f) + 1 : g \in descendants(f)})

\* SELECT ... FOR UPDATE; an update of the row keeps it, too.
LockedByOther(t, f) == \E u \in Txs \ {t} : txs[u].op \in {"move", "delete"} /\ txs[u].what = f

Begins(t, op, what, to) ==
  /\ txs[t].op = "none" /\ txs' = [txs EXCEPT ![t] = [op |-> op, what |-> what, to |-> to]]
  /\ overlapped' = (overlapped \/ (op \in {"create", "move"} /\ \E u \in Txs \ {t} : txs[u].op \in {"create", "move"}))

Ends(t) == txs' = [txs EXCEPT ![t] = NoTx] /\ UNCHANGED overlapped

\* Mutant: only the folder itself is refused as its parent.
acceptsAnyParent(f, to) == to # f

\* Neither the folder nor one of its descendants is the new parent, and the tree stays within its depth.
acceptsParent(f, to) ==
  /\ to # f /\ (to = Root \/ (to \in Existing /\ f \notin ancestors(to)))
  /\ (IF to = Root THEN 0 ELSE depth(to)) + (IF f \in Existing THEN subtreeDepth(f) ELSE 1) <= MaxDepth

createFolder(t, f, to) ==
  /\ f \notin Existing /\ \A u \in Txs : txs[u].what # f
  /\ acceptsParent(f, to) /\ Begins(t, "create", f, to)
  /\ UNCHANGED <<parent, filed>>

updateFolder(t, f, to) ==
  /\ f \in Existing /\ ~ LockedByOther(t, f) /\ acceptsParent(f, to)
  /\ Begins(t, "move", f, to)
  /\ UNCHANGED <<parent, filed>>

\* The write of a create or a move waits for the parent's row; a parent deleted meanwhile fails the foreign key.
place(t) ==
  LET tx == txs[t] IN
    /\ tx.op \in {"create", "move"} /\ ~ LockedByOther(t, tx.to)
    /\ parent' = IF tx.to \in Existing \cup {Root} THEN [parent EXCEPT ![tx.what] = tx.to] ELSE parent
    /\ Ends(t) /\ UNCHANGED filed

\* Mutant: a folder is deleted with what is in it.
deleteFullFolder(t) ==
  /\ txs[t].op = "delete" /\ parent' = [parent EXCEPT ![txs[t].what] = Nowhere] /\ Ends(t)
  /\ UNCHANGED filed

deleteFolder(t, f) ==
  /\ f \in Existing /\ ~ LockedByOther(t, f) /\ Begins(t, "delete", f, Root)
  /\ UNCHANGED <<parent, filed>>

\* Under the lock, an empty folder is deleted.
deleteIfEmpty(t) ==
  LET f == txs[t].what IN
    /\ txs[t].op = "delete"
    /\ parent' = IF \A g \in Folders : parent[g] # f THEN (IF \A a \in Files : filed[a] # f
                      THEN [parent EXCEPT ![f] = Nowhere] ELSE parent) ELSE parent
    /\ Ends(t) /\ UNCHANGED filed

\* The file's rows are locked, the folder is looked up without a lock; the row of the file references it.
bulkOrganize(t, a, to) ==
  /\ to \in Existing \cup {Root} /\ \A u \in Txs : txs[u].what # a
  /\ Begins(t, "organize", a, to)
  /\ UNCHANGED <<parent, filed>>

applyMediaOrganizationMutation(t) ==
  LET tx == txs[t] IN
    /\ tx.op = "organize" /\ ~ LockedByOther(t, tx.to)
    /\ filed' = IF tx.to \in Existing \cup {Root} THEN [filed EXCEPT ![tx.what] = tx.to] ELSE filed
    /\ Ends(t) /\ UNCHANGED parent

\* An error, a deadlock that PostgreSQL breaks, or a lost connection.
rollback(t) == txs[t].op # "none" /\ Ends(t) /\ UNCHANGED <<parent, filed>>

FolderNext ==
  \E t \in Txs :
    \/ place(t) \/ deleteIfEmpty(t) \/ applyMediaOrganizationMutation(t) \/ rollback(t)
    \/ \E f \in Folders :
         \/ deleteFolder(t, f)
         \/ \E to \in MediaFolder : createFolder(t, f, to) \/ updateFolder(t, f, to)
    \/ \E a \in Files, to \in MediaFolder : bulkOrganize(t, a, to)

FolderSpec == FolderInit /\ [][FolderNext]_folderVars

-----------------------------------------------------------------------------
\* Nothing is left in a folder that was deleted: a file, a subfolder or a folder that is moved in while the folder is
\* being deleted waits for it and is refused, or makes the deletion refuse.
NothingInDeletedFolder ==
  /\ \A f \in Existing : parent[f] \in Existing \cup {Root}
  /\ \A a \in Files : filed[a] \in Existing \cup {Root}

\* The folders are a tree of at most MaxDepth levels, as long as no two requests that place folders overlap; two
\* that do can build what each of them alone would refuse.
TreeUnlessOverlapped ==
  ~ overlapped => \A f \in Existing : (\E g \in ancestors(f) : parent[g] = Root) /\ depth(f) <= MaxDepth

-----------------------------------------------------------------------------
(* The inductive invariant. *)

\* A folder is moved or deleted by one request, and is there; one that is created is not there yet.
RowsAreLocked ==
  /\ \A t \in Txs : txs[t].op \in {"move", "delete"} => txs[t].what \in Existing
  /\ \A t \in Txs : txs[t].op = "create" => txs[t].what \in Folders \ Existing
  /\ \A t, u \in Txs : {txs[t].op, txs[u].op} \subseteq {"create", "move", "delete"} /\ txs[t].what = txs[u].what => t = u

\* A request that places a folder alone still finds what it checked, unless the parent is gone.
PlacesFit ==
  ~ overlapped => \A t \in Txs : txs[t].op \in {"create", "move"} =>
    /\ \A u \in Txs : txs[u].op \in {"create", "move"} => t = u
    /\ \A f \in Folders, to \in Existing \cup {Root} : txs[t].what = f /\ txs[t].to = to => acceptsParent(f, to)

FolderInv == FolderTypeOK /\ NothingInDeletedFolder /\ RowsAreLocked /\ PlacesFit /\ TreeUnlessOverlapped
=============================================================================
