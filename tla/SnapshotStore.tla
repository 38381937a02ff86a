--------------------------- MODULE SnapshotStore ---------------------------
(***************************************************************************)
(* The snapshot tables of one (session, repository root) scope:            *)
(* index_snapshots, index_nodes and index_file_state, as written by        *)
(* SaveSnapshotState and read by LoadLatestSnapshot of                     *)
(* src/internal/indexstore/sync_store.go.                                  *)
(*                                                                         *)
(* A snapshot row is unique in its root hash.  The hash is taken to be     *)
(* injective, so a row is named by the tree that was hashed: rows[t] is    *)
(* the row with root_hash = hash(t).  A tree maps a path to what the       *)
(* snapshot builder found there; Absent is a path without an entry.        *)
(***************************************************************************)
EXTENDS Integers, FiniteSets

CONSTANTS
  Paths,       \* repository-relative paths
  Contents,    \* contents that give at least one chunk
  Blank,       \* content that is only white space: a file without chunks
  EmptyDir,    \* the path is a directory with no entry below it
  Absent,      \* no entry at the path
  Loaders,     \* callers of LoadLatestSnapshot
  MaxTime      \* bound on the clock that completed_at is taken from

FileValues == Contents \cup {Blank}
Values     == FileValues \cup {EmptyDir, Absent}
Trees      == [Paths -> Values]
EmptyTree  == [p \in Paths |-> Absent]

ASSUME StoreAssumption ==
  /\ Blank \notin Contents
  /\ EmptyDir \notin FileValues
  /\ Absent \notin FileValues \cup {EmptyDir}
  /\ MaxTime \in Nat

VARIABLES
  rows,        \* index_snapshots: tree -> its row
  nodes,       \* index_nodes: tree -> the entries stored for its row
  fileState,   \* index_file_state: path -> the file entry last written
  now,         \* the clock completed_at and created_at are read from
  load         \* loader -> its LoadLatestSnapshot call

tables == <<rows, nodes, fileState, now>>
vars   == <<rows, nodes, fileState, now, load>>

-----------------------------------------------------------------------------
(* Rows.  Time 0 stands for NULL and for "no row".  Rows are inserted at   *)
(* distinct times, so the creation time also serves as the id.             *)

Statuses == {"pending", "active", "superseded", "failed"}

Row == [id : Nat, parent : Nat, status : Statuses, isActive : BOOLEAN,
        completedAt : Nat]

NoRow == [id |-> 0, parent |-> 0, status |-> "pending", isActive |-> FALSE,
          completedAt |-> 0]

Stored      == {t \in Trees : rows[t].id # 0}
ActiveTrees == {t \in Trees : rows[t].isActive}

\* Mutant: the old value wins.
CoalesceOldFirst(new, old) == IF old # 0 THEN old ELSE new

\* COALESCE(new, old) with 0 for NULL.
Coalesce(new, old) == IF new # 0 THEN new ELSE old

\* What index_file_state keeps of a tree: its files (the directories have no
\* row there).
FilesOf(t) == [p \in Paths |-> IF t[p] \in FileValues THEN t[p] ELSE Absent]

-----------------------------------------------------------------------------
(* The statements of the SaveSnapshotState transaction, in order.  Each is *)
(* a function of the table as the statement finds it; at is the time of    *)
(* the call and parent the id of the snapshot the caller diffed against.   *)

\* upsertSnapshotRoot: a new row is inserted inactive, a row with the same
\* root hash is taken over and keeps its is_active.
UpsertRoot(r, t, parent, at) ==
  [r EXCEPT ![t] =
     IF r[t].id = 0
     THEN [id |-> at, parent |-> parent, status |-> "active",
           isActive |-> FALSE, completedAt |-> at]
     ELSE [r[t] EXCEPT !.parent = Coalesce(parent, r[t].parent),
                       !.status = "active", !.completedAt = at]]

\* bulkUpsertSnapshotNodes and clearStaleSnapshotNodes: the row's entries are
\* exactly those of the tree.
WriteNodes(n, t) == [n EXCEPT ![t] = t]

\* Mutant: the status is one the CHECK constraint does not know.
DeactivateToInactive(r, t, at) ==
  [u \in Trees |->
     IF u # t /\ r[u].isActive
     THEN [r[u] EXCEPT !.isActive = FALSE, !.status = "inactive"]
     ELSE r[u]]

\* deactivateScopeSnapshotsSQL: every other active row is superseded.
Deactivate(r, t, at) ==
  [u \in Trees |->
     IF u # t /\ r[u].isActive
     THEN [r[u] EXCEPT !.isActive = FALSE, !.status = "superseded",
                       !.completedAt = Coalesce(r[u].completedAt, at)]
     ELSE r[u]]

\* Mutant: is_active is left as the upsert left it.
FinalizeStatusOnly(r, t, parent, at) ==
  [r EXCEPT ![t] = [r[t] EXCEPT !.status = "active", !.completedAt = at]]

\* finalizeSnapshotRoot.
Finalize(r, t, parent, at) ==
  [r EXCEPT ![t] = [r[t] EXCEPT !.status = "active", !.isActive = TRUE,
                                !.completedAt = at,
                                !.parent = Coalesce(parent, r[t].parent)]]

\* Mutant: the row's own entries are not spared.
PurgeAllNodes(n, t) == [u \in Trees |-> EmptyTree]

\* deleteSupersededScopeNodesSQL: the entries of every other row go.
PurgeOtherNodes(n, t) == [u \in Trees |-> IF u = t THEN n[u] ELSE EmptyTree]

\* bulkUpsertFileState and clearStaleFileState.
WriteFileState(t) == FilesOf(t)

\* The partial unique index idx_index_snapshots_active_scope.
ActiveIndexOK(r) == \A t, u \in Trees : r[t].isActive /\ r[u].isActive => t = u

\* Mutant: the new row is activated before the old one is deactivated.
RowsAfterFinalizeFirst(t, parent, at) ==
  LET upserted  == UpsertRoot(rows, t, parent, at)
      finalized == Finalize(upserted, t, parent, at)
  IN <<upserted, finalized, Deactivate(finalized, t, at)>>

\* index_snapshots after each of the statements that write to it.
RowsAfter(t, parent, at) ==
  LET upserted    == UpsertRoot(rows, t, parent, at)
      deactivated == Deactivate(upserted, t, at)
  IN <<upserted, deactivated, Finalize(deactivated, t, parent, at)>>

SavedRows(t, parent, at) == RowsAfter(t, parent, at)[3]

\* The index is not deferrable: it holds after every statement, or the
\* statement fails.
StatementsOK(t, parent, at) ==
  \A n \in 1 .. 3 : ActiveIndexOK(RowsAfter(t, parent, at)[n])

(***************************************************************************)
(* SaveSnapshotState for the tree t: one transaction, so its statements    *)
(* take effect together.  The statement that breaks the unique index fails *)
(* and the whole transaction is rolled back: the guard.                    *)
(***************************************************************************)
SaveSnapshotState(t, parent) ==
  LET at == now + 1 IN
  /\ now < MaxTime
  /\ StatementsOK(t, parent, at)
  /\ rows'      = SavedRows(t, parent, at)
  /\ nodes'     = PurgeOtherNodes(WriteNodes(nodes, t), t)
  /\ fileState' = WriteFileState(t)
  /\ now'       = at

-----------------------------------------------------------------------------
(* LoadLatestSnapshot: three statements outside a transaction, each with a *)
(* snapshot of the database of its own.                                    *)

\* ORDER BY is_active DESC, completed_at DESC NULLS LAST, created_at DESC
Precedes(r, s) ==
  IF r.isActive # s.isActive THEN r.isActive
  ELSE IF r.completedAt # s.completedAt THEN r.completedAt > s.completedAt
  ELSE r.id >= s.id

Latest == CHOOSE t \in Stored : \A u \in Stored : Precedes(rows[t], rows[u])

NoLoad == [pc |-> "idle", root |-> EmptyTree, active |-> FALSE,
           nodes |-> EmptyTree, files |-> EmptyTree, began |-> 0]

Load == [pc : {"idle", "root", "nodes", "done", "none"}, root : Trees,
         active : BOOLEAN, nodes : Trees, files : Trees, began : Nat]

\* selectLatestSnapshotSQL; no row ends the call with nil.
LoadRoot(l) ==
  /\ load[l].pc = "idle"
  /\ load' = [load EXCEPT ![l] =
                IF Stored = {}
                THEN [NoLoad EXCEPT !.pc = "none", !.began = now]
                ELSE [NoLoad EXCEPT !.pc = "root", !.root = Latest,
                                    !.active = rows[Latest].isActive,
                                    !.began = now]]
  /\ UNCHANGED tables

\* Mutant: the entries of whatever row is the latest by now.
LoadNodesOfLatest(l) ==
  /\ load[l].pc = "root"
  /\ load' = [load EXCEPT ![l].pc = "nodes", ![l].nodes = nodes[Latest]]
  /\ UNCHANGED tables

\* selectSnapshotNodesSQL for the id of the row just read.
LoadNodes(l) ==
  /\ load[l].pc = "root"
  /\ load' = [load EXCEPT ![l].pc = "nodes", ![l].nodes = nodes[load[l].root]]
  /\ UNCHANGED tables

\* selectFileStateSQL for the scope.
LoadFiles(l) ==
  /\ load[l].pc = "nodes"
  /\ load' = [load EXCEPT ![l].pc = "done", ![l].files = fileState]
  /\ UNCHANGED tables

\* The caller uses the result and is free to call again.
LoadReturn(l) ==
  /\ load[l].pc \in {"done", "none"}
  /\ load' = [load EXCEPT ![l] = NoLoad]
  /\ UNCHANGED tables

-----------------------------------------------------------------------------
Init ==
  /\ rows      = [t \in Trees |-> NoRow]
  /\ nodes     = [t \in Trees |-> EmptyTree]
  /\ fileState = EmptyTree
  /\ now       = 0
  /\ load      = [l \in Loaders |-> NoLoad]

\* The sync worker saves a tree that differs from the latest one and passes
\* the latest id as parent.
Save(t) ==
  /\ Stored # {} => t # Latest
  /\ SaveSnapshotState(t, IF Stored = {} THEN 0 ELSE rows[Latest].id)
  /\ UNCHANGED load

Next ==
  \/ \E t \in Trees : Save(t)
  \/ \E l \in Loaders : LoadRoot(l) \/ LoadNodes(l) \/ LoadFiles(l) \/ LoadReturn(l)

Spec == Init /\ [][Next]_vars

-----------------------------------------------------------------------------
(* Every table holds rows of its type.                                     *)
TypeOK ==
  /\ rows \in [Trees -> Row]
  /\ nodes \in [Trees -> Trees]
  /\ fileState \in Trees
  /\ now \in Nat
  /\ load \in [Loaders -> Load]

(* Once a snapshot was saved exactly one row is active, and it is the row  *)
(* LoadLatestSnapshot's ORDER BY picks, also when a tree comes back that   *)
(* was superseded before and its old row is taken over.                    *)
LatestIsActive ==
  Stored # {} => ActiveTrees = {Latest}

(* The latest snapshot has all of its entries and the file states are its  *)
(* files: deleting the entries of superseded rows never takes those the    *)
(* next diff needs (sync_store.go deleteSupersededScopeNodesSQL).          *)
LatestIsComplete ==
  Stored # {} => /\ nodes[Latest] = Latest
                 /\ fileState = FilesOf(Latest)

(* The transaction never runs into the partial unique index: whatever tree *)
(* is saved next, no statement leaves two active rows, not even for the    *)
(* next one to put right.                                                  *)
SaveNeverAborts ==
  \A t \in Trees :
    StatementsOK(t, IF Stored = {} THEN 0 ELSE rows[Latest].id, now + 1)

(* LoadLatestSnapshot's three statements may straddle a save.  What it     *)
(* returns is still the active row with either all of its entries or none, *)
(* and it is one consistent snapshot when no save came in between.         *)
LoadIsWholeOrTorn ==
  \A l \in Loaders :
    load[l].pc = "done" =>
      /\ load[l].active
      /\ load[l].nodes \in {load[l].root, EmptyTree}
      /\ load[l].began = now =>
           /\ load[l].root = Latest
           /\ load[l].nodes = load[l].root
           /\ load[l].files = FilesOf(load[l].root)

(* The parent of the active row is the row that was active before it.      *)
ParentIsReplaced ==
  [][\A t \in Trees :
       rows'[t].isActive /\ ~rows[t].isActive /\ ActiveTrees # {} =>
         rows'[t].parent = rows[Latest].id]_rows

=============================================================================
