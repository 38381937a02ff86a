------------------------ MODULE SnapshotStoreProofs ------------------------
(***************************************************************************)
(* For every set of paths and contents, any number of loaders and any      *)
(* bound on time: the active snapshot is unique, it is the latest one, it  *)
(* is complete, and a load is whole unless a save came in between.         *)
(*                                                                         *)
(* The invariants the runs check mention Latest, a CHOOSE over the stored  *)
(* rows.  The inductive invariant names the active tree instead: once      *)
(* there is a row, one tree Current is active, has its entries and its     *)
(* files.  LatestUnique shows that the ORDER BY then picks it.             *)
(***************************************************************************)
EXTENDS SnapshotStore, TLAPS

\* t is the one active snapshot and it is complete.
Current(t) ==
  /\ t \in Stored
  /\ \A u \in Trees : rows[u].isActive <=> u = t
  /\ nodes[t] = t
  /\ fileState = FilesOf(t)

TablesInv ==
  /\ Stored = {} => \A u \in Trees : ~rows[u].isActive
  /\ Stored # {} => \E t \in Trees : Current(t)
  /\ \A u \in Trees : nodes[u] \in {u, EmptyTree}
  /\ Stored # {} => now > 0

\* Where a load stands with respect to the tables.
LoadInv(l) ==
  /\ load[l].began <= now
  /\ load[l].pc \in {"root", "nodes", "done"} =>
       /\ load[l].active
       /\ load[l].nodes \in {load[l].root, EmptyTree}
       /\ load[l].began = now =>
            /\ Current(load[l].root)
            /\ load[l].pc # "root" => load[l].nodes = load[l].root
            /\ load[l].pc = "done" => load[l].files = fileState

IInv == TypeOK /\ TablesInv /\ \A l \in Loaders : LoadInv(l)

-----------------------------------------------------------------------------
(* The empty tree and the files of a tree are trees.                       *)
LEMMA TreeFacts ==
  /\ EmptyTree \in Trees
  /\ \A t \in Trees : FilesOf(t) \in Trees
BY DEF EmptyTree, Trees, Values, FilesOf

(* The ORDER BY of selectLatestSnapshotSQL picks the only active row.      *)
LEMMA LatestUnique ==
  ASSUME TypeOK, NEW t \in Trees, Current(t)
  PROVE  Latest = t
<1>1. \A u \in Stored : Precedes(rows[t], rows[u])
  BY DEF Current, Precedes, Stored, TypeOK, Row
<1>2. ASSUME NEW s \in Stored, \A u \in Stored : Precedes(rows[s], rows[u])
      PROVE  s = t
  <2>1. Precedes(rows[s], rows[t])
    BY <1>2 DEF Current
  <2>2. rows[s].isActive
    BY <2>1 DEF Current, Precedes, Stored, TypeOK, Row
  <2> QED
    BY <2>2 DEF Current, Stored
<1>3. t \in Stored
  BY DEF Current
<1> QED
  BY <1>1, <1>2, <1>3 DEF Latest

(* What the statements of the transaction leave in index_snapshots.        *)
LEMMA SavedRowsFacts ==
  ASSUME TypeOK, NEW t \in Trees, NEW parent \in Nat, NEW at \in Nat \ {0}
  PROVE  LET r == SavedRows(t, parent, at) IN
         /\ r \in [Trees -> Row]
         /\ \A u \in Trees : r[u].isActive <=> u = t
         /\ r[t].id # 0
         /\ parent # 0 => r[t].parent = parent
         /\ ActiveIndexOK(rows) => StatementsOK(t, parent, at)
<1> DEFINE r1 == UpsertRoot(rows, t, parent, at)
           r2 == Deactivate(r1, t, at)
           r3 == Finalize(r2, t, parent, at)
<1>1. /\ r1 \in [Trees -> Row] /\ r1[t].id # 0
      /\ \A u \in Trees : r1[u].isActive => rows[u].isActive
  <2>1. rows \in [Trees -> Row] /\ rows[t] \in Row
    BY DEF TypeOK
  <2>2. r1 = [rows EXCEPT ![t] = r1[t]]
    BY <2>1 DEF UpsertRoot
  <2>3. CASE rows[t].id = 0
    <3>1. r1[t] = [id |-> at, parent |-> parent, status |-> "active",
                   isActive |-> FALSE, completedAt |-> at]
      BY <2>1, <2>3 DEF UpsertRoot
    <3>2. r1[t] \in Row /\ r1[t].id # 0 /\ ~r1[t].isActive
      BY <3>1 DEF Row, Statuses
    <3> QED
      BY <2>1, <2>2, <3>2
  <2>4. CASE rows[t].id # 0
    <3>1. r1[t] = [rows[t] EXCEPT !.parent = Coalesce(parent, rows[t].parent),
                                  !.status = "active", !.completedAt = at]
      BY <2>1, <2>4 DEF UpsertRoot
    <3>2. Coalesce(parent, rows[t].parent) \in Nat
      BY <2>1 DEF Coalesce, Row
    <3>3. /\ r1[t] \in Row /\ r1[t].id # 0
          /\ r1[t].isActive = rows[t].isActive
      BY <2>1, <2>4, <3>1, <3>2 DEF Row, Statuses
    <3> QED
      BY <2>1, <2>2, <3>3
  <2> QED
    BY <2>3, <2>4
<1> HIDE DEF r1
<1>2. /\ r2 \in [Trees -> Row]
      /\ r2[t] = r1[t]
      /\ \A u \in Trees : u # t => ~r2[u].isActive
  BY <1>1 DEF Deactivate, Row, Statuses, Coalesce
<1> HIDE DEF r2
<1>3. /\ r3 \in [Trees -> Row]
      /\ \A u \in Trees : u # t => r3[u] = r2[u]
      /\ r3[t].isActive
      /\ r3[t].id # 0
      /\ parent # 0 => r3[t].parent = parent
  BY <1>1, <1>2 DEF Finalize, Row, Statuses, Coalesce
<1> HIDE DEF r3
<1>4. RowsAfter(t, parent, at) = <<r1, r2, r3>>
  BY DEF RowsAfter, r1, r2, r3
<1>5. SavedRows(t, parent, at) = r3
  BY <1>4 DEF SavedRows
<1>6. ASSUME ActiveIndexOK(rows) PROVE StatementsOK(t, parent, at)
  <2>1. ActiveIndexOK(r1)
    BY <1>1, <1>6 DEF ActiveIndexOK
  <2>2. ActiveIndexOK(r2) /\ ActiveIndexOK(r3)
    BY <1>2, <1>3 DEF ActiveIndexOK
  <2> QED
    BY <1>4, <2>1, <2>2 DEF StatementsOK
<1> QED
  BY <1>2, <1>3, <1>5, <1>6

(* A save leaves its tree current.                                         *)
LEMMA SaveMakesCurrent ==
  ASSUME TypeOK, TablesInv, NEW t \in Trees, NEW parent \in Nat,
         SaveSnapshotState(t, parent)
  PROVE  /\ rows' \in [Trees -> Row] /\ nodes' \in [Trees -> Trees]
         /\ fileState' \in Trees /\ now' \in Nat /\ now' = now + 1
         /\ Current(t)' /\ TablesInv'
         /\ parent # 0 => rows'[t].parent = parent
<1>1. /\ now + 1 \in Nat \ {0}
      /\ rows' = SavedRows(t, parent, now + 1)
      /\ nodes' = PurgeOtherNodes(WriteNodes(nodes, t), t)
      /\ fileState' = FilesOf(t)
      /\ now' = now + 1
  BY DEF SaveSnapshotState, WriteFileState, TypeOK
<1>2. /\ rows' \in [Trees -> Row]
      /\ \A u \in Trees : rows'[u].isActive <=> u = t
      /\ rows'[t].id # 0
      /\ parent # 0 => rows'[t].parent = parent
  BY <1>1, SavedRowsFacts
<1>3. /\ nodes' \in [Trees -> Trees]
      /\ nodes'[t] = t
      /\ \A u \in Trees : nodes'[u] \in {u, EmptyTree}
  BY <1>1, TreeFacts DEF PurgeOtherNodes, WriteNodes, TypeOK
<1>4. Current(t)'
  BY <1>1, <1>2, <1>3 DEF Current, Stored
<1>5. TablesInv'
  BY <1>1, <1>2, <1>3, <1>4 DEF TablesInv, Stored, TypeOK
<1> QED
  BY <1>1, <1>2, <1>3, <1>4, <1>5, TreeFacts

(* The id of the latest row is a number, 0 only when there is no row.      *)
LEMMA LatestId ==
  ASSUME TypeOK, TablesInv, Stored # {}
  PROVE  /\ Latest \in Trees
         /\ rows[Latest].id \in Nat \ {0}
         /\ Current(Latest)
<1>1. PICK t \in Trees : Current(t)
  BY DEF TablesInv
<1>2. Latest = t
  BY <1>1, LatestUnique
<1> QED
  BY <1>1, <1>2 DEF Current, Stored, TypeOK, Row

-----------------------------------------------------------------------------
LEMMA InitIInv == Init => IInv
<1> SUFFICES ASSUME Init PROVE IInv
  OBVIOUS
<1>1. TypeOK
  BY TreeFacts DEF Init, TypeOK, Row, NoRow, Statuses, Load, NoLoad
<1>2. TablesInv
  BY DEF Init, TablesInv, Stored, NoRow
<1>3. \A l \in Loaders : LoadInv(l)
  BY DEF Init, LoadInv, NoLoad
<1> QED
  BY <1>1, <1>2, <1>3 DEF IInv

LEMMA SaveKeepsIInv ==
  ASSUME IInv, NEW t \in Trees, Save(t)
  PROVE  IInv'
<1> DEFINE parent == IF Stored = {} THEN 0 ELSE rows[Latest].id
<1>1. parent \in Nat
  BY LatestId DEF IInv
<1>2. SaveSnapshotState(t, parent) /\ UNCHANGED load
  BY DEF Save
<1> HIDE DEF parent
<1>3. /\ rows' \in [Trees -> Row] /\ nodes' \in [Trees -> Trees]
      /\ fileState' \in Trees /\ now' \in Nat /\ now' = now + 1
      /\ Current(t)' /\ TablesInv'
  BY <1>1, <1>2, SaveMakesCurrent DEF IInv
<1>4. TypeOK'
  BY <1>2, <1>3 DEF IInv, TypeOK
<1>5. ASSUME NEW l \in Loaders PROVE LoadInv(l)'
  <2>1. load[l].began <= now /\ load[l].began \in Nat /\ now \in Nat
    BY DEF IInv, LoadInv, TypeOK, Load
  <2>2. load[l].began < now'
    BY <2>1, <1>3
  <2> QED
    BY <1>2, <1>3, <2>1, <2>2 DEF IInv, LoadInv
<1> QED
  BY <1>3, <1>4, <1>5 DEF IInv

LEMMA LoadKeepsIInv ==
  ASSUME IInv, NEW l \in Loaders,
         LoadRoot(l) \/ LoadNodes(l) \/ LoadFiles(l) \/ LoadReturn(l)
  PROVE  IInv'
<1>1. UNCHANGED tables
  BY DEF LoadRoot, LoadNodes, LoadFiles, LoadReturn
<1>2. TablesInv'
  BY <1>1 DEF IInv, TablesInv, Current, Stored, tables
<1>3. \A t : Current(t)' <=> Current(t)
  BY <1>1 DEF Current, Stored, tables
<1>4. Stored # {} => Latest \in Trees /\ Current(Latest) /\ rows[Latest].isActive
  BY LatestId DEF IInv, Current
<1>5. load' \in [Loaders -> Load] /\ LoadInv(l)'
  <2>1. load \in [Loaders -> Load] /\ load[l] \in Load /\ now \in Nat
    BY DEF IInv, TypeOK
  <2>2. CASE LoadRoot(l) /\ Stored = {}
    <3>1. load' = [load EXCEPT ![l] = [NoLoad EXCEPT !.pc = "none", !.began = now]]
      BY <2>2 DEF LoadRoot
    <3>2. [NoLoad EXCEPT !.pc = "none", !.began = now] \in Load
      BY <2>1, TreeFacts DEF NoLoad, Load
    <3>3. load' \in [Loaders -> Load] /\ load'[l].pc = "none" /\ load'[l].began = now
      BY <2>1, <3>1, <3>2 DEF NoLoad
    <3> QED
      BY <1>1, <2>1, <3>3 DEF LoadInv, tables
  <2>3. CASE LoadRoot(l) /\ Stored # {}
    <3> DEFINE new == [NoLoad EXCEPT !.pc = "root", !.root = Latest,
                          !.active = rows[Latest].isActive, !.began = now]
    <3>1. load' = [load EXCEPT ![l] = new]
      BY <2>3 DEF LoadRoot
    <3>2. /\ new.pc = "root" /\ new.root = Latest /\ new.nodes = EmptyTree
          /\ new.began = now /\ new.active = rows[Latest].isActive
      BY DEF NoLoad
    <3>3. Latest \in Trees /\ rows[Latest].isActive \in BOOLEAN
      BY <1>4, <2>3 DEF IInv, TypeOK, Row
    <3>4. new \in Load
      BY <2>1, <3>3, TreeFacts DEF Load, NoLoad
    <3> HIDE DEF new
    <3>5. load' \in [Loaders -> Load] /\ load'[l] = new
      BY <2>1, <3>1, <3>4
    <3> QED
      BY <1>1, <1>3, <1>4, <2>1, <2>3, <3>2, <3>5 DEF LoadInv, tables
  <2>4. CASE LoadNodes(l)
    <3>1. load[l].root \in Trees
      BY <2>1 DEF Load
    <3>2. nodes[load[l].root] \in {load[l].root, EmptyTree}
      BY <3>1 DEF IInv, TablesInv
    <3>3. Current(load[l].root) => nodes[load[l].root] = load[l].root
      BY DEF Current
    <3>4. /\ load' = [load EXCEPT ![l] =
                       [load[l] EXCEPT !.pc = "nodes", !.nodes = nodes[load[l].root]]]
          /\ load[l].pc = "root"
      BY <2>1, <2>4 DEF LoadNodes
    <3>5. nodes[load[l].root] \in Trees
      BY <3>1 DEF IInv, TypeOK
    <3>6. [load[l] EXCEPT !.pc = "nodes", !.nodes = nodes[load[l].root]] \in Load
      BY <2>1, <3>5 DEF Load
    <3>7. load' \in [Loaders -> Load]
      BY <2>1, <3>4, <3>6
    <3>8. /\ load'[l].pc = "nodes" /\ load'[l].nodes = nodes[load[l].root]
          /\ load'[l].root = load[l].root /\ load'[l].active = load[l].active
          /\ load'[l].began = load[l].began
      BY <2>1, <3>4 DEF Load
    <3> QED
      BY <1>1, <1>3, <3>2, <3>3, <3>4, <3>7, <3>8 DEF IInv, LoadInv, tables
  <2>5. CASE LoadFiles(l)
    <3>1. /\ load' = [load EXCEPT ![l] =
                       [load[l] EXCEPT !.pc = "done", !.files = fileState]]
          /\ load[l].pc = "nodes"
      BY <2>1, <2>5 DEF LoadFiles
    <3>2. [load[l] EXCEPT !.pc = "done", !.files = fileState] \in Load
      BY <2>1 DEF Load, IInv, TypeOK
    <3>3. load' \in [Loaders -> Load]
      BY <2>1, <3>1, <3>2
    <3>4. /\ load'[l].pc = "done" /\ load'[l].files = fileState
          /\ load'[l].nodes = load[l].nodes /\ load'[l].root = load[l].root
          /\ load'[l].active = load[l].active /\ load'[l].began = load[l].began
      BY <2>1, <3>1 DEF Load
    <3> QED
      BY <1>1, <1>3, <3>1, <3>3, <3>4 DEF IInv, LoadInv, tables
  <2>6. CASE LoadReturn(l)
    <3>1. load' = [load EXCEPT ![l] = NoLoad]
      BY <2>6 DEF LoadReturn
    <3>2. NoLoad \in Load /\ NoLoad.pc = "idle" /\ NoLoad.began = 0
      BY TreeFacts DEF NoLoad, Load
    <3> QED
      BY <1>1, <2>1, <3>1, <3>2 DEF LoadInv, tables
  <2> QED
    BY <2>2, <2>3, <2>4, <2>5, <2>6
<1>6. ASSUME NEW k \in Loaders, k # l PROVE LoadInv(k)'
  <2>1. load'[k] = load[k]
    BY <1>6 DEF LoadRoot, LoadNodes, LoadFiles, LoadReturn, IInv, TypeOK
  <2> QED
    BY <2>1, <1>1, <1>3 DEF IInv, LoadInv, tables
<1>7. TypeOK'
  BY <1>1, <1>5 DEF IInv, TypeOK, tables
<1> QED
  BY <1>2, <1>5, <1>6, <1>7 DEF IInv

(* The inductive invariant is kept by every step.                          *)
LEMMA StepIInv == IInv /\ [Next]_vars => IInv'
<1> SUFFICES ASSUME IInv, [Next]_vars PROVE IInv'
  OBVIOUS
<1>1. CASE UNCHANGED vars
  BY <1>1 DEF vars, IInv, TypeOK, TablesInv, LoadInv, Current, Stored
<1>2. CASE Next
  BY <1>2, SaveKeepsIInv, LoadKeepsIInv DEF Next
<1> QED
  BY <1>1, <1>2

THEOREM Invariance == Spec => []IInv
BY InitIInv, StepIInv, PTL DEF Spec

-----------------------------------------------------------------------------
(* The tables and the loads always have their types.                       *)
THEOREM TypeCorrect == Spec => []TypeOK
<1>1. IInv => TypeOK
  BY DEF IInv
<1> QED
  BY <1>1, Invariance, PTL

(* The one active snapshot is the one LoadLatestSnapshot selects.          *)
THEOREM LatestIsActiveTheorem == Spec => []LatestIsActive
<1>1. IInv => LatestIsActive
  <2> SUFFICES ASSUME IInv, Stored # {} PROVE ActiveTrees = {Latest}
    BY DEF LatestIsActive
  <2> QED
    BY LatestId DEF IInv, Current, ActiveTrees
<1> QED
  BY <1>1, Invariance, PTL

(* The latest snapshot is complete whenever it is read.                    *)
THEOREM LatestIsCompleteTheorem == Spec => []LatestIsComplete
<1>1. IInv => LatestIsComplete
  BY LatestId DEF IInv, Current, LatestIsComplete
<1> QED
  BY <1>1, Invariance, PTL

(* No statement of a save runs into the partial unique index.              *)
THEOREM SaveNeverAbortsTheorem == Spec => []SaveNeverAborts
<1>1. IInv => SaveNeverAborts
  <2> SUFFICES ASSUME IInv, NEW t \in Trees
               PROVE StatementsOK(t, IF Stored = {} THEN 0
                                     ELSE rows[Latest].id, now + 1)
    BY DEF SaveNeverAborts
  <2> DEFINE parent == IF Stored = {} THEN 0 ELSE rows[Latest].id
  <2>1. parent \in Nat /\ now + 1 \in Nat \ {0}
    BY LatestId DEF IInv, TypeOK
  <2> HIDE DEF parent
  <2>2. ActiveIndexOK(rows)
    BY DEF IInv, TablesInv, Current, ActiveIndexOK
  <2>3. StatementsOK(t, parent, now + 1)
    BY <2>1, <2>2, SavedRowsFacts DEF IInv
  <2> QED
    BY <2>3 DEF parent
<1> QED
  BY <1>1, Invariance, PTL

(* A load returns the active row with all of its entries or none of them,  *)
(* and a consistent snapshot unless a save came in between.                *)
THEOREM LoadIsWholeOrTornTheorem == Spec => []LoadIsWholeOrTorn
<1>1. IInv => LoadIsWholeOrTorn
  <2> SUFFICES ASSUME IInv, NEW l \in Loaders, load[l].pc = "done"
               PROVE /\ load[l].active
                     /\ load[l].nodes \in {load[l].root, EmptyTree}
                     /\ load[l].began = now =>
                          /\ load[l].root = Latest
                          /\ load[l].nodes = load[l].root
                          /\ load[l].files = FilesOf(load[l].root)
    BY DEF LoadIsWholeOrTorn
  <2>1. LoadInv(l) /\ TypeOK /\ load[l].root \in Trees
    BY DEF IInv, TypeOK, Load
  <2>2. Current(load[l].root) => /\ Latest = load[l].root
                                 /\ fileState = FilesOf(load[l].root)
    BY <2>1, LatestUnique DEF Current
  <2> QED
    BY <2>1, <2>2 DEF LoadInv
<1> QED
  BY <1>1, Invariance, PTL

(* A snapshot that becomes active has the replaced one as parent, also     *)
(* when its row was superseded before and had another parent.              *)
THEOREM ParentIsReplacedTheorem == Spec => ParentIsReplaced
<1> DEFINE A == \A t \in Trees :
       rows'[t].isActive /\ ~rows[t].isActive /\ ActiveTrees # {} =>
         rows'[t].parent = rows[Latest].id
<1>1. IInv /\ [Next]_vars => [A]_rows
  <2> SUFFICES ASSUME IInv, Next PROVE A \/ UNCHANGED rows
    BY DEF vars
  <2>1. ASSUME NEW u \in Trees, Save(u) PROVE A
    <3> SUFFICES ASSUME NEW t \in Trees, rows'[t].isActive, ~rows[t].isActive,
                        ActiveTrees # {}
                 PROVE  rows'[t].parent = rows[Latest].id
      OBVIOUS
    <3>1. Stored # {}
      BY DEF IInv, TablesInv, ActiveTrees
    <3>2. rows[Latest].id \in Nat \ {0} /\ SaveSnapshotState(u, rows[Latest].id)
      BY <2>1, <3>1, LatestId DEF Save, IInv
    <3>3. Current(u)' /\ rows'[u].parent = rows[Latest].id
      BY <3>2, SaveMakesCurrent DEF IInv
    <3>4. t = u
      BY <3>3 DEF Current
    <3> QED
      BY <3>3, <3>4
  <2>2. ASSUME NEW l \in Loaders,
               LoadRoot(l) \/ LoadNodes(l) \/ LoadFiles(l) \/ LoadReturn(l)
        PROVE UNCHANGED rows
    BY <2>2 DEF LoadRoot, LoadNodes, LoadFiles, LoadReturn, tables
  <2> QED
    BY <2>1, <2>2 DEF Next
<1> QED
  BY <1>1, Invariance, PTL DEF Spec, ParentIsReplaced

=============================================================================
