------------------------------ MODULE TreeScan ------------------------------
(***************************************************************************)
(* What one sync execution computes between the repository on disk and the *)
(* delta it hands on: BuildSnapshot (src/internal/indexsync/snapshot)      *)
(* walks the tree, reads each file and hashes bottom up; DiffSnapshots     *)
(* (src/internal/indexsync/diff) compares the tree with the previous one   *)
(* and prunes where hashes agree.                                          *)
(*                                                                         *)
(* The repository is edited while it is walked and read, so a snapshot can *)
(* mix several moments: the names of a directory, the size of a file and   *)
(* its content are all taken at different times.  IndexSync scans in one   *)
(* step and diffs by definition; this module is why it may.                *)
(***************************************************************************)
EXTENDS Integers, FiniteSets

CONSTANTS
  Paths,           \* repository-relative paths
  Root,            \* the repository root
  Parent,          \* path -> the directory it is in
  IndexableFiles,  \* paths that ShouldIndexPath accepts
  SkippedDirs,     \* paths that shouldSkipDir prunes
  Contents,        \* file contents
  SizeOf,          \* content -> its size
  Dir, None,       \* a directory; nothing
  MaxEdits,        \* bound on edits of the repository
  MaxScans         \* bound on completed scans

ASSUME ScanAssumption ==
  /\ IsFiniteSet(Paths) /\ Root \notin Paths
  /\ Parent \in [Paths -> Paths \cup {Root}]
  /\ \E depth \in [Paths \cup {Root} -> 0 .. Cardinality(Paths)] :
       \A p \in Paths : depth[p] = depth[Parent[p]] + 1
  /\ IndexableFiles \subseteq Paths /\ SkippedDirs \subseteq Paths
  /\ SizeOf \in [Contents -> Nat]
  /\ {Dir, None} \cap Contents = {} /\ Dir # None
  /\ MaxEdits \in Nat /\ MaxScans \in Nat

VARIABLES
  disk,      \* path -> what is there
  edits,     \* edits made
  scan,      \* the scan under way
  prev,      \* the entries of the latest snapshot: path -> entry
  changes,   \* the delta of the latest snapshot
  mirror,    \* path -> content, with every delta so far applied to it
  scans,     \* scans completed
  fresh      \* nothing was edited since the latest scan began

vars == <<disk, edits, scan, prev, changes, mirror, scans, fresh>>

-----------------------------------------------------------------------------
Children(d) == {p \in Paths : Parent[p] = d}

\* What is in a directory, however deep: what every set has that contains its
\* children and theirs.
Below ==
  [d \in Paths \cup {Root} |->
     {p \in Paths : \A S \in SUBSET Paths :
        Children(d) \subseteq S /\ (\A q \in S : Children(q) \subseteq S) => p \in S}]

\* ShouldIndexPath and shouldSkipDir.
ShouldIndexPath(p) == p \in IndexableFiles
ShouldSkipDir(p)   == p \in SkippedDirs

InDirectory(t, p) == Parent[p] # Root => t[Parent[p]] = Dir

\* A repository has a directory above everything in it.
IsRepository(t) == \A p \in Paths : t[p] # None => InDirectory(t, p)

-----------------------------------------------------------------------------
(* Entries.  size is the one os.Stat gave during the walk, content what    *)
(* HashFileContent read later.                                             *)

NoEntry         == [type |-> "none", size |-> 0, content |-> None]
DirEntry        == [type |-> "dir", size |-> 0, content |-> None]
FileEntry(s, c) == [type |-> "file", size |-> s, content |-> c]

Entries == {NoEntry, DirEntry} \cup
           {FileEntry(SizeOf[c], d) : c \in Contents, d \in Contents \cup {None}}

IsFile(e) == e.type = "file"

NoEntries == [p \in Paths |-> NoEntry]

Kids(t, d) == {p \in Children(d) : t[p].type # "none"}

\* Mutant: a file is recognised by its size.
NodeHashBySize(t, p) ==
  LET h[q \in Paths \cup {Root}] ==
        IF q # Root /\ IsFile(t[q])
        THEN <<q, t[q].size, "file">>
        ELSE <<q, {h[r] : r \in Kids(t, q)}>>
  IN h[p]

\* hashFileNode and HashDirectoryNode.  The hash is taken to be injective, so
\* it is the tuple of what goes into it.
NodeHash(t, p) ==
  LET h[q \in Paths \cup {Root}] ==
        IF q # Root /\ IsFile(t[q])
        THEN <<q, t[q].content, t[q].size>>
        ELSE <<q, {h[r] : r \in Kids(t, q)}>>
  IN h[p]

-----------------------------------------------------------------------------
(* DiffSnapshots.                                                          *)

Change(op, p) == [op |-> op, path |-> p]

CollectSubtree(t, p, op) ==
  LET collect[q \in Paths] ==
        IF IsFile(t[q]) THEN {Change(op, q)}
        ELSE UNION {collect[r] : r \in Kids(t, q)}
  IN collect[p]

\* Mutant: an operation that collectDeltaPaths does not know.
ModifyAsUpdate(p) == {Change("update", p)}

Modify(p) == {Change("modify", p)}

DiffNodeRecursive(old, new, p) ==
  LET diff[q \in Paths] ==
        IF old[q].type = "none" THEN CollectSubtree(new, q, "add")
        ELSE IF new[q].type = "none" THEN CollectSubtree(old, q, "delete")
        ELSE IF old[q].type # new[q].type
             THEN CollectSubtree(old, q, "delete") \cup CollectSubtree(new, q, "add")
        ELSE IF NodeHash(old, q) = NodeHash(new, q) THEN {}
        ELSE IF IsFile(old[q]) THEN Modify(q)
        ELSE UNION {diff[r] : r \in Kids(old, q) \cup Kids(new, q)}
  IN diff[p]

\* The root hashes are compared first.  The node at the root of the previous
\* tree is rebuilt without a hash, so it is not pruned again.
DiffSnapshots(old, new) ==
  IF NodeHash(old, Root) = NodeHash(new, Root) THEN {}
  ELSE UNION {DiffNodeRecursive(old, new, q) : q \in Kids(old, Root) \cup Kids(new, Root)}

(* collectDeltaPaths.  The changes are sorted by path and then add, modify,*)
(* delete; the last change of a path wins.                                 *)

Named(delta, ops) == {c.path : c \in {d \in delta : d.op \in ops}}

\* Mutant: only what is directly in the root is removed.
DeletesAtRoot(delta) == {p \in Named(delta, {"delete"}) : Parent[p] = Root}

Deletes(delta) == Named(delta, {"delete"})
Upserts(delta) == Named(delta, {"add", "modify"}) \ Named(delta, {"delete"})

-----------------------------------------------------------------------------
(* BuildSnapshot.                                                          *)

Idle == [pc |-> "idle", todo |-> {}, seen |-> NoEntries, unread |-> {}]

Scan == [pc : {"idle", "walk", "hash"},
         todo : SUBSET [path : Paths, isDir : BOOLEAN],  \* listed, not visited
         seen : [Paths -> Entries],                      \* entries so far
         unread : SUBSET Paths]                          \* files not hashed yet

\* The names and types in a directory.
ReadDir(d) == {[path |-> p, isDir |-> disk[p] = Dir] : p \in {q \in Children(d) : disk[q] # None}}

Edit(p, v) ==
  /\ edits < MaxEdits
  /\ v # disk[p]
  /\ InDirectory(disk, p)
  /\ disk' = [q \in Paths |-> IF q = p THEN v
                              ELSE IF q \in Below[p] THEN None ELSE disk[q]]
  /\ edits' = edits + 1
  /\ fresh' = FALSE
  /\ UNCHANGED <<scan, prev, changes, mirror, scans>>

StartScan ==
  /\ scan.pc = "idle"
  /\ scans < MaxScans
  /\ scan' = [Idle EXCEPT !.pc = "walk", !.todo = ReadDir(Root)]
  /\ fresh' = TRUE
  /\ UNCHANGED <<disk, edits, prev, changes, mirror, scans>>

\* BuildSnapshot returns an error: the execution fails, nothing is kept.
BuildFails ==
  /\ scan' = Idle
  /\ fresh' = FALSE
  /\ UNCHANGED <<disk, edits, prev, changes, mirror, scans>>

Visited(e, entry, found) ==
  scan' = [scan EXCEPT !.todo = (@ \ {e}) \cup found, !.seen[e.path] = entry]

\* A directory: pruned, or recorded and read.
VisitDir(e) ==
  /\ scan.pc = "walk" /\ e \in scan.todo /\ e.isDir
  /\ \/ /\ ShouldSkipDir(e.path)
        /\ Visited(e, NoEntry, {})
     \/ /\ ~ShouldSkipDir(e.path)
        /\ disk[e.path] = Dir
        /\ Visited(e, DirEntry, ReadDir(e.path))
  /\ UNCHANGED <<disk, edits, prev, changes, mirror, scans, fresh>>

\* A directory that is no longer there ends the walk with an error.
VisitDirGone(e) ==
  /\ scan.pc = "walk" /\ e \in scan.todo /\ e.isDir
  /\ ~ShouldSkipDir(e.path) /\ disk[e.path] # Dir
  /\ BuildFails

\* A file: left out, or recorded with its size.  One that is gone by now does
\* not resolve to a path within the root and is left out too.
VisitFile(e) ==
  /\ scan.pc = "walk" /\ e \in scan.todo /\ ~e.isDir
  /\ IF ShouldIndexPath(e.path) /\ disk[e.path] \in Contents
     THEN Visited(e, FileEntry(SizeOf[disk[e.path]], None), {})
     ELSE Visited(e, NoEntry, {})
  /\ UNCHANGED <<disk, edits, prev, changes, mirror, scans, fresh>>

\* It goes away between EvalSymlinks and Stat.
VisitFileGone(e) ==
  /\ scan.pc = "walk" /\ e \in scan.todo /\ ~e.isDir
  /\ ShouldIndexPath(e.path) /\ disk[e.path] = None
  /\ BuildFails

WalkDone ==
  /\ scan.pc = "walk" /\ scan.todo = {}
  /\ scan' = [scan EXCEPT !.pc = "hash",
                          !.unread = {p \in Paths : IsFile(scan.seen[p])}]
  /\ UNCHANGED <<disk, edits, prev, changes, mirror, scans, fresh>>

\* Mutant: a file whose size is the one in the latest snapshot is not read.
HashFileIfResized(p) ==
  /\ scan.pc = "hash" /\ p \in scan.unread
  /\ disk[p] \in Contents
  /\ scan' = [scan EXCEPT !.unread = @ \ {p},
                !.seen[p].content = IF prev[p].size = scan.seen[p].size
                                    THEN prev[p].content ELSE disk[p]]
  /\ UNCHANGED <<disk, edits, prev, changes, mirror, scans, fresh>>

\* HashFileContent.
HashFile(p) ==
  /\ scan.pc = "hash" /\ p \in scan.unread
  /\ disk[p] \in Contents
  /\ scan' = [scan EXCEPT !.unread = @ \ {p}, !.seen[p].content = disk[p]]
  /\ UNCHANGED <<disk, edits, prev, changes, mirror, scans, fresh>>

HashFileGone(p) ==
  /\ scan.pc = "hash" /\ p \in scan.unread
  /\ disk[p] \notin Contents
  /\ BuildFails

\* The scan is complete: diff it, keep it, hand the delta on.
FinishScan ==
  LET delta == DiffSnapshots(prev, scan.seen) IN
  /\ scan.pc = "hash" /\ scan.unread = {}
  /\ changes' = delta
  /\ prev' = scan.seen
  /\ mirror' = [p \in Paths |->
                  IF p \in Upserts(delta) THEN scan.seen[p].content
                  ELSE IF p \in Deletes(delta) THEN None
                  ELSE mirror[p]]
  /\ scans' = scans + 1
  /\ scan' = Idle
  /\ UNCHANGED <<disk, edits, fresh>>

-----------------------------------------------------------------------------
Init ==
  /\ disk \in {t \in [Paths -> Contents \cup {Dir, None}] : IsRepository(t)}
  /\ edits = 0
  /\ scan = Idle
  /\ prev = NoEntries
  /\ changes = {}
  /\ mirror = [p \in Paths |-> None]
  /\ scans = 0
  /\ fresh = FALSE

Next ==
  \/ \E p \in Paths, v \in Contents \cup {Dir, None} : Edit(p, v)
  \/ StartScan
  \/ \E e \in scan.todo : VisitDir(e) \/ VisitDirGone(e) \/ VisitFile(e) \/ VisitFileGone(e)
  \/ WalkDone
  \/ \E p \in scan.unread : HashFile(p) \/ HashFileGone(p)
  \/ FinishScan

Spec == Init /\ [][Next]_vars

-----------------------------------------------------------------------------
(* Every variable has its type, and the disk holds a repository.           *)
TypeOK ==
  /\ disk \in [Paths -> Contents \cup {Dir, None}] /\ IsRepository(disk)
  /\ edits \in 0 .. MaxEdits
  /\ scan \in Scan
  /\ prev \in [Paths -> Entries]
  /\ changes \subseteq [op : {"add", "modify", "delete"}, path : Paths]
  /\ mirror \in [Paths -> Contents \cup {None}]
  /\ scans \in 0 .. MaxScans
  /\ fresh \in BOOLEAN

(* DiffSnapshots against its definition: pruning by hash hides no change   *)
(* and invents none, also when a file becomes a directory or a directory a *)
(* file and when the two trees were scanned while they were edited.        *)
DiffIsExact ==
  [][scans' # scans =>
       /\ Upserts(changes') = {p \in Paths : IsFile(prev'[p]) /\ prev'[p] # prev[p]}
       /\ Deletes(changes') = {p \in Paths : IsFile(prev[p]) /\ ~IsFile(prev'[p])}]_vars

(* The deltas compose: applied one after the other they give the files of  *)
(* the latest snapshot, with nothing left over from earlier ones.          *)
DeltasCompose ==
  mirror = [p \in Paths |-> prev[p].content]

\* Neither the directory nor one above it is skipped.
Visible(d) == \A s \in Paths : ShouldSkipDir(s) => d # s /\ d \notin Below[s]

(* A scan that nothing interfered with brings the mirror to the repository,*)
(* whatever mixture of moments the scans before it recorded: a torn scan   *)
(* never hides a change from the next one.                                 *)
QuietScanIsFaithful ==
  fresh /\ scan.pc = "idle" =>
    mirror = [p \in Paths |->
                IF disk[p] \in Contents /\ ShouldIndexPath(p) /\ Visible(Parent[p])
                THEN disk[p] ELSE None]

=============================================================================
