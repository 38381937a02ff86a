----------------------------- MODULE IndexSync -----------------------------
(***************************************************************************)
(* The index-sync pipeline of one (session, repository root) scope:        *)
(*                                                                         *)
(*   index_repo tool --sync job--> SyncWorker --index job--> IndexWorker   *)
(*                                                                         *)
(* The SyncWorker scans the repository, diffs the tree with the latest     *)
(* snapshot, saves the new snapshot (SnapshotStore) and enqueues the file  *)
(* delta (RiverQueue).  The IndexWorker re-reads the changed files, merges *)
(* their chunks into the stored ones and replaces the repository's chunks. *)
(* Both run in the processes Procs; people edit the repository meanwhile;  *)
(* calls fail, processes stop and crash, and River retries.                *)
(*                                                                         *)
(* Each action is one interaction of a worker with the outside world: a    *)
(* scan, a database statement or transaction, an insert.  Local            *)
(* computation happens with the interaction that uses it.                  *)
(***************************************************************************)
EXTENDS Integers, FiniteSets

CONSTANTS
  Paths, Contents, Blank, EmptyDir, Absent,   \* see SnapshotStore
  JobIds, UniqueStates, MaxAttempts,          \* see RiverQueue
  Procs,       \* processes that run the workers
  NoProc,      \* no process
  Embedder,    \* TRUE when the DeltaApplier has an embedder
  MaxTime,     \* bound on saved snapshots
  MaxEdits,    \* bound on edits of the repository
  MaxFaults    \* bound on failed calls, stops and crashes

ASSUME PipelineAssumption ==
  /\ Blank \notin Contents
  /\ EmptyDir \notin Contents \cup {Blank}
  /\ Absent \notin Contents \cup {Blank, EmptyDir}
  /\ {"available", "running", "retryable"} \subseteq UniqueStates
  /\ UniqueStates \subseteq {"available", "running", "retryable", "completed"}
  /\ MaxAttempts \in Nat \ {0}
  /\ MaxTime \in Nat
  /\ NoProc \notin Procs
  /\ Embedder \in BOOLEAN
  /\ MaxEdits \in Nat
  /\ MaxFaults \in Nat

VARIABLES
  fs,          \* the repository: path -> what is there
  edits,       \* edits made
  rows, nodes, fileState, now,   \* the snapshot tables
  chunks,      \* index_chunks: path -> the content its chunks were cut from
  jobs,        \* the job table
  exec,        \* job -> the execution of its Work method
  checkpoint,  \* process -> memoryIndexApplyCheckpoint record of its worker
  faults,      \* faults so far
  cause        \* history: path -> why its chunks may differ from the snapshot

storeVars == <<rows, nodes, fileState, now>>
vars == <<fs, edits, rows, nodes, fileState, now, chunks, jobs, exec,
          checkpoint, faults, cause>>

Store == INSTANCE SnapshotStore
           WITH Loaders <- {}, load <- [l \in {} |-> l]

Trees      == Store!Trees
EmptyTree  == Store!EmptyTree
FileValues == Store!FileValues
Values     == Store!Values
Stored     == Store!Stored
Latest     == Store!Latest

\* The tree of the latest snapshot; the empty one before the first save.
Snapshot == IF Stored = {} THEN EmptyTree ELSE Latest

-----------------------------------------------------------------------------
(* Deltas.  An index job carries the snapshot it was computed for and the  *)
(* files to index again and to remove.                                     *)

IsFile(v) == v \in FileValues

\* DiffSnapshots followed by collectDeltaPaths, on the files of two trees.
Upserts(old, new) == {p \in Paths : IsFile(new[p]) /\ new[p] # old[p]}
Deletes(old, new) == {p \in Paths : IsFile(old[p]) /\ ~IsFile(new[p])}

Delta(old, new) == [snap |-> new, ups |-> Upserts(old, new),
                    dels |-> Deletes(old, new)]

Payloads  == [snap : Trees, ups : SUBSET Paths, dels : SUBSET Paths]
NoPayload == [snap |-> EmptyTree, ups |-> {}, dels |-> {}]

ChangedPaths(d) == d.ups \cup d.dels

Kinds == {"sync", "index"}

Queue == INSTANCE RiverQueue

-----------------------------------------------------------------------------
(* Chunks.  Absent stands for "no chunk rows".                             *)

\* Mutant: blank content gives a chunk too.
ChunksOfAnyFile(v) == IF IsFile(v) THEN v ELSE Absent

\* The chunks ChunkDocument cuts from a file: none from blank content.
ChunksOf(v) == IF v \in Contents THEN v ELSE Absent

ChunkMaps == [Paths -> Contents \cup {Absent}]

\* Mutant: the rows of a deleted path are kept.
MergeKeepsDeleted(existing, docs, d) ==
  [p \in Paths |->
     IF p \in d.ups /\ ChunksOf(docs[p]) # Absent THEN ChunksOf(docs[p])
     ELSE existing[p]]

\* Mutant: rows whose embedding is reused are lost.
MergeLosesReused(existing, docs, d) ==
  [p \in Paths |->
     IF p \in d.ups /\ ChunksOf(docs[p]) = existing[p] THEN Absent
     ELSE IF p \in d.ups /\ ChunksOf(docs[p]) # Absent THEN ChunksOf(docs[p])
     ELSE IF p \in d.dels THEN Absent
     ELSE existing[p]]

(***************************************************************************)
(* mergeChunkRecords: the stored rows of a deleted path, and of a path that*)
(* has refreshed rows, are replaced; every other stored row is kept.       *)
(* docs maps the upserted paths to the contents read.                      *)
(***************************************************************************)
MergeChunks(existing, docs, d) ==
  [p \in Paths |->
     IF p \in d.ups /\ ChunksOf(docs[p]) # Absent THEN ChunksOf(docs[p])
     ELSE IF p \in d.dels THEN Absent
     ELSE existing[p]]

-----------------------------------------------------------------------------
(* Executions of a job's Work method.                                      *)

SyncSteps  == {"build", "loadRoot", "loadNodes", "save", "enqueue"}
IndexSteps == {"check", "prepare", "replace", "mark"}
Results    == {"ok", "error", "snooze"}

Exec == [pc : {"idle", "orphan"} \cup SyncSteps \cup IndexSteps \cup Results,
         proc : Procs \cup {NoProc},
         cur : Trees,       \* the tree scanned
         prev : Trees,      \* the tree of the row LoadLatestSnapshot returned
         parent : Nat,      \* its id; 0 when there is no row
         base : Trees,      \* its entries, which the diff uses
         list : ChunkMaps,  \* the stored chunks ListRepoIndex returned
         docs : Trees]      \* the contents read for the upserted paths

NoChunks == [p \in Paths |-> Absent]

NoExec == [pc |-> "idle", proc |-> NoProc, cur |-> EmptyTree,
           prev |-> EmptyTree, parent |-> 0, base |-> EmptyTree,
           list |-> NoChunks, docs |-> EmptyTree]

Pc(i)      == exec[i].pc
Payload(i) == jobs[i].payload

\* The delta a sync execution has computed.
Computed(i) == Delta(exec[i].base, exec[i].cur)

\* End the execution with a result; nothing of its local state is kept.
Return(i, result) ==
  exec' = [exec EXCEPT ![i] = [NoExec EXCEPT !.pc = result, !.proc = exec[i].proc]]

\* A call that fails uses up one of the faults.
Fault(failed) ==
  IF failed THEN faults < MaxFaults /\ faults' = faults + 1 ELSE UNCHANGED faults

Record   == [marked : BOOLEAN, snap : Trees]
NoRecord == [marked |-> FALSE, snap |-> EmptyTree]

-----------------------------------------------------------------------------
(* History.  cause[p] says why the chunks of p may differ from the latest  *)
(* snapshot although no job is left that would apply the difference.       *)

Causes == {"dropped",    \* the delta was skipped as a duplicate index job
           "lost",       \* the sync ended between the save and the enqueue
           "discarded",  \* the index job ran out of attempts
           "skipped",    \* the checkpoint took the delta for applied
           "blank",      \* the file read was blank and its old rows were kept
           "raced"}      \* the file was edited between the scan and the read

Agrees(c, t, p) == c[p] = ChunksOf(t[p])

\* The job will still be worked on.
Live(i) == jobs[i].state \in Queue!LiveStates

\* A delta that names p is still to be applied, or to be applied again.
Pending(p) ==
  \E i \in JobIds : Live(i) /\ jobs[i].kind = "index" /\ p \in ChangedPaths(Payload(i))

\* A sync execution is about to enqueue a delta that names p.
Enqueuing(p) ==
  \E i \in JobIds : Pc(i) = "enqueue" /\ p \in ChangedPaths(Computed(i))

Blame(paths, why) ==
  cause' = [p \in Paths |-> IF p \in paths THEN cause[p] \cup {why} ELSE cause[p]]

-----------------------------------------------------------------------------
(* The outside world.                                                      *)

Edit(p, v) ==
  /\ edits < MaxEdits
  /\ v # fs[p]
  /\ fs' = [fs EXCEPT ![p] = v]
  /\ edits' = edits + 1
  /\ UNCHANGED <<storeVars, chunks, jobs, exec, checkpoint, faults, cause>>

\* The index_repo tool: EnqueueSyncJob.
IndexRepo ==
  /\ Queue!Insert("sync", NoPayload)
  /\ UNCHANGED <<fs, edits, storeVars, chunks, exec, checkpoint, faults, cause>>

\* A process dies: its executions stop where they are, its memory is gone.
Crash(w) ==
  LET mine  == {i \in JobIds : exec[i].proc = w}
      owing == {i \in mine : Pc(i) = "enqueue"}
  IN /\ Fault(TRUE)
     /\ exec' = [i \in JobIds |->
                   IF i \in mine THEN [NoExec EXCEPT !.pc = "orphan"] ELSE exec[i]]
     /\ checkpoint' = [checkpoint EXCEPT ![w] = NoRecord]
     /\ Blame(UNION {ChangedPaths(Computed(i)) : i \in owing}, "lost")
     /\ UNCHANGED <<fs, edits, storeVars, chunks, jobs>>

-----------------------------------------------------------------------------
(* River around the workers.                                               *)

Start(i, w) ==
  /\ Pc(i) = "idle"
  /\ Queue!Fetch(i)
  /\ exec' = [exec EXCEPT ![i].proc = w,
                ![i].pc = IF jobs[i].kind = "sync" THEN "build" ELSE "check"]
  /\ UNCHANGED <<fs, edits, storeVars, chunks, checkpoint, faults, cause>>

\* A failed attempt; the last one discards the job and with it its delta.
FailAttempt(i) ==
  /\ Queue!Fail(i)
  /\ Blame(IF Queue!LastAttempt(i) THEN ChangedPaths(Payload(i)) ELSE {}, "discarded")

\* The completer acts on what Work returned.
Finish(i) ==
  /\ \/ Pc(i) = "ok"     /\ Queue!Complete(i) /\ UNCHANGED cause
     \/ Pc(i) = "snooze" /\ Queue!Snooze(i)   /\ UNCHANGED cause
     \/ Pc(i) = "error"  /\ FailAttempt(i)
  /\ exec' = [exec EXCEPT ![i] = NoExec]
  /\ UNCHANGED <<fs, edits, storeVars, chunks, checkpoint, faults>>

\* The rescuer finds a running job that no process works on.
Rescue(i) ==
  /\ Pc(i) = "orphan"
  /\ FailAttempt(i)
  /\ exec' = [exec EXCEPT ![i] = NoExec]
  /\ UNCHANGED <<fs, edits, storeVars, chunks, checkpoint, faults>>

Reschedule(i) ==
  /\ Queue!Reschedule(i)
  /\ UNCHANGED <<fs, edits, storeVars, chunks, exec, checkpoint, faults, cause>>

Clean(i) ==
  /\ Queue!Clean(i)
  /\ UNCHANGED <<fs, edits, storeVars, chunks, exec, checkpoint, faults, cause>>

-----------------------------------------------------------------------------
(* SyncWorker.run.                                                         *)

\* buildSnapshot.
SyncBuild(i) ==
  /\ Pc(i) = "build"
  /\ exec' = [exec EXCEPT ![i].pc = "loadRoot", ![i].cur = fs]
  /\ UNCHANGED <<fs, edits, storeVars, chunks, jobs, checkpoint, faults, cause>>

\* LoadLatestSnapshot, the row.
SyncLoadRoot(i) ==
  /\ Pc(i) = "loadRoot"
  /\ exec' = [exec EXCEPT ![i].pc = "loadNodes", ![i].prev = Snapshot,
                ![i].parent = IF Stored = {} THEN 0 ELSE rows[Latest].id]
  /\ UNCHANGED <<fs, edits, storeVars, chunks, jobs, checkpoint, faults, cause>>

\* latestSnapshotForDiff: the tree of the entries stored for the row.
LatestSnapshotForDiff(i) == nodes[exec[i].prev]

\* Mutant: the root hashes are not compared.
SyncLoadNodesAlways(i) ==
  /\ Pc(i) = "loadNodes"
  /\ exec' = [exec EXCEPT ![i].pc = "save", ![i].base = LatestSnapshotForDiff(i)]
  /\ UNCHANGED <<fs, edits, storeVars, chunks, jobs, checkpoint, faults, cause>>

\* Mutant: any snapshot counts as current.
SyncLoadNodesNever(i) ==
  /\ Pc(i) = "loadNodes"
  /\ IF exec[i].parent # 0
     THEN Return(i, "ok")
     ELSE exec' = [exec EXCEPT ![i].pc = "save", ![i].base = LatestSnapshotForDiff(i)]
  /\ UNCHANGED <<fs, edits, storeVars, chunks, jobs, checkpoint, faults, cause>>

\* LoadLatestSnapshot, its entries; then "snapshot already current", or the
\* previous tree is rebuilt from the entries for the diff.
SyncLoadNodes(i) ==
  /\ Pc(i) = "loadNodes"
  /\ IF exec[i].parent # 0 /\ exec[i].prev = exec[i].cur
     THEN Return(i, "ok")
     ELSE exec' = [exec EXCEPT ![i].pc = "save", ![i].base = LatestSnapshotForDiff(i)]
  /\ UNCHANGED <<fs, edits, storeVars, chunks, jobs, checkpoint, faults, cause>>

\* DiffSnapshots and SaveSnapshotState.  answer is not "ok" when the commit
\* takes effect and its answer is lost: the worker sees an error, or the end of
\* its context, which turns into JobSnooze(0).
SyncSave(i, answer) ==
  LET changed == ChangedPaths(Computed(i)) IN
  /\ Pc(i) = "save"
  /\ Store!SaveSnapshotState(exec[i].cur, exec[i].parent)
  /\ Fault(answer # "ok")
  /\ IF answer = "ok" /\ changed # {}
     THEN exec' = [exec EXCEPT ![i].pc = "enqueue"]
     ELSE Return(i, answer)
  /\ cause' = [p \in Paths |->
                 IF answer # "ok" /\ p \in changed THEN cause[p] \cup {"lost"}
                 ELSE IF Agrees(chunks, exec[i].cur, p) /\ ~Pending(p) THEN {}
                 ELSE cause[p]]
  /\ UNCHANGED <<fs, edits, chunks, jobs, checkpoint>>

\* EnqueueIndexJob; a duplicate is a success too.
SyncEnqueue(i, answer) ==
  /\ Pc(i) = "enqueue"
  /\ Queue!Insert("index", Computed(i))
  /\ Fault(answer # "ok")
  /\ Return(i, answer)
  /\ Blame(IF Queue!Duplicate("index") THEN ChangedPaths(Computed(i)) ELSE {}, "dropped")
  /\ UNCHANGED <<fs, edits, storeVars, chunks, checkpoint>>

\* A call fails without effect.  A cancelled context reaches the calls that
\* take one and turns into JobSnooze(0).
SyncFails(i, result) ==
  /\ Pc(i) \in SyncSteps
  /\ result = "snooze" => Pc(i) # "build"
  /\ Fault(TRUE)
  /\ Return(i, result)
  /\ Blame(IF Pc(i) = "enqueue" THEN ChangedPaths(Computed(i)) ELSE {}, "lost")
  /\ UNCHANGED <<fs, edits, storeVars, chunks, jobs, checkpoint>>

-----------------------------------------------------------------------------
(* IndexWorker.runJob.                                                     *)

\* memoryIndexApplyCheckpoint.IsApplied of the process's own checkpoint.
IsApplied(w, d) == checkpoint[w].marked /\ checkpoint[w].snap = d.snap

\* "delta is empty; skipping apply" and "delta already applied".
Skips(i) == ChangedPaths(Payload(i)) = {} \/ IsApplied(exec[i].proc, Payload(i))

Missing(d) == {p \in ChangedPaths(d) : ~Agrees(chunks, d.snap, p)}

IndexCheck(i) ==
  /\ Pc(i) = "check"
  /\ IF Skips(i)
     THEN Return(i, "ok") /\ Blame(Missing(Payload(i)), "skipped")
     ELSE exec' = [exec EXCEPT ![i].pc = "prepare"] /\ UNCHANGED cause
  /\ UNCHANGED <<fs, edits, storeVars, chunks, jobs, checkpoint, faults>>

ListRepoIndex == chunks

\* readRepoFile of the upserted paths.
ReadDocs(d) == [p \in Paths |-> IF p \in d.ups THEN fs[p] ELSE Absent]

\* RefreshEmbeddingsForChangedChunks: chunks that are stored already keep their
\* embedding, the others need the embedder.
NeedsEmbedder(list, docs, d) ==
  \E p \in d.ups : ChunksOf(docs[p]) \notin {Absent, list[p]}

\* ApplyDeltaToIndex up to the replacement: list the stored chunks, read the
\* upserted files (one that is gone fails the whole delta), chunk, embed.
IndexPrepare(i) ==
  /\ Pc(i) = "prepare"
  /\ IF /\ \A p \in Payload(i).ups : IsFile(fs[p])
        /\ Embedder \/ ~NeedsEmbedder(ListRepoIndex, ReadDocs(Payload(i)), Payload(i))
     THEN exec' = [exec EXCEPT ![i].pc = "replace", ![i].list = ListRepoIndex,
                               ![i].docs = ReadDocs(Payload(i))]
     ELSE Return(i, "error")
  /\ UNCHANGED <<fs, edits, storeVars, chunks, jobs, checkpoint, faults, cause>>

\* Mutant: a replacement whose answer is lost is tried again with the old list.
IndexReplaceInPlace(i, acked) ==
  /\ Pc(i) = "replace"
  /\ chunks' = MergeChunks(exec[i].list, exec[i].docs, Payload(i))
  /\ Fault(~acked)
  /\ exec' = IF acked THEN [exec EXCEPT ![i].pc = "mark"] ELSE exec
  /\ UNCHANGED <<fs, edits, storeVars, jobs, checkpoint, cause>>

\* What goes wrong at p when the contents docs are merged for the delta d.
Flaws(existing, docs, d, p) ==
  {why \in {"blank", "raced"} :
     /\ p \in d.ups
     /\ why = "blank" => docs[p] = Blank /\ existing[p] # Absent
     /\ why = "raced" => docs[p] # d.snap[p]}

\* Another snapshot was saved since d was computed, and p changed in it.
Older(d, p) == ChunksOf(d.snap[p]) # ChunksOf(Snapshot[p])

\* mergeChunkRecords and ReplaceRepoIndex.  A delta that is older than the
\* snapshot does not settle what has happened to the newer ones.
IndexReplace(i, acked) ==
  LET d      == Payload(i)
      merged == MergeChunks(exec[i].list, exec[i].docs, d)
  IN /\ Pc(i) = "replace"
     /\ chunks' = merged
     /\ Fault(~acked)
     /\ IF acked THEN exec' = [exec EXCEPT ![i].pc = "mark"] ELSE Return(i, "error")
     /\ cause' = [p \in Paths |->
                    IF ~Agrees(merged, Snapshot, p)
                    THEN cause[p] \cup Flaws(exec[i].list, exec[i].docs, d, p)
                    ELSE IF Older(d, p) THEN cause[p]
                    ELSE {}]
     /\ UNCHANGED <<fs, edits, storeVars, jobs, checkpoint>>

\* MarkApplied.
IndexMark(i) ==
  /\ Pc(i) = "mark"
  /\ checkpoint' = [checkpoint EXCEPT ![exec[i].proc] =
                      [marked |-> TRUE, snap |-> Payload(i).snap]]
  /\ Return(i, "ok")
  /\ UNCHANGED <<fs, edits, storeVars, chunks, jobs, faults, cause>>

\* Listing, reading, embedding or replacing fails without effect.
IndexFails(i) ==
  /\ Pc(i) \in {"prepare", "replace"}
  /\ Fault(TRUE)
  /\ Return(i, "error")
  /\ UNCHANGED <<fs, edits, storeVars, chunks, jobs, checkpoint, cause>>

-----------------------------------------------------------------------------
Init ==
  /\ fs \in Trees
  /\ edits = 0
  /\ Store!Init
  /\ chunks = NoChunks
  /\ jobs = [i \in JobIds |-> Queue!FreeSlot("sync")]
  /\ exec = [i \in JobIds |-> NoExec]
  /\ checkpoint = [w \in Procs |-> NoRecord]
  /\ faults = 0
  /\ cause = [p \in Paths |-> {}]

SyncStep(i) ==
  \/ SyncBuild(i)
  \/ SyncLoadRoot(i)
  \/ SyncLoadNodes(i)
  \/ SyncSave(i, "ok")
  \/ SyncEnqueue(i, "ok")

IndexStep(i) ==
  \/ IndexCheck(i)
  \/ IndexPrepare(i)
  \/ IndexReplace(i, TRUE)
  \/ IndexMark(i)

RiverStep(i) ==
  \/ \E w \in Procs : Start(i, w)
  \/ Finish(i)
  \/ Rescue(i)
  \/ Reschedule(i)

FaultStep(i) ==
  \/ \E answer \in {"error", "snooze"} :
       SyncSave(i, answer) \/ SyncEnqueue(i, answer) \/ SyncFails(i, answer)
  \/ IndexReplace(i, FALSE)
  \/ IndexFails(i)

Next ==
  \/ \E p \in Paths, v \in Values : Edit(p, v)
  \/ IndexRepo
  \/ \E w \in Procs : Crash(w)
  \/ \E i \in JobIds : SyncStep(i) \/ IndexStep(i) \/ RiverStep(i) \/ FaultStep(i) \/ Clean(i)

Spec == Init /\ [][Next]_vars

-----------------------------------------------------------------------------
(* Every variable has its type.                                            *)
TypeOK ==
  /\ fs \in Trees
  /\ edits \in 0 .. MaxEdits
  /\ Store!TypeOK
  /\ chunks \in ChunkMaps
  /\ Queue!TypeOK
  /\ exec \in [JobIds -> Exec]
  /\ checkpoint \in [Procs -> Record]
  /\ faults \in 0 .. MaxFaults
  /\ cause \in [Paths -> SUBSET Causes]

\* The difference at p is on its way.
OnItsWay(p) == Pending(p) \/ Enqueuing(p)

(* The tree a sync execution diffs against is the latest snapshot, whole,  *)
(* when it saves: no other save comes between its LoadLatestSnapshot and   *)
(* its SaveSnapshotState, so no change is left out of a delta or counted   *)
(* in two.                                                                 *)
DiffBaseIsLatest ==
  \A i \in JobIds :
    Pc(i) = "save" => /\ exec[i].base = Snapshot
                      /\ exec[i].parent = IF Stored = {} THEN 0 ELSE rows[Latest].id

(* Chunks differ from the latest snapshot only where a delta is on its way *)
(* or for one of the six causes: there is no other way in which the       *)
(* pipeline lets the index drift.                                          *)
DriftIsExplained ==
  \A p \in Paths : ~Agrees(chunks, Snapshot, p) => OnItsWay(p) \/ cause[p] # {}

(* ListRepoIndex and ReplaceRepoIndex are separate transactions; what was  *)
(* listed is still what is stored when it is replaced, so no application   *)
(* overwrites another one.                                                 *)
NoLostReplace ==
  \A i \in JobIds : Pc(i) = "replace" => exec[i].list = chunks

(* A replacement changes the chunks of a path only if the delta names it   *)
(* and the stored chunks are not those of the content read.  A delta that  *)
(* is applied a second time, after a crash or a commit whose answer was    *)
(* lost and with the same files on disk, therefore changes nothing         *)
(* (worker_test.go                                                         *)
(* TestIndexWorkerRetriesAndRepeatedExecutionRemainIdempotent).            *)
ReplaceIsIncremental ==
  [][\A i \in JobIds, p \in Paths :
       Pc(i) = "replace" /\ chunks'[p] # chunks[p] =>
         p \in ChangedPaths(Payload(i)) /\ ~Agrees(chunks, exec[i].docs, p)]_vars

(* The snapshot tables change as SnapshotStore lets them: the saves of the *)
(* pipeline are in sequence, each on top of the snapshot it was diffed     *)
(* with.                                                                   *)
StoreRefinement == Store!Spec

-----------------------------------------------------------------------------
(* Liveness.  River keeps fetching, completing, rescuing and rescheduling  *)
(* jobs, a worker goes on with the job it runs, and finalized rows expire; *)
(* nothing is assumed of the people who edit and request, nor of faults.   *)

Fairness ==
  \A i \in JobIds : /\ WF_vars(SyncStep(i))
                    /\ WF_vars(IndexStep(i))
                    /\ WF_vars(RiverStep(i))
                    /\ WF_vars(Clean(i))

FairSpec == Spec /\ Fairness

(* A difference between chunks and snapshot does not stay on its way for   *)
(* ever: it is indexed or its delta is gone for a known cause, although    *)
(* jobs fail, are snoozed, lose their process and wait for one another.    *)
DriftSettles ==
  \A p \in Paths :
    ~Agrees(chunks, Snapshot, p) ~> Agrees(chunks, Snapshot, p) \/ cause[p] # {}

SyncAvailable == \E i \in JobIds : jobs[i].kind = "sync" /\ jobs[i].state = "available"
SyncDiscarded == \E i \in JobIds : jobs[i].kind = "sync" /\ jobs[i].state = "discarded"

(* A sync job that has not started yet brings the snapshot to the tree in  *)
(* the repository, unless it is edited again or the job is discarded.      *)
RequestedScanIsSaved ==
  \A t \in Trees :
    fs = t /\ SyncAvailable ~> Snapshot = t \/ fs # t \/ SyncDiscarded

-----------------------------------------------------------------------------
(* What the repository's documents and messages say of the pipeline.       *)

\* No job is left to run.
Quiet == \A i \in JobIds : ~Live(i)

(* INDX-02 (.planning/REQUIREMENTS.md): changes are detected and indexed   *)
(* incrementally.  Once the jobs are done and the snapshot is the          *)
(* repository, the index is that of the repository.                        *)
SyncedIndexIsFresh ==
  Quiet /\ Stored # {} /\ Snapshot = fs => \A p \in Paths : Agrees(chunks, fs, p)

(* When an application has replaced the chunks, those of every file it     *)
(* upserted are the chunks of the content it read: no stale ones remain    *)
(* (.planning/research/PITFALLS.md).                                       *)
AppliedFilesAreReplaced ==
  \A i \in JobIds :
    Pc(i) = "mark" => \A p \in Payload(i).ups : Agrees(chunks, exec[i].docs, p)

=============================================================================
