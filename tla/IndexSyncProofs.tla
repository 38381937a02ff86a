-------------------------- MODULE IndexSyncProofs --------------------------
(***************************************************************************)
(* The pipeline for every repository, job table, number of processes and   *)
(* bound: the index drifts from the snapshot only for a known cause, the   *)
(* reads of both workers are still true when they write, a replacement is  *)
(* incremental, and the pipeline implements SnapshotStore and RiverQueue.  *)
(*                                                                         *)
(* The argument rests on two facts.  The unique insert gives mutual        *)
(* exclusion of the executions of one kind (Exclusive), so what an         *)
(* execution read before it saves or replaces is what is stored (ExecInv). *)
(* DriftIsExplained is not inductive: a pending delta explains a drift     *)
(* only if it ends the drift or leaves a cause behind when it is applied,  *)
(* and one that is older than the snapshot does not end it.  DriftInv says *)
(* for which deltas a cause must be there already: those that are older    *)
(* than the snapshot, and those that have been applied.                    *)
(***************************************************************************)
EXTENDS IndexSync, TLAPS

StoreProofs == INSTANCE SnapshotStoreProofs
                 WITH Loaders <- {}, load <- [l \in {} |-> l]

QueueProofs == INSTANCE RiverQueueProofs

-----------------------------------------------------------------------------
\* The id of the latest row, 0 when there is none.
LatestId == IF Stored = {} THEN 0 ELSE rows[Latest].id

\* An execution is at a step of its job's kind, and what it has read is still
\* what is stored when it is used.
ExecInv(i) ==
  /\ Pc(i) = "idle" <=> jobs[i].state # "running"
  /\ Pc(i) = "idle" => exec[i].proc = NoProc
  /\ Pc(i) \in SyncSteps => jobs[i].kind = "sync"
  /\ Pc(i) \in IndexSteps => jobs[i].kind = "index"
  /\ Pc(i) \in {"loadNodes", "save"} =>
       exec[i].prev = Snapshot /\ exec[i].parent = LatestId
  /\ Pc(i) = "save" =>
       /\ exec[i].base = Snapshot
       /\ Stored # {} => exec[i].cur # Latest
  /\ Pc(i) = "enqueue" => exec[i].cur = Snapshot
  /\ Pc(i) = "replace" =>
       /\ exec[i].list = chunks
       /\ \A p \in Paths \ Payload(i).ups : exec[i].docs[p] = Absent

\* A delta names a path once; it upserts files of its snapshot and deletes what
\* that lacks.
PayloadInv(i) ==
  /\ Payload(i).ups \cap Payload(i).dels = {}
  /\ \A p \in Payload(i).ups : Payload(i).snap[p] \in Contents \cup {Blank}
  /\ \A p \in Payload(i).dels : Payload(i).snap[p] \notin Contents

\* A difference at p is accounted for without the index job at work.
Excused(p) == Enqueuing(p) \/ cause[p] # {}

Drifts(p) == ~Agrees(chunks, Snapshot, p)

\* Job i carries a delta that names p.
Names(i, p) == jobs[i].kind = "index" /\ p \in ChangedPaths(Payload(i))

\* A delta that names p, is pending and older than the snapshot, or has been
\* applied, does not have to explain a difference at p.
DriftInv(p) ==
  \A i \in JobIds :
    Names(i, p) =>
      /\ Live(i) /\ Older(Payload(i), p) => Excused(p)
      /\ Pc(i) \in {"mark", "ok"} /\ Drifts(p) => Excused(p)

\* The inductive invariant.
IInv ==
  /\ TypeOK
  /\ StoreProofs!TablesInv
  /\ Queue!UniqueHolder
  /\ \A i \in JobIds : ExecInv(i) /\ PayloadInv(i)
  /\ \A p \in Paths : DriftInv(p)
  /\ DriftIsExplained

-----------------------------------------------------------------------------
(* The assumptions on the constants are those of the two components.       *)
LEMMA ComponentAssumptions ==
  StoreProofs!StoreAssumption /\ QueueProofs!QueueAssumption
<1>1. StoreProofs!StoreAssumption
  BY PipelineAssumption DEF StoreProofs!StoreAssumption, StoreProofs!FileValues
<1>2. NoPayload \in Payloads
  BY DEF NoPayload, Payloads, Trees, EmptyTree, Store!Trees, Store!EmptyTree,
         Store!Values, Store!FileValues
<1>3. QueueProofs!QueueAssumption
  BY PipelineAssumption, <1>2
     DEF QueueProofs!QueueAssumption, QueueProofs!LiveStates, Kinds
<1> QED
  BY <1>1, <1>3

(* The tables of IndexSync are those SnapshotStoreProofs reasons about.    *)
LEMMA SameStore ==
  /\ StoreProofs!Trees = Trees
  /\ StoreProofs!EmptyTree = EmptyTree
  /\ StoreProofs!Stored = Stored
  /\ StoreProofs!Stored' = Stored'
  /\ StoreProofs!Latest = Latest
  /\ StoreProofs!Latest' = Latest'
  /\ StoreProofs!TypeOK <=> Store!TypeOK
  /\ StoreProofs!TypeOK' <=> Store!TypeOK'
  /\ \A t, q : StoreProofs!SaveSnapshotState(t, q) <=> Store!SaveSnapshotState(t, q)
<1>1. StoreProofs!Trees = Trees /\ StoreProofs!EmptyTree = EmptyTree
  BY DEF StoreProofs!Trees, Trees, Store!Trees, StoreProofs!EmptyTree, EmptyTree,
         Store!EmptyTree, StoreProofs!Values, Store!Values,
         StoreProofs!FileValues, Store!FileValues
<1>2. StoreProofs!Stored = Stored /\ StoreProofs!Stored' = Stored'
  BY <1>1 DEF StoreProofs!Stored, Stored, Store!Stored, Trees
<1>3. StoreProofs!Latest = Latest /\ StoreProofs!Latest' = Latest'
  BY <1>2 DEF StoreProofs!Latest, Latest, Store!Latest, StoreProofs!Precedes,
         Store!Precedes, Stored
<1>4. /\ StoreProofs!TypeOK <=> Store!TypeOK
      /\ StoreProofs!TypeOK' <=> Store!TypeOK'
  BY <1>1 DEF StoreProofs!TypeOK, Store!TypeOK, StoreProofs!Row, Store!Row,
         StoreProofs!Statuses, Store!Statuses, StoreProofs!Load, Store!Load, Trees
<1>5. ASSUME NEW t, NEW q
      PROVE  StoreProofs!SaveSnapshotState(t, q) <=> Store!SaveSnapshotState(t, q)
  BY <1>1 DEF StoreProofs!SaveSnapshotState, Store!SaveSnapshotState, 
         StoreProofs!ActiveIndexOK, Store!ActiveIndexOK,
         StoreProofs!StatementsOK, Store!StatementsOK, StoreProofs!RowsAfter, Store!RowsAfter,
         StoreProofs!SavedRows, Store!SavedRows, StoreProofs!Finalize, Store!Finalize,
         StoreProofs!Deactivate, Store!Deactivate, StoreProofs!UpsertRoot, Store!UpsertRoot,
         StoreProofs!Coalesce, Store!Coalesce, StoreProofs!PurgeOtherNodes, Store!PurgeOtherNodes,
         StoreProofs!WriteNodes, Store!WriteNodes, StoreProofs!WriteFileState, Store!WriteFileState,
         StoreProofs!FilesOf, Store!FilesOf, StoreProofs!FileValues, Store!FileValues, Trees,
         StoreProofs!EmptyTree, Store!EmptyTree
<1> QED
  BY <1>1, <1>2, <1>3, <1>4, <1>5

(* Once there is a row, the ORDER BY picks a complete tree with an id.     *)
LEMMA LatestFacts ==
  ASSUME Store!TypeOK, StoreProofs!TablesInv
  PROVE  /\ Snapshot \in Trees
         /\ LatestId \in Nat
         /\ LatestId = 0 <=> Stored = {}
         /\ Stored # {} => nodes[Latest] = Latest
<1>1. CASE Stored = {}
  BY <1>1 DEF Snapshot, LatestId, Trees, EmptyTree, Store!Trees, Store!EmptyTree,
              Store!Values
<1>2. CASE Stored # {}
  <2>1. StoreProofs!TypeOK /\ StoreProofs!Stored # {}
    BY <1>2, SameStore
  <2>2. /\ StoreProofs!Latest \in StoreProofs!Trees
        /\ rows[StoreProofs!Latest].id \in Nat \ {0}
        /\ StoreProofs!Current(StoreProofs!Latest)
    BY <2>1, ComponentAssumptions, StoreProofs!LatestId
  <2>3. nodes[StoreProofs!Latest] = StoreProofs!Latest
    BY <2>2 DEF StoreProofs!Current
  <2> QED
    BY <1>2, <2>2, <2>3, SameStore DEF Snapshot, LatestId
<1> QED
  BY <1>1, <1>2

(* The tree that is active after a step is the one read after it.          *)
LEMMA LatestUniqueNext ==
  ASSUME NEW t \in StoreProofs!Trees
  PROVE  (StoreProofs!TypeOK /\ StoreProofs!Current(t) => StoreProofs!Latest = t)'
<1>1. StoreProofs!TypeOK /\ StoreProofs!Current(t) => StoreProofs!Latest = t
  BY ComponentAssumptions, StoreProofs!LatestUnique
<1> QED
  BY <1>1, PTL

(* A save makes its tree the latest snapshot.                              *)
LEMMA SaveFacts ==
  ASSUME Store!TypeOK, StoreProofs!TablesInv, NEW t \in Trees, NEW q \in Nat,
         Store!SaveSnapshotState(t, q)
  PROVE  /\ Store!TypeOK'
         /\ StoreProofs!TablesInv'
         /\ Snapshot' = t
<1>1. StoreProofs!TypeOK /\ t \in StoreProofs!Trees /\ StoreProofs!SaveSnapshotState(t, q)
  BY SameStore
<1>2. /\ rows' \in [StoreProofs!Trees -> StoreProofs!Row]
      /\ nodes' \in [StoreProofs!Trees -> StoreProofs!Trees]
      /\ fileState' \in StoreProofs!Trees /\ now' \in Nat
      /\ StoreProofs!Current(t)' /\ StoreProofs!TablesInv'
  BY <1>1, ComponentAssumptions, StoreProofs!SaveMakesCurrent
<1>3. StoreProofs!TypeOK'
  BY <1>2 DEF StoreProofs!TypeOK
<1>4. StoreProofs!Latest' = t /\ t \in StoreProofs!Stored'
  BY <1>1, <1>2, <1>3, LatestUniqueNext DEF StoreProofs!Current
<1>5. Latest' = t /\ Stored' # {}
  BY <1>4, SameStore
<1> QED
  BY <1>2, <1>3, <1>5, SameStore DEF Snapshot

(* What stays the same when the tables do.                                 *)
LEMMA StoreStutter ==
  ASSUME UNCHANGED storeVars
  PROVE  /\ Store!TypeOK <=> Store!TypeOK'
         /\ StoreProofs!TablesInv <=> StoreProofs!TablesInv'
         /\ Stored' = Stored /\ Latest' = Latest
         /\ Snapshot' = Snapshot /\ LatestId' = LatestId
<1>1. rows' = rows /\ nodes' = nodes /\ fileState' = fileState /\ now' = now
  BY DEF storeVars
<1>2. Store!TypeOK <=> Store!TypeOK'
  BY <1>1 DEF Store!TypeOK
<1>3. StoreProofs!TablesInv <=> StoreProofs!TablesInv'
  BY <1>1 DEF StoreProofs!TablesInv, StoreProofs!Stored, StoreProofs!Current
<1>4. Stored' = Stored
  BY <1>1 DEF Stored, Store!Stored
<1>5. Latest' = Latest
  BY <1>1, <1>4 DEF Latest, Store!Latest, Stored
<1> QED
  BY <1>1, <1>2, <1>3, <1>4, <1>5 DEF Snapshot, LatestId

-----------------------------------------------------------------------------
(* The queue of IndexSync is the one RiverQueueProofs reasons about, so    *)
(* its steps keep the table well formed and its holders unique.            *)
LEMMA QueueStep ==
  ASSUME Queue!TypeOK, [Queue!Next]_jobs
  PROVE  /\ Queue!TypeOK'
         /\ Queue!UniqueHolder => Queue!UniqueHolder'
<1>1. Queue!TypeOK <=> QueueProofs!TypeOK
  BY DEF Queue!TypeOK, QueueProofs!TypeOK, Queue!Job, QueueProofs!Job,
         Queue!JobStates, QueueProofs!JobStates, Queue!LiveStates,
         QueueProofs!LiveStates, Queue!FinalStates, QueueProofs!FinalStates
<1>2. Queue!TypeOK' <=> QueueProofs!TypeOK'
  BY DEF Queue!TypeOK, QueueProofs!TypeOK, Queue!Job, QueueProofs!Job,
         Queue!JobStates, QueueProofs!JobStates, Queue!LiveStates,
         QueueProofs!LiveStates, Queue!FinalStates, QueueProofs!FinalStates
<1>3. Queue!UniqueHolder <=> QueueProofs!UniqueHolder
  BY DEF Queue!UniqueHolder, QueueProofs!UniqueHolder
<1>4. Queue!UniqueHolder' <=> QueueProofs!UniqueHolder'
  BY DEF Queue!UniqueHolder, QueueProofs!UniqueHolder
<1>5. Queue!Next <=> QueueProofs!Next
  BY DEF Queue!Next, QueueProofs!Next, Queue!Insert, QueueProofs!Insert,
         Queue!Duplicate, QueueProofs!Duplicate, Queue!Holder, QueueProofs!Holder,
         Queue!FreeIds, QueueProofs!FreeIds, Queue!Fetch, QueueProofs!Fetch,
         Queue!Complete, QueueProofs!Complete, Queue!Fail, QueueProofs!Fail,
         Queue!LastAttempt, QueueProofs!LastAttempt, Queue!Snooze,
         QueueProofs!Snooze, Queue!Reschedule, QueueProofs!Reschedule,
         Queue!Clean, QueueProofs!Clean, Queue!FreeSlot, QueueProofs!FreeSlot,
         Queue!FinalStates, QueueProofs!FinalStates
<1>6. [QueueProofs!Next]_jobs
  BY <1>5
<1>7. QueueProofs!TypeOK'
  BY <1>1, <1>6, ComponentAssumptions, QueueProofs!TypeStep
<1>8. QueueProofs!UniqueHolder => QueueProofs!UniqueHolder'
  BY <1>1, <1>6, ComponentAssumptions, QueueProofs!UniqueStep
<1> QED
  BY <1>2, <1>3, <1>4, <1>7, <1>8

(* The values that executions and checkpoints start from.                  *)
LEMMA InitialValues ==
  /\ EmptyTree \in Trees /\ NoChunks \in ChunkMaps /\ NoPayload \in Payloads
  /\ NoExec \in Exec /\ NoRecord \in Record
<1>1. EmptyTree \in Trees
  BY DEF EmptyTree, Trees, Store!EmptyTree, Store!Trees, Store!Values
<1> QED
  BY <1>1 DEF NoChunks, ChunkMaps, NoPayload, Payloads, NoExec, Exec, NoRecord, Record

(* A delta between two trees is a payload.                                 *)
LEMMA DeltaType ==
  ASSUME NEW old \in Trees, NEW new \in Trees
  PROVE  /\ Delta(old, new) \in Payloads
         /\ Delta(old, new).snap = new
         /\ Delta(old, new).ups = Upserts(old, new)
         /\ Delta(old, new).dels = Deletes(old, new)
BY DEF Delta, Payloads, Upserts, Deletes

(* What an execution has computed is a payload.                            *)
LEMMA ComputedType ==
  ASSUME TypeOK, NEW i \in JobIds
  PROVE  Computed(i) \in Payloads
BY DeltaType DEF TypeOK, Exec, Computed

(* Every step of the pipeline is a step of the queue or leaves it alone.   *)
LEMMA JobStep ==
  ASSUME TypeOK, [Next]_vars
  PROVE  [Queue!Next]_jobs
<1>1. IndexRepo => Queue!Next
  BY InitialValues DEF IndexRepo, Queue!Next, Kinds
<1>2. ASSUME NEW i \in JobIds, NEW answer \in Results, SyncEnqueue(i, answer)
      PROVE  Queue!Next
  BY <1>2, ComputedType DEF SyncEnqueue, Queue!Next, Kinds
<1>3. ASSUME NEW i \in JobIds, RiverStep(i) \/ Clean(i)
      PROVE  Queue!Next
  BY <1>3 DEF RiverStep, Clean, Start, Finish, Rescue, Reschedule, FailAttempt,
              Queue!Next
<1>4. ASSUME NEW i \in JobIds, SyncStep(i)
      PROVE  [Queue!Next]_jobs
  BY <1>2, <1>4 DEF SyncStep, SyncBuild, SyncLoadRoot, SyncLoadNodes, SyncSave, Results
<1>5. ASSUME NEW i \in JobIds, IndexStep(i)
      PROVE  UNCHANGED jobs
  BY <1>5 DEF IndexStep, IndexCheck, IndexPrepare, IndexReplace, IndexMark
<1>6. ASSUME NEW i \in JobIds, FaultStep(i)
      PROVE  [Queue!Next]_jobs
  BY <1>2, <1>6 DEF FaultStep, SyncSave, SyncFails, IndexReplace, IndexFails, Results
<1>7. ASSUME NEW p \in Paths, NEW v \in Values, Edit(p, v)
      PROVE  UNCHANGED jobs
  BY <1>7 DEF Edit
<1>8. ASSUME NEW w \in Procs, Crash(w)
      PROVE  UNCHANGED jobs
  BY <1>8 DEF Crash
<1>9. CASE UNCHANGED vars
  BY <1>9 DEF vars
<1> QED
  BY <1>1, <1>3, <1>4, <1>5, <1>6, <1>7, <1>8, <1>9 DEF Next

-----------------------------------------------------------------------------
(* What the steps do to the executions.  Frame(i): only execution i moves. *)

Frame(i) ==
  /\ exec' \in [JobIds -> Exec]
  /\ \A j \in JobIds \ {i} : exec'[j] = exec[j]

(* A returned execution keeps its process only.                            *)
LEMMA ReturnFacts ==
  ASSUME TypeOK, NEW i \in JobIds, NEW result \in Results, Return(i, result)
  PROVE  Frame(i) /\ exec'[i].pc = result /\ exec'[i].proc = exec[i].proc
<1>1. exec \in [JobIds -> Exec] /\ exec[i].proc \in Procs \cup {NoProc}
  BY DEF TypeOK, Exec
<1> DEFINE new == [NoExec EXCEPT !.pc = result, !.proc = exec[i].proc]
<1>2. new \in Exec /\ new.pc = result /\ new.proc = exec[i].proc
  BY <1>1, InitialValues DEF Exec, NoExec
<1>3. exec' = [exec EXCEPT ![i] = new]
  BY DEF Return
<1> HIDE DEF new
<1> QED
  BY <1>1, <1>2, <1>3 DEF Frame

(* A finished execution is idle.                                           *)
LEMMA ResetFacts ==
  ASSUME TypeOK, NEW i \in JobIds, exec' = [exec EXCEPT ![i] = NoExec]
  PROVE  Frame(i) /\ exec'[i].pc = "idle" /\ exec'[i].proc = NoProc
BY InitialValues DEF TypeOK, Frame, NoExec

(* A job starts at the first step of its kind.                             *)
LEMMA StartFacts ==
  ASSUME TypeOK, NEW i \in JobIds, NEW w \in Procs, Start(i, w)
  PROVE  Frame(i) /\ exec'[i].pc = IF jobs[i].kind = "sync" THEN "build" ELSE "check"
<1> DEFINE pc == IF jobs[i].kind = "sync" THEN "build" ELSE "check"
           new == [exec[i] EXCEPT !.proc = w, !.pc = pc]
<1>1. exec \in [JobIds -> Exec] /\ exec[i] \in Exec
  BY DEF TypeOK
<1>2. new \in Exec /\ new.pc = pc
  BY <1>1 DEF Exec, SyncSteps, IndexSteps
<1>3. exec' = [exec EXCEPT ![i] = new]
  BY <1>1 DEF Start, Exec
<1> HIDE DEF new
<1> QED
  BY <1>1, <1>2, <1>3 DEF Frame

(* After buildSnapshot comes the load.                                     *)
LEMMA SyncBuildFacts ==
  ASSUME TypeOK, NEW i \in JobIds, SyncBuild(i)
  PROVE  Frame(i) /\ exec'[i].pc = "loadRoot"
<1> DEFINE new == [exec[i] EXCEPT !.pc = "loadRoot", !.cur = fs]
<1>1. exec \in [JobIds -> Exec] /\ exec[i] \in Exec /\ fs \in Trees
  BY DEF TypeOK
<1>2. new \in Exec /\ new.pc = "loadRoot"
  BY <1>1 DEF Exec, SyncSteps
<1>3. exec' = [exec EXCEPT ![i] = new]
  BY <1>1 DEF SyncBuild, Exec
<1> HIDE DEF new
<1> QED
  BY <1>1, <1>2, <1>3 DEF Frame

(* The row that is read is the latest one.                                 *)
LEMMA SyncLoadRootFacts ==
  ASSUME TypeOK, StoreProofs!TablesInv, NEW i \in JobIds, SyncLoadRoot(i)
  PROVE  /\ Frame(i) /\ exec'[i].pc = "loadNodes"
         /\ exec'[i].prev = Snapshot /\ exec'[i].parent = LatestId
<1> DEFINE new == [exec[i] EXCEPT !.pc = "loadNodes", !.prev = Snapshot,
                                  !.parent = LatestId]
<1>1. exec \in [JobIds -> Exec] /\ exec[i] \in Exec
  BY DEF TypeOK
<1>2. Snapshot \in Trees /\ LatestId \in Nat
  BY LatestFacts DEF TypeOK
<1>3. /\ new \in Exec /\ new.pc = "loadNodes"
      /\ new.prev = Snapshot /\ new.parent = LatestId
  BY <1>1, <1>2 DEF Exec, SyncSteps
<1>4. exec' = [exec EXCEPT ![i] = new]
  BY <1>1 DEF SyncLoadRoot, Exec, LatestId
<1> HIDE DEF new
<1> QED
  BY <1>1, <1>3, <1>4 DEF Frame

(* Unless the snapshot is current, the entries read are the diff base.     *)
LEMMA SyncLoadNodesFacts ==
  ASSUME TypeOK, NEW i \in JobIds, SyncLoadNodes(i)
  PROVE  /\ Frame(i)
         /\ \/ exec'[i].pc = "ok"
            \/ /\ ~(exec[i].parent # 0 /\ exec[i].prev = exec[i].cur)
               /\ exec'[i].pc = "save" /\ exec'[i].cur = exec[i].cur
               /\ exec'[i].prev = exec[i].prev /\ exec'[i].parent = exec[i].parent
               /\ exec'[i].base = nodes[exec[i].prev]
<1> DEFINE new == [exec[i] EXCEPT !.pc = "save", !.base = nodes[exec[i].prev]]
<1>1. exec \in [JobIds -> Exec] /\ exec[i] \in Exec /\ nodes[exec[i].prev] \in Trees
  BY DEF TypeOK, Store!TypeOK, Exec, Trees
<1>2. /\ new \in Exec /\ new.pc = "save" /\ new.cur = exec[i].cur
      /\ new.prev = exec[i].prev /\ new.parent = exec[i].parent
      /\ new.base = nodes[exec[i].prev]
  BY <1>1 DEF Exec, SyncSteps
<1>3. CASE Return(i, "ok")
  BY <1>3, ReturnFacts DEF Results
<1>4. CASE /\ ~(exec[i].parent # 0 /\ exec[i].prev = exec[i].cur)
           /\ exec' = [exec EXCEPT ![i] = new]
  <2> HIDE DEF new
  <2> QED
    BY <1>1, <1>2, <1>4 DEF Frame
<1> QED
  BY <1>1, <1>3, <1>4 DEF SyncLoadNodes, LatestSnapshotForDiff, Exec

(* A save that changed a file goes on to the enqueue.                      *)
LEMMA SyncSaveFacts ==
  ASSUME TypeOK, NEW i \in JobIds, NEW answer \in Results, SyncSave(i, answer)
  PROVE  /\ Frame(i)
         /\ \/ /\ exec'[i].pc = answer
               /\ answer = "ok" => ChangedPaths(Computed(i)) = {}
            \/ /\ answer = "ok"
               /\ exec'[i].pc = "enqueue"
               /\ exec'[i].cur = exec[i].cur /\ exec'[i].base = exec[i].base
<1> DEFINE new == [exec[i] EXCEPT !.pc = "enqueue"]
<1>1. exec \in [JobIds -> Exec] /\ exec[i] \in Exec
  BY DEF TypeOK
<1>2. /\ new \in Exec /\ new.pc = "enqueue"
      /\ new.cur = exec[i].cur /\ new.base = exec[i].base
  BY <1>1 DEF Exec, SyncSteps
<1>3. CASE answer # "ok"
  BY <1>3, ReturnFacts DEF SyncSave
<1>4. CASE answer = "ok" /\ ChangedPaths(Computed(i)) = {}
  BY <1>4, ReturnFacts DEF SyncSave
<1>5. CASE answer = "ok" /\ ChangedPaths(Computed(i)) # {}
  <2>1. exec' = [exec EXCEPT ![i] = new]
    BY <1>1, <1>5 DEF SyncSave, Exec
  <2> HIDE DEF new
  <2> QED
    BY <1>1, <1>2, <1>5, <2>1 DEF Frame
<1> QED
  BY <1>3, <1>4, <1>5

(* The check skips the delta or goes on.                                   *)
LEMMA IndexCheckFacts ==
  ASSUME TypeOK, NEW i \in JobIds, IndexCheck(i)
  PROVE  Frame(i) /\ exec'[i].pc = IF Skips(i) THEN "ok" ELSE "prepare"
<1> DEFINE new == [exec[i] EXCEPT !.pc = "prepare"]
<1>1. exec \in [JobIds -> Exec] /\ exec[i] \in Exec
  BY DEF TypeOK
<1>2. new \in Exec /\ new.pc = "prepare"
  BY <1>1 DEF Exec, IndexSteps
<1>3. CASE Skips(i)
  BY <1>3, ReturnFacts DEF IndexCheck, Results
<1>4. CASE ~Skips(i)
  <2>1. exec' = [exec EXCEPT ![i] = new]
    BY <1>1, <1>4 DEF IndexCheck, Exec
  <2> HIDE DEF new
  <2> QED
    BY <1>1, <1>2, <1>4, <2>1 DEF Frame
<1> QED
  BY <1>3, <1>4

(* A prepared application has the stored chunks and the files read.        *)
LEMMA IndexPrepareFacts ==
  ASSUME TypeOK, NEW i \in JobIds, IndexPrepare(i)
  PROVE  /\ Frame(i)
         /\ \/ exec'[i].pc = "error"
            \/ /\ exec'[i].pc = "replace" /\ exec'[i].list = chunks
               /\ exec'[i].docs = ReadDocs(Payload(i))
<1> DEFINE new == [exec[i] EXCEPT !.pc = "replace", !.list = chunks,
                                  !.docs = ReadDocs(Payload(i))]
<1>1. exec \in [JobIds -> Exec] /\ exec[i] \in Exec /\ chunks \in ChunkMaps
  BY DEF TypeOK
<1>2. ReadDocs(Payload(i)) \in Trees
  BY DEF TypeOK, ReadDocs, Trees, Store!Trees, Store!Values
<1>3. /\ new \in Exec /\ new.pc = "replace" /\ new.list = chunks
      /\ new.docs = ReadDocs(Payload(i))
  BY <1>1, <1>2 DEF Exec, IndexSteps
<1>4. CASE Return(i, "error")
  BY <1>4, ReturnFacts DEF Results
<1>5. CASE exec' = [exec EXCEPT ![i] = new]
  <2> HIDE DEF new
  <2> QED
    BY <1>1, <1>3, <1>5 DEF Frame
<1> QED
  BY <1>1, <1>4, <1>5 DEF IndexPrepare, ListRepoIndex, Exec

(* A replacement is followed by the mark, or its answer is lost.           *)
LEMMA IndexReplaceFacts ==
  ASSUME TypeOK, NEW i \in JobIds, NEW acked \in BOOLEAN, IndexReplace(i, acked)
  PROVE  Frame(i) /\ exec'[i].pc = IF acked THEN "mark" ELSE "error"
<1> DEFINE new == [exec[i] EXCEPT !.pc = "mark"]
<1>1. exec \in [JobIds -> Exec] /\ exec[i] \in Exec
  BY DEF TypeOK
<1>2. new \in Exec /\ new.pc = "mark"
  BY <1>1 DEF Exec, IndexSteps
<1>3. CASE ~acked
  BY <1>3, ReturnFacts DEF IndexReplace, Results
<1>4. CASE acked
  <2>1. exec' = [exec EXCEPT ![i] = new]
    BY <1>1, <1>4 DEF IndexReplace, Exec
  <2> HIDE DEF new
  <2> QED
    BY <1>1, <1>2, <1>4, <2>1 DEF Frame
<1> QED
  BY <1>3, <1>4

(* A crash orphans the executions of its process.                          *)
LEMMA CrashFacts ==
  ASSUME TypeOK, NEW w \in Procs, Crash(w)
  PROVE  /\ exec' \in [JobIds -> Exec]
         /\ \A i \in JobIds : /\ exec[i].proc # w => exec'[i] = exec[i]
                              /\ exec[i].proc = w => exec'[i].pc = "orphan"
<1> DEFINE gone == [NoExec EXCEPT !.pc = "orphan"]
<1>1. gone \in Exec /\ gone.pc = "orphan"
  BY InitialValues DEF Exec, NoExec
<1>2. exec' = [i \in JobIds |-> IF exec[i].proc = w THEN gone ELSE exec[i]]
  BY DEF Crash
<1> HIDE DEF gone
<1> QED
  BY <1>1, <1>2 DEF TypeOK

-----------------------------------------------------------------------------
(* Blaming adds to the causes.                                             *)
LEMMA BlameFacts ==
  ASSUME TypeOK, NEW paths, NEW why \in Causes, Blame(paths, why)
  PROVE  /\ cause' \in [Paths -> SUBSET Causes]
         /\ \A p \in Paths : /\ cause[p] # {} => cause'[p] # {}
                             /\ p \in paths => cause'[p] # {}
BY DEF TypeOK, Blame

(* Faults stay within their bound.                                         *)
LEMMA FaultFacts ==
  ASSUME TypeOK, NEW failed \in BOOLEAN, Fault(failed)
  PROVE  faults' \in 0 .. MaxFaults
BY PipelineAssumption DEF TypeOK, Fault

(* Merging gives chunk rows again.                                         *)
LEMMA MergeType ==
  ASSUME NEW list \in ChunkMaps, NEW docs, NEW d
  PROVE  MergeChunks(list, docs, d) \in ChunkMaps
BY DEF MergeChunks, ChunkMaps, ChunksOf

\* The types of everything but the tables and the jobs.
LocalTypeOK ==
  /\ fs \in Trees /\ edits \in 0 .. MaxEdits
  /\ chunks \in ChunkMaps
  /\ exec \in [JobIds -> Exec]
  /\ checkpoint \in [Procs -> Record]
  /\ faults \in 0 .. MaxFaults
  /\ cause \in [Paths -> SUBSET Causes]

(* A step keeps the types of everything but the tables and the jobs.       *)
LEMMA LocalTypeStep ==
  ASSUME TypeOK, StoreProofs!TablesInv, [Next]_vars
  PROVE  LocalTypeOK'
<1> USE DEF LocalTypeOK
<1>0. LocalTypeOK
  BY DEF TypeOK
<1>1. ASSUME NEW p \in Paths, NEW v \in Values, Edit(p, v) PROVE LocalTypeOK'
  BY <1>0, <1>1, PipelineAssumption DEF Edit, Trees, Store!Trees, Values
<1>2. CASE IndexRepo
  BY <1>0, <1>2 DEF IndexRepo
<1>3. ASSUME NEW w \in Procs, Crash(w) PROVE LocalTypeOK'
  <2>1. checkpoint' \in [Procs -> Record]
    BY <1>0, <1>3, InitialValues DEF Crash
  <2>2. faults' \in 0 .. MaxFaults
    BY <1>3, FaultFacts DEF Crash
  <2>3. cause' \in [Paths -> SUBSET Causes]
    BY <1>3, BlameFacts DEF Crash, Causes
  <2>4. UNCHANGED <<fs, edits, chunks>>
    BY <1>3 DEF Crash
  <2> QED
    BY <1>0, <1>3, <2>1, <2>2, <2>3, <2>4, CrashFacts
<1>4. ASSUME NEW i \in JobIds, SyncStep(i) PROVE LocalTypeOK'
  <2>1. CASE SyncBuild(i)
    BY <1>0, <2>1, SyncBuildFacts DEF SyncBuild, Frame
  <2>2. CASE SyncLoadRoot(i)
    BY <1>0, <2>2, SyncLoadRootFacts DEF SyncLoadRoot, Frame
  <2>3. CASE SyncLoadNodes(i)
    BY <1>0, <2>3, SyncLoadNodesFacts DEF SyncLoadNodes, Frame
  <2>4. CASE SyncSave(i, "ok")
    BY <1>0, <2>4, SyncSaveFacts DEF SyncSave, Frame, Fault, Causes, Results
  <2>5. CASE SyncEnqueue(i, "ok")
    BY <1>0, <2>5, ReturnFacts, BlameFacts DEF SyncEnqueue, Frame, Fault, Causes, Results
  <2> QED
    BY <1>4, <2>1, <2>2, <2>3, <2>4, <2>5 DEF SyncStep
<1>5. ASSUME NEW i \in JobIds, IndexStep(i) PROVE LocalTypeOK'
  <2>1. CASE IndexCheck(i)
    BY <1>0, <2>1, IndexCheckFacts, BlameFacts DEF IndexCheck, Frame, Causes
  <2>2. CASE IndexPrepare(i)
    BY <1>0, <2>2, IndexPrepareFacts DEF IndexPrepare, Frame
  <2>3. CASE IndexReplace(i, TRUE)
    <3>1. chunks' \in ChunkMaps
      BY <1>0, <2>3, MergeType DEF IndexReplace, Exec
    <3>2. cause' \in [Paths -> SUBSET Causes]
      <4>1. \A p \in Paths : Flaws(exec[i].list, exec[i].docs, Payload(i), p) \subseteq Causes
        BY DEF Flaws, Causes
      <4> QED
        BY <1>0, <2>3, <4>1 DEF IndexReplace
    <3> QED
      BY <1>0, <2>3, <3>1, <3>2, IndexReplaceFacts DEF IndexReplace, Frame, Fault, Causes
  <2>4. CASE IndexMark(i)
    <3>1. [marked |-> TRUE, snap |-> Payload(i).snap] \in Record
      BY DEF Record, Payload, TypeOK, Queue!TypeOK, Queue!Job, Payloads
    <3>2. checkpoint' \in [Procs -> Record]
      BY <1>0, <2>4, <3>1 DEF IndexMark
    <3> QED
      BY <1>0, <2>4, <3>2, ReturnFacts DEF IndexMark, Frame, Results
  <2> QED
    BY <1>5, <2>1, <2>2, <2>3, <2>4 DEF IndexStep
<1>6. ASSUME NEW i \in JobIds, RiverStep(i) \/ Clean(i) PROVE LocalTypeOK'
  <2>1. ASSUME NEW w \in Procs, Start(i, w) PROVE LocalTypeOK'
    BY <1>0, <2>1, StartFacts DEF Start, Frame
  <2>2. CASE Finish(i)
    BY <1>0, <2>2, ResetFacts, BlameFacts DEF Finish, FailAttempt, Frame, Causes
  <2>3. CASE Rescue(i)
    BY <1>0, <2>3, ResetFacts, BlameFacts DEF Rescue, FailAttempt, Frame, Causes
  <2>4. CASE Reschedule(i) \/ Clean(i)
    BY <1>0, <2>4 DEF Reschedule, Clean
  <2> QED
    BY <1>6, <2>1, <2>2, <2>3, <2>4 DEF RiverStep
<1>7. ASSUME NEW i \in JobIds, FaultStep(i) PROVE LocalTypeOK'
  <2>1. ASSUME NEW answer \in {"error", "snooze"}, SyncSave(i, answer) PROVE LocalTypeOK'
    BY <1>0, <2>1, SyncSaveFacts, FaultFacts DEF SyncSave, Frame, Causes, Results
  <2>2. ASSUME NEW answer \in {"error", "snooze"}, SyncEnqueue(i, answer) PROVE LocalTypeOK'
    BY <1>0, <2>2, ReturnFacts, BlameFacts, FaultFacts DEF SyncEnqueue, Frame, Causes, Results
  <2>3. ASSUME NEW result \in {"error", "snooze"}, SyncFails(i, result) PROVE LocalTypeOK'
    BY <1>0, <2>3, ReturnFacts, BlameFacts, FaultFacts DEF SyncFails, Frame, Causes, Results
  <2>4. CASE IndexReplace(i, FALSE)
    <3>1. chunks' \in ChunkMaps
      BY <1>0, <2>4, MergeType DEF IndexReplace, Exec
    <3>2. cause' \in [Paths -> SUBSET Causes]
      <4>1. \A p \in Paths : Flaws(exec[i].list, exec[i].docs, Payload(i), p) \subseteq Causes
        BY DEF Flaws, Causes
      <4> QED
        BY <1>0, <2>4, <4>1 DEF IndexReplace
    <3> QED
      BY <1>0, <2>4, <3>1, <3>2, IndexReplaceFacts, FaultFacts DEF IndexReplace, Frame, Causes
  <2>5. CASE IndexFails(i)
    BY <1>0, <2>5, ReturnFacts, FaultFacts DEF IndexFails, Frame, Results
  <2> QED
    BY <1>7, <2>1, <2>2, <2>3, <2>4, <2>5 DEF FaultStep
<1>8. CASE UNCHANGED vars
  BY <1>0, <1>8 DEF vars
<1> QED
  BY <1>1, <1>2, <1>3, <1>4, <1>5, <1>6, <1>7, <1>8 DEF Next

(* The tables change in a save only, and a save keeps them in order.       *)
LEMMA TablesStep ==
  ASSUME TypeOK, StoreProofs!TablesInv, [Next]_vars
  PROVE  Store!TypeOK' /\ StoreProofs!TablesInv'
<1>1. ASSUME NEW i \in JobIds, NEW answer \in Results, SyncSave(i, answer)
      PROVE  Store!TypeOK' /\ StoreProofs!TablesInv'
  <2>1. exec[i].cur \in Trees /\ exec[i].parent \in Nat
    BY DEF TypeOK, Exec
  <2> QED
    BY <1>1, <2>1, SaveFacts DEF SyncSave, TypeOK
<1>2. CASE UNCHANGED storeVars
  BY <1>2, StoreStutter DEF TypeOK
<1> QED
  BY <1>1, <1>2
     DEF Next, vars, storeVars, Edit, IndexRepo, Crash, SyncStep, IndexStep,
         RiverStep, FaultStep, Clean, SyncBuild, SyncLoadRoot, SyncLoadNodes,
         SyncEnqueue, SyncFails, IndexCheck, IndexPrepare, IndexReplace, IndexMark,
         IndexFails, Start, Finish, Rescue, Reschedule, Results

(* Every step keeps the types and the tables, and the holders unique.      *)
LEMMA TypeStep ==
  ASSUME TypeOK, StoreProofs!TablesInv, Queue!UniqueHolder, [Next]_vars
  PROVE  TypeOK' /\ StoreProofs!TablesInv' /\ Queue!UniqueHolder'
BY LocalTypeStep, TablesStep, JobStep, QueueStep DEF TypeOK, LocalTypeOK

-----------------------------------------------------------------------------
(* What the steps do to the jobs.                                          *)

\* Only job i moves, to state s, and it keeps its delta.
JobFrame(i, s) ==
  /\ \A j \in JobIds \ {i} : jobs'[j] = jobs[j]
  /\ jobs'[i].state = s
  /\ jobs'[i].kind = jobs[i].kind
  /\ jobs'[i].payload = jobs[i].payload

(* What each queue operation does to its job.                              *)
LEMMA JobFacts ==
  ASSUME Queue!TypeOK, NEW i \in JobIds
  PROVE  /\ Queue!Fetch(i)      => JobFrame(i, "running") /\ jobs[i].state = "available"
         /\ Queue!Complete(i)   => JobFrame(i, "completed") /\ jobs[i].state = "running"
         /\ Queue!Snooze(i)     => JobFrame(i, "available") /\ jobs[i].state = "running"
         /\ Queue!Fail(i)       =>
              /\ JobFrame(i, IF Queue!LastAttempt(i) THEN "discarded" ELSE "retryable")
              /\ jobs[i].state = "running"
         /\ Queue!Reschedule(i) => JobFrame(i, "available") /\ jobs[i].state = "retryable"
<1> USE DEF Queue!TypeOK, Queue!Job, JobFrame
<1>1. Queue!Fetch(i) => JobFrame(i, "running") /\ jobs[i].state = "available"
  BY DEF Queue!Fetch
<1>2. Queue!Complete(i) => JobFrame(i, "completed") /\ jobs[i].state = "running"
  BY DEF Queue!Complete
<1>3. Queue!Snooze(i) => JobFrame(i, "available") /\ jobs[i].state = "running"
  BY DEF Queue!Snooze
<1>4. Queue!Fail(i) =>
        /\ JobFrame(i, IF Queue!LastAttempt(i) THEN "discarded" ELSE "retryable")
        /\ jobs[i].state = "running"
  BY DEF Queue!Fail
<1>5. Queue!Reschedule(i) => JobFrame(i, "available") /\ jobs[i].state = "retryable"
  BY DEF Queue!Reschedule
<1> QED
  BY <1>1, <1>2, <1>3, <1>4, <1>5

(* Cleaning frees a finalized slot.                                        *)
LEMMA CleanFacts ==
  ASSUME Queue!TypeOK, NEW i \in JobIds, Queue!Clean(i)
  PROVE  /\ \A j \in JobIds \ {i} : jobs'[j] = jobs[j]
         /\ jobs[i].state \in Queue!FinalStates
         /\ jobs'[i] = Queue!FreeSlot(jobs[i].kind)
BY DEF Queue!TypeOK, Queue!Clean

\* Job i is the new one.
NewJob(i, k, d) ==
  /\ jobs[i].state = "none"
  /\ jobs' = [jobs EXCEPT ![i] = [kind |-> k, state |-> "available",
                                  attempt |-> 0, payload |-> d]]

(* An insert is skipped as a duplicate or adds one job.                    *)
LEMMA InsertFacts ==
  ASSUME Queue!TypeOK, NEW k, NEW d, Queue!Insert(k, d)
  PROVE  \/ Queue!Duplicate(k) /\ UNCHANGED jobs
         \/ ~Queue!Duplicate(k) /\ \E i \in JobIds : NewJob(i, k, d)
BY DEF Queue!Insert, Queue!FreeIds, NewJob

(* The new job is available and has its payload; the others stay.          *)
LEMMA NewJobFacts ==
  ASSUME Queue!TypeOK, NEW k, NEW d, NEW i \in JobIds, NewJob(i, k, d)
  PROVE  /\ \A j \in JobIds \ {i} : jobs'[j] = jobs[j]
         /\ jobs'[i].state = "available" /\ jobs'[i].kind = k /\ jobs'[i].payload = d
BY DEF Queue!TypeOK, NewJob

-----------------------------------------------------------------------------
(* Deltas are well formed.                                                 *)

(* A delta upserts or deletes a path, never both.                          *)
LEMMA DeltaInv ==
  ASSUME NEW old \in Trees, NEW new \in Trees
  PROVE  /\ Upserts(old, new) \cap Deletes(old, new) = {}
         /\ \A p \in Upserts(old, new) : new[p] \in Contents \cup {Blank}
         /\ \A p \in Deletes(old, new) : new[p] \notin Contents
BY DEF Upserts, Deletes, IsFile, FileValues, Store!FileValues

(* Every step keeps the payloads well formed.                              *)
LEMMA PayloadStep ==
  ASSUME TypeOK, \A i \in JobIds : PayloadInv(i), [Next]_vars
  PROVE  \A i \in JobIds : PayloadInv(i)'
<1> SUFFICES ASSUME NEW k \in JobIds PROVE PayloadInv(k)'
  OBVIOUS
<1> USE DEF PayloadInv, Payload
<1>1. CASE jobs'[k].payload = jobs[k].payload
  BY <1>1
<1>2. CASE jobs'[k].payload = NoPayload
  BY <1>2 DEF NoPayload
<1>3. ASSUME NEW i \in JobIds, jobs'[k].payload = Computed(i) PROVE PayloadInv(k)'
  <2>1. exec[i].base \in Trees /\ exec[i].cur \in Trees
    BY DEF TypeOK, Exec
  <2> QED
    BY <1>3, <2>1, DeltaType, DeltaInv DEF Computed
<1>4. Queue!TypeOK
  BY DEF TypeOK
<1>5. CASE IndexRepo
  BY <1>1, <1>2, <1>4, <1>5, InsertFacts, NewJobFacts DEF IndexRepo
<1>6. ASSUME NEW i \in JobIds, NEW answer \in Results, SyncEnqueue(i, answer)
      PROVE  PayloadInv(k)'
  BY <1>1, <1>3, <1>4, <1>6, InsertFacts, NewJobFacts DEF SyncEnqueue
<1>7. ASSUME NEW i \in JobIds, RiverStep(i) PROVE PayloadInv(k)'
  <2>1. \E s : JobFrame(i, s)
    BY <1>4, <1>7, JobFacts
       DEF RiverStep, Start, Finish, Rescue, Reschedule, FailAttempt
  <2>2. jobs'[k].payload = jobs[k].payload
    BY <2>1 DEF JobFrame
  <2> QED
    BY <1>1, <2>2
<1>8. ASSUME NEW i \in JobIds, Clean(i) PROVE PayloadInv(k)'
  <2>1. jobs'[k] = jobs[k] \/ jobs'[k] = Queue!FreeSlot(jobs[i].kind)
    BY <1>4, <1>8, CleanFacts DEF Clean
  <2>2. jobs'[k].payload = jobs[k].payload \/ jobs'[k].payload = NoPayload
    BY <2>1 DEF Queue!FreeSlot
  <2> QED
    BY <1>1, <1>2, <2>2
<1>9. CASE UNCHANGED jobs
  BY <1>1, <1>9
<1> HIDE DEF PayloadInv, Payload
<1>10. ASSUME NEW i \in JobIds, SyncStep(i) PROVE PayloadInv(k)'
  BY <1>6, <1>9, <1>10
     DEF SyncStep, SyncBuild, SyncLoadRoot, SyncLoadNodes, SyncSave, Results
<1>11. ASSUME NEW i \in JobIds, IndexStep(i) PROVE PayloadInv(k)'
  BY <1>9, <1>11
     DEF IndexStep, IndexCheck, IndexPrepare, IndexReplace, IndexMark
<1>12. ASSUME NEW i \in JobIds, FaultStep(i) PROVE PayloadInv(k)'
  BY <1>6, <1>9, <1>12
     DEF FaultStep, SyncSave, SyncFails, IndexReplace, IndexFails, Results
<1> QED
  BY <1>5, <1>7, <1>8, <1>9, <1>10, <1>11, <1>12 DEF Next, vars, Edit, Crash

-----------------------------------------------------------------------------
(* Two executions of one kind never overlap: the unique insert.            *)
LEMMA Exclusive ==
  ASSUME Queue!UniqueHolder, \A i \in JobIds : ExecInv(i),
         NEW i \in JobIds, NEW j \in JobIds, Pc(i) # "idle", Pc(j) # "idle",
         jobs[i].kind = jobs[j].kind
  PROVE  i = j
<1>1. jobs[i].state = "running" /\ jobs[j].state = "running"
  BY DEF ExecInv
<1> QED
  BY <1>1, PipelineAssumption DEF Queue!UniqueHolder

(* An execution that does not move keeps its invariant as long as the      *)
(* tables it has read stay as they are.                                    *)
LEMMA StillExec ==
  ASSUME NEW j \in JobIds, ExecInv(j), exec'[j] = exec[j],
         \/ jobs'[j] = jobs[j]
         \/ Pc(j) = "idle" /\ jobs'[j].state # "running",
         Pc(j) \in {"loadNodes", "save", "enqueue"} => UNCHANGED storeVars,
         Pc(j) = "replace" => chunks' = chunks
  PROVE  ExecInv(j)'
<1>1. Pc(j)' = Pc(j)
  BY DEF Pc
<1>2. CASE Pc(j) = "idle"
  BY <1>1, <1>2 DEF ExecInv, SyncSteps, IndexSteps
<1>3. CASE Pc(j) \in {"loadNodes", "save", "enqueue"}
  BY <1>1, <1>3, StoreStutter DEF ExecInv, SyncSteps, IndexSteps
<1>4. CASE Pc(j) \notin {"idle", "loadNodes", "save", "enqueue"}
  BY <1>1, <1>4 DEF ExecInv, Payload
<1> QED
  BY <1>2, <1>3, <1>4

(* What is true of the executions before every step.                       *)
ExecsInv ==
  /\ TypeOK
  /\ StoreProofs!TablesInv
  /\ Queue!UniqueHolder
  /\ \A i \in JobIds : ExecInv(i)

(* A step of a sync execution keeps the invariant of all executions.       *)
LEMMA ExecStepSync ==
  ASSUME ExecsInv, NEW i \in JobIds,
         \/ SyncStep(i)
         \/ \E answer \in {"error", "snooze"} :
              SyncSave(i, answer) \/ SyncEnqueue(i, answer) \/ SyncFails(i, answer)
  PROVE  \A j \in JobIds : ExecInv(j)'
<1>0. TypeOK /\ StoreProofs!TablesInv /\ ExecInv(i) /\ Store!TypeOK /\ Queue!TypeOK
  BY DEF ExecsInv, TypeOK
<1>1. ASSUME Frame(i), UNCHANGED <<storeVars, chunks, jobs>>, Pc(i) # "idle",
             exec'[i].pc # "idle", ExecInv(i)'
      PROVE  \A j \in JobIds : ExecInv(j)'
  BY <1>1, StillExec DEF ExecsInv, Frame
<1>2. CASE SyncBuild(i)
  <2>1. Frame(i) /\ exec'[i].pc = "loadRoot" /\ UNCHANGED <<storeVars, chunks, jobs>>
    BY <1>0, <1>2, SyncBuildFacts DEF SyncBuild
  <2>2. Pc(i) = "build"
    BY <1>2 DEF SyncBuild
  <2>3. ExecInv(i)'
    BY <1>0, <2>1, <2>2 DEF ExecInv, Pc, SyncSteps, IndexSteps
  <2> QED
    BY <1>1, <2>1, <2>2, <2>3
<1>3. CASE SyncLoadRoot(i)
  <2>1. /\ Frame(i) /\ exec'[i].pc = "loadNodes"
        /\ exec'[i].prev = Snapshot /\ exec'[i].parent = LatestId
    BY <1>0, <1>3, SyncLoadRootFacts
  <2>2. Pc(i) = "loadRoot" /\ UNCHANGED <<storeVars, chunks, jobs>>
    BY <1>3 DEF SyncLoadRoot
  <2>3. ExecInv(i)'
    BY <1>0, <2>1, <2>2, StoreStutter DEF ExecInv, Pc, SyncSteps, IndexSteps
  <2> QED
    BY <1>1, <2>1, <2>2, <2>3
<1>4. CASE SyncLoadNodes(i)
  <2>1. Pc(i) = "loadNodes" /\ UNCHANGED <<storeVars, chunks, jobs>>
    BY <1>4 DEF SyncLoadNodes
  <2>2. Frame(i)
    BY <1>0, <1>4, SyncLoadNodesFacts
  <2>3. CASE exec'[i].pc = "ok"
    <3>1. ExecInv(i)'
      BY <1>0, <2>1, <2>3 DEF ExecInv, Pc, SyncSteps, IndexSteps
    <3> QED
      BY <1>1, <2>1, <2>2, <2>3, <3>1
  <2>4. CASE exec'[i].pc # "ok"
    <3>1. /\ ~(exec[i].parent # 0 /\ exec[i].prev = exec[i].cur)
          /\ exec'[i].pc = "save" /\ exec'[i].cur = exec[i].cur
          /\ exec'[i].prev = exec[i].prev /\ exec'[i].parent = exec[i].parent
          /\ exec'[i].base = nodes[exec[i].prev]
      BY <1>0, <1>4, <2>4, SyncLoadNodesFacts
    <3>2. exec[i].prev = Snapshot /\ exec[i].parent = LatestId /\ jobs[i].kind = "sync"
      BY <1>0, <2>1 DEF ExecInv, SyncSteps
    <3>3. nodes[Snapshot] = Snapshot
      <4>1. CASE Stored # {}
        BY <1>0, <4>1, LatestFacts DEF Snapshot
      <4>2. CASE Stored = {}
        BY <1>0, <4>2
           DEF StoreProofs!TablesInv, Snapshot, EmptyTree, Store!EmptyTree,
               StoreProofs!EmptyTree, StoreProofs!Trees, StoreProofs!Values
      <4> QED
        BY <4>1, <4>2
    <3>4. Stored # {} => exec[i].cur # Latest
      BY <1>0, <3>1, <3>2, LatestFacts DEF Snapshot
    <3>5. jobs[i].state = "running"
      BY <1>0, <2>1 DEF ExecInv
    <3>6. ExecInv(i)'
      BY <2>1, <3>1, <3>2, <3>3, <3>4, <3>5, StoreStutter
         DEF ExecInv, Pc, SyncSteps, IndexSteps
    <3> QED
      BY <1>1, <2>1, <2>2, <3>1, <3>6
  <2> QED
    BY <2>3, <2>4
<1>5. ASSUME NEW answer \in Results, SyncSave(i, answer) PROVE \A j \in JobIds : ExecInv(j)'
  <2>1. Pc(i) = "save" /\ UNCHANGED <<chunks, jobs>>
    BY <1>5 DEF SyncSave
  <2>2. exec[i].cur \in Trees /\ exec[i].parent \in Nat
    BY <1>0 DEF TypeOK, Exec
  <2>3. Snapshot' = exec[i].cur
    BY <1>0, <1>5, <2>2, SaveFacts DEF SyncSave
  <2>4. /\ Frame(i)
        /\ \/ exec'[i].pc \in {"ok", "error", "snooze"}
           \/ exec'[i].pc = "enqueue" /\ exec'[i].cur = exec[i].cur
    BY <1>0, <1>5, SyncSaveFacts DEF Results
  <2>5. ExecInv(i)'
    BY <1>0, <2>1, <2>3, <2>4 DEF ExecInv, Pc, SyncSteps, IndexSteps
  <2>6. ASSUME NEW j \in JobIds, j # i PROVE ExecInv(j)'
    <3>1. Pc(j) \notin SyncSteps
      BY <2>1, <2>6, Exclusive DEF ExecsInv, ExecInv, SyncSteps
    <3> QED
      BY <2>1, <2>4, <2>6, <3>1, StillExec DEF ExecsInv, Frame, SyncSteps
  <2> QED
    BY <2>5, <2>6
<1>6. ASSUME NEW answer \in Results, SyncEnqueue(i, answer) PROVE \A j \in JobIds : ExecInv(j)'
  <2>1. Pc(i) = "enqueue" /\ UNCHANGED <<storeVars, chunks>>
    BY <1>6 DEF SyncEnqueue
  <2>2. Frame(i) /\ exec'[i].pc \in {"ok", "error", "snooze"}
    BY <1>0, <1>6, ReturnFacts DEF SyncEnqueue, Results
  <2>3. jobs[i].state = "running"
    BY <1>0, <2>1 DEF ExecInv
  <2>4. ASSUME NEW j \in JobIds
        PROVE  \/ jobs'[j] = jobs[j]
               \/ jobs[j].state = "none" /\ jobs'[j].state = "available"
    BY <1>0, <1>6, InsertFacts, NewJobFacts DEF SyncEnqueue, NewJob
  <2>5. jobs'[i] = jobs[i]
    BY <2>3, <2>4
  <2>6. ExecInv(i)'
    BY <1>0, <2>1, <2>2, <2>5 DEF ExecInv, Pc, SyncSteps, IndexSteps
  <2>7. ASSUME NEW j \in JobIds, j # i PROVE ExecInv(j)'
    <3>1. jobs'[j] = jobs[j] \/ (Pc(j) = "idle" /\ jobs'[j].state # "running")
      BY <2>4 DEF ExecsInv, ExecInv
    <3> QED
      BY <2>1, <2>2, <2>7, <3>1, StillExec DEF ExecsInv, Frame
  <2> QED
    BY <2>6, <2>7
<1>7. ASSUME NEW result \in {"error", "snooze"}, SyncFails(i, result)
      PROVE  \A j \in JobIds : ExecInv(j)'
  <2>1. Pc(i) # "idle" /\ UNCHANGED <<storeVars, chunks, jobs>>
    BY <1>7 DEF SyncFails, SyncSteps
  <2>2. Frame(i) /\ exec'[i].pc = result
    BY <1>0, <1>7, ReturnFacts DEF SyncFails, Results
  <2>3. ExecInv(i)'
    BY <1>0, <2>1, <2>2 DEF ExecInv, Pc, SyncSteps, IndexSteps
  <2> QED
    BY <1>1, <2>1, <2>2, <2>3
<1> QED
  BY <1>2, <1>3, <1>4, <1>5, <1>6, <1>7 DEF SyncStep, Results

(* A step of an index execution keeps the invariant of all executions.     *)
LEMMA ExecStepIndex ==
  ASSUME ExecsInv, NEW i \in JobIds,
         IndexStep(i) \/ IndexReplace(i, FALSE) \/ IndexFails(i)
  PROVE  \A j \in JobIds : ExecInv(j)'
<1>0. TypeOK /\ ExecInv(i)
  BY DEF ExecsInv
<1>1. UNCHANGED <<storeVars, jobs>>
  BY DEF IndexStep, IndexCheck, IndexPrepare, IndexReplace, IndexMark, IndexFails
<1>2. Pc(i) \in IndexSteps
  BY DEF IndexStep, IndexCheck, IndexPrepare, IndexReplace, IndexMark, IndexFails,
         IndexSteps
<1>3. jobs[i].kind = "index" /\ jobs[i].state = "running"
  BY <1>0, <1>2 DEF ExecInv, IndexSteps
<1>4. Frame(i)
  <2>1. CASE IndexCheck(i)
    BY <1>0, <2>1, IndexCheckFacts
  <2>2. CASE IndexPrepare(i)
    BY <1>0, <2>2, IndexPrepareFacts
  <2>3. ASSUME NEW acked \in BOOLEAN, IndexReplace(i, acked) PROVE Frame(i)
    BY <1>0, <2>3, IndexReplaceFacts
  <2>4. CASE IndexMark(i) \/ IndexFails(i)
    BY <1>0, <2>4, ReturnFacts DEF IndexMark, IndexFails, Results
  <2> QED
    BY <2>1, <2>2, <2>3, <2>4 DEF IndexStep
<1>5. exec'[i].pc \in {"ok", "error", "prepare", "mark"} => ExecInv(i)'
  BY <1>1, <1>3 DEF ExecInv, Pc, SyncSteps, IndexSteps
<1>6. ExecInv(i)'
  <2>1. CASE IndexCheck(i)
    BY <1>0, <1>5, <2>1, IndexCheckFacts
  <2>2. CASE IndexPrepare(i)
    <3>1. CASE exec'[i].pc = "error"
      BY <1>5, <3>1
    <3>2. CASE exec'[i].pc # "error"
      <4>1. /\ exec'[i].pc = "replace" /\ exec'[i].list = chunks
            /\ exec'[i].docs = ReadDocs(Payload(i))
        BY <1>0, <2>2, <3>2, IndexPrepareFacts
      <4>2. chunks' = chunks
        BY <2>2 DEF IndexPrepare
      <4>3. \A p \in Paths \ Payload(i).ups : ReadDocs(Payload(i))[p] = Absent
        BY DEF ReadDocs
      <4> QED
        BY <1>1, <1>3, <4>1, <4>2, <4>3 DEF ExecInv, Pc, SyncSteps, IndexSteps, Payload
    <3> QED
      BY <3>1, <3>2
  <2>3. ASSUME NEW acked \in BOOLEAN, IndexReplace(i, acked) PROVE ExecInv(i)'
    BY <1>0, <1>5, <2>3, IndexReplaceFacts
  <2>4. CASE IndexMark(i) \/ IndexFails(i)
    BY <1>0, <1>5, <2>4, ReturnFacts DEF IndexMark, IndexFails, Results
  <2> QED
    BY <2>1, <2>2, <2>3, <2>4 DEF IndexStep
<1>7. ASSUME NEW j \in JobIds, j # i PROVE ExecInv(j)'
  <2>1. Pc(j) \notin IndexSteps
    BY <1>2, <1>3, <1>7, Exclusive DEF ExecsInv, ExecInv, IndexSteps
  <2> QED
    BY <1>1, <1>4, <1>7, <2>1, StillExec DEF ExecsInv, Frame, IndexSteps
<1> QED
  BY <1>6, <1>7

(* A step of River keeps the invariant of all executions.                  *)
LEMMA ExecStepRiver ==
  ASSUME ExecsInv, NEW i \in JobIds, RiverStep(i) \/ Clean(i)
  PROVE  \A j \in JobIds : ExecInv(j)'
<1>0. TypeOK /\ Queue!TypeOK /\ ExecInv(i)
  BY DEF ExecsInv, TypeOK
<1>1. UNCHANGED <<storeVars, chunks>>
  BY DEF RiverStep, Clean, Start, Finish, Rescue, Reschedule
<1>2. ASSUME Frame(i), \A j \in JobIds \ {i} : jobs'[j] = jobs[j], ExecInv(i)'
      PROVE  \A j \in JobIds : ExecInv(j)'
  BY <1>1, <1>2, StillExec DEF ExecsInv, Frame
<1>3. ASSUME NEW w \in Procs, Start(i, w) PROVE \A j \in JobIds : ExecInv(j)'
  <2>1. Frame(i) /\ exec'[i].pc = IF jobs[i].kind = "sync" THEN "build" ELSE "check"
    BY <1>0, <1>3, StartFacts
  <2>2. JobFrame(i, "running")
    BY <1>0, <1>3, JobFacts DEF Start
  <2>3. jobs[i].kind \in {"sync", "index"}
    BY <1>0 DEF Queue!TypeOK, Queue!Job, Kinds
  <2>4. ExecInv(i)'
    BY <2>1, <2>2, <2>3 DEF ExecInv, Pc, JobFrame, SyncSteps, IndexSteps
  <2> QED
    BY <1>2, <2>1, <2>2, <2>4 DEF JobFrame
<1>4. CASE Finish(i) \/ Rescue(i)
  <2>1. Frame(i) /\ exec'[i].pc = "idle" /\ exec'[i].proc = NoProc
    BY <1>0, <1>4, ResetFacts DEF Finish, Rescue
  <2>2. \E s : JobFrame(i, s) /\ s # "running"
    BY <1>0, <1>4, JobFacts DEF Finish, Rescue, FailAttempt
  <2>3. ExecInv(i)'
    BY <2>1, <2>2 DEF ExecInv, Pc, JobFrame, SyncSteps, IndexSteps
  <2> QED
    BY <1>2, <2>1, <2>2, <2>3 DEF JobFrame
<1>5. CASE Reschedule(i)
  <2>1. JobFrame(i, "available") /\ jobs[i].state = "retryable" /\ UNCHANGED exec
    BY <1>0, <1>5, JobFacts DEF Reschedule
  <2>2. Frame(i) /\ Pc(i) = "idle"
    BY <1>0, <2>1 DEF Frame, TypeOK, ExecInv
  <2>3. ExecInv(i)'
    BY <1>0, <1>1, <2>1, <2>2, StillExec DEF JobFrame
  <2> QED
    BY <1>2, <2>1, <2>2, <2>3 DEF JobFrame
<1>6. CASE Clean(i)
  <2>1. /\ \A j \in JobIds \ {i} : jobs'[j] = jobs[j]
        /\ jobs[i].state \in {"completed", "discarded"}
        /\ jobs'[i].state = "none"
        /\ UNCHANGED exec
    <3>1. Queue!Clean(i) /\ UNCHANGED exec
      BY <1>6 DEF Clean
    <3>2. /\ \A j \in JobIds \ {i} : jobs'[j] = jobs[j]
          /\ jobs[i].state \in Queue!FinalStates
          /\ jobs'[i] = Queue!FreeSlot(jobs[i].kind)
      BY <1>0, <3>1, CleanFacts
    <3>3. jobs'[i].state = "none"
      BY <3>2 DEF Queue!FreeSlot
    <3> QED
      BY <3>1, <3>2, <3>3 DEF Queue!FinalStates
  <2>2. Frame(i) /\ Pc(i) = "idle"
    BY <1>0, <2>1 DEF Frame, TypeOK, ExecInv
  <2>3. ExecInv(i)'
    BY <1>0, <1>1, <2>1, <2>2, StillExec
  <2> QED
    BY <1>2, <2>1, <2>2, <2>3
<1> QED
  BY <1>3, <1>4, <1>5, <1>6 DEF RiverStep

(* Every step keeps the invariant of the executions.                       *)
LEMMA ExecStep ==
  ASSUME ExecsInv, [Next]_vars
  PROVE  ExecsInv'
<1>0. TypeOK /\ Queue!TypeOK /\ \A j \in JobIds : ExecInv(j)
  BY DEF ExecsInv, TypeOK
<1>1. TypeOK' /\ StoreProofs!TablesInv' /\ Queue!UniqueHolder'
  BY TypeStep DEF ExecsInv
<1>2. CASE IndexRepo
  <2>1. UNCHANGED <<storeVars, chunks, exec>>
    BY <1>2 DEF IndexRepo
  <2>2. ASSUME NEW j \in JobIds
        PROVE  \/ jobs'[j] = jobs[j]
               \/ jobs[j].state = "none" /\ jobs'[j].state = "available"
    BY <1>0, <1>2, InsertFacts, NewJobFacts DEF IndexRepo, NewJob
  <2>3. ASSUME NEW j \in JobIds
        PROVE  jobs'[j] = jobs[j] \/ (Pc(j) = "idle" /\ jobs'[j].state # "running")
    BY <1>0, <2>2 DEF ExecInv
  <2> QED
    BY <1>0, <1>1, <2>1, <2>3, StillExec DEF ExecsInv
<1>3. ASSUME NEW w \in Procs, Crash(w) PROVE ExecsInv'
  <2>1. UNCHANGED <<storeVars, chunks, jobs>>
    BY <1>3 DEF Crash
  <2>2. ASSUME NEW j \in JobIds PROVE ExecInv(j)'
    <3>1. CASE exec[j].proc = w
      <4>1. exec'[j].pc = "orphan" /\ Pc(j) # "idle"
        BY <1>0, <1>3, <3>1, CrashFacts, PipelineAssumption DEF ExecInv
      <4> QED
        BY <1>0, <2>1, <4>1 DEF ExecInv, Pc, SyncSteps, IndexSteps
    <3>2. CASE exec[j].proc # w
      BY <1>0, <1>3, <2>1, <3>2, CrashFacts, StillExec
    <3> QED
      BY <3>1, <3>2
  <2> QED
    BY <1>1, <2>2 DEF ExecsInv
<1>4. ASSUME NEW i \in JobIds,
             SyncStep(i) \/ IndexStep(i) \/ RiverStep(i) \/ FaultStep(i) \/ Clean(i)
      PROVE  ExecsInv'
  BY <1>1, <1>4, ExecStepSync, ExecStepIndex, ExecStepRiver DEF ExecsInv, FaultStep
<1>5. CASE UNCHANGED <<storeVars, chunks, jobs, exec>>
  BY <1>0, <1>1, <1>5, StillExec DEF ExecsInv
<1> QED
  BY <1>2, <1>3, <1>4, <1>5 DEF Next, vars, storeVars, Edit

-----------------------------------------------------------------------------
(* Drift.                                                                  *)

\* The part of the inductive invariant that is about drift.
DriftsInv == (\A p \in Paths : DriftInv(p)) /\ DriftIsExplained

(* A delta that is about to be enqueued stays so unless its execution is   *)
(* the one that moves.                                                     *)
LEMMA EnqueuingKept ==
  ASSUME NEW i \in JobIds, Frame(i), NEW p,
         Pc(i) = "enqueue" => p \notin ChangedPaths(Computed(i))
  PROVE  Enqueuing(p) => Enqueuing(p)'
BY DEF Enqueuing, Frame, Pc, Computed

(* A step that leaves chunks and snapshot alone keeps drift explained if   *)
(* it takes no excuse away, replaces each pending delta it ends by an      *)
(* excuse, and adds no delta.                                              *)
LEMMA DriftKept ==
  ASSUME DriftsInv, chunks' = chunks, Snapshot' = Snapshot,
         \A p \in Paths : Excused(p) => Excused(p)',
         \A p \in Paths : Drifts(p) /\ Pending(p) => Pending(p)' \/ Excused(p)',
         \A i \in JobIds, p \in Paths :
           Names(i, p)' =>
             /\ Live(i)' => Live(i) /\ Names(i, p) /\ Payload(i)' = Payload(i)
             /\ Pc(i)' \in {"mark", "ok"} =>
                  \/ Pc(i) \in {"mark", "ok"} /\ Names(i, p)
                  \/ Drifts(p) => Excused(p)'
  PROVE  DriftsInv'
<1>1. \A p \in Paths : Drifts(p)' <=> Drifts(p)
  BY DEF Drifts, Agrees
<1>2. ASSUME NEW p \in Paths PROVE DriftInv(p)'
  <2> SUFFICES ASSUME NEW i \in JobIds, Names(i, p)'
               PROVE  /\ Live(i)' /\ Older(Payload(i), p)' => Excused(p)'
                      /\ Pc(i)' \in {"mark", "ok"} /\ Drifts(p)' => Excused(p)'
    BY DEF DriftInv
  <2>1. DriftInv(p) /\ (Excused(p) => Excused(p)')
    BY DEF DriftsInv
  <2>2. CASE Live(i)'
    <3>1. Live(i) /\ Names(i, p) /\ Payload(i)' = Payload(i)
      BY <2>2
    <3>2. Older(Payload(i), p)' <=> Older(Payload(i), p)
      BY <3>1 DEF Older
    <3>3. Older(Payload(i), p) => Excused(p)
      BY <2>1, <3>1 DEF DriftInv
    <3>4. Pc(i)' \in {"mark", "ok"} /\ Drifts(p) => Excused(p)'
      BY <2>1, <3>1 DEF DriftInv
    <3> QED
      BY <1>1, <2>1, <3>1, <3>2, <3>3, <3>4
  <2>3. CASE ~Live(i)'
    <3>1. Pc(i)' \in {"mark", "ok"} /\ Drifts(p) => Excused(p)'
      BY <2>1 DEF DriftInv
    <3> QED
      BY <1>1, <2>3, <3>1
  <2> QED
    BY <2>2, <2>3
<1>3. ASSUME NEW p \in Paths, ~Agrees(chunks, Snapshot, p)'
      PROVE  OnItsWay(p)' \/ cause'[p] # {}
  <2>1. Drifts(p)
    BY <1>1, <1>3 DEF Drifts
  <2>2. Pending(p) \/ Excused(p)
    BY <2>1 DEF DriftsInv, DriftIsExplained, Drifts, OnItsWay, Excused
  <2>3. Pending(p)' \/ Excused(p)'
    BY <2>1, <2>2
  <2> QED
    BY <2>3 DEF OnItsWay, Excused
<1> QED
  BY <1>2, <1>3 DEF DriftsInv, DriftIsExplained

(* The same for a step of execution i that leaves the jobs alone.          *)
LEMMA DriftKeptExec ==
  ASSUME DriftsInv, NEW i \in JobIds, Frame(i), UNCHANGED <<storeVars, chunks, jobs>>,
         \A p \in Paths : cause[p] # {} => cause'[p] # {},
         \A p \in Paths :
           Pc(i) = "enqueue" /\ p \in ChangedPaths(Computed(i)) => cause'[p] # {},
         \A p \in Paths :
           Names(i, p) /\ exec'[i].pc \in {"mark", "ok"} =>
             Pc(i) \in {"mark", "ok"} \/ (Drifts(p) => Excused(p)')
  PROVE  DriftsInv'
<1>1. chunks' = chunks /\ Snapshot' = Snapshot /\ jobs' = jobs
  BY StoreStutter
<1>2. ASSUME NEW p \in Paths PROVE Excused(p) => Excused(p)'
  BY EnqueuingKept DEF Excused
<1>3. \A p \in Paths : Pending(p) => Pending(p)'
  BY <1>1 DEF Pending, Live, Payload
<1>4. ASSUME NEW k \in JobIds, NEW p \in Paths, Names(k, p)'
      PROVE  /\ Live(k)' => Live(k) /\ Names(k, p) /\ Payload(k)' = Payload(k)
             /\ Pc(k)' \in {"mark", "ok"} =>
                  \/ Pc(k) \in {"mark", "ok"} /\ Names(k, p)
                  \/ Drifts(p) => Excused(p)'
  <2>1. Names(k, p) /\ Payload(k)' = Payload(k) /\ (Live(k)' <=> Live(k))
    BY <1>1, <1>4 DEF Names, Payload, Live
  <2>2. CASE k = i
    BY <2>1, <2>2 DEF Pc
  <2>3. CASE k # i
    BY <2>1, <2>3 DEF Pc, Frame
  <2> QED
    BY <2>2, <2>3
<1> QED
  BY <1>1, <1>2, <1>3, <1>4, DriftKept

(* The same for a step of job i that ends its execution or has none.       *)
LEMMA DriftKeptJob ==
  ASSUME DriftsInv, NEW i \in JobIds, NEW s, Frame(i), JobFrame(i, s),
         UNCHANGED <<storeVars, chunks>>, Live(i), Pc(i) # "enqueue",
         exec'[i].pc \notin {"mark", "ok"},
         \A p \in Paths : cause[p] # {} => cause'[p] # {},
         \A p \in Paths :
           Names(i, p) /\ Drifts(p) /\ s \notin Queue!LiveStates => Excused(p)'
  PROVE  DriftsInv'
<1>1. chunks' = chunks /\ Snapshot' = Snapshot
  BY StoreStutter
<1>2. ASSUME NEW p \in Paths PROVE Excused(p) => Excused(p)'
  BY EnqueuingKept DEF Excused
<1>3. ASSUME NEW p \in Paths, Drifts(p), Pending(p) PROVE Pending(p)' \/ Excused(p)'
  <2>1. PICK k \in JobIds : Live(k) /\ Names(k, p)
    BY <1>3 DEF Pending, Names
  <2>2. CASE k # i
    BY <2>1, <2>2 DEF Pending, Names, Live, Payload, JobFrame
  <2>3. CASE k = i /\ s \in Queue!LiveStates
    BY <2>1, <2>3 DEF Pending, Names, Live, Payload, JobFrame
  <2>4. CASE k = i /\ s \notin Queue!LiveStates
    BY <1>3, <2>1, <2>4
  <2> QED
    BY <2>2, <2>3, <2>4
<1>4. ASSUME NEW k \in JobIds, NEW p \in Paths, Names(k, p)'
      PROVE  /\ Live(k)' => Live(k) /\ Names(k, p) /\ Payload(k)' = Payload(k)
             /\ Pc(k)' \in {"mark", "ok"} =>
                  \/ Pc(k) \in {"mark", "ok"} /\ Names(k, p)
                  \/ Drifts(p) => Excused(p)'
  <2>1. CASE k = i
    BY <1>4, <2>1 DEF Pc, JobFrame, Names, Payload, Live
  <2>2. CASE k # i
    BY <1>4, <2>2 DEF Pc, Frame, JobFrame, Names, Payload, Live
  <2> QED
    BY <2>1, <2>2
<1> QED
  BY <1>1, <1>2, <1>3, <1>4, DriftKept

(* The steps that leave jobs, chunks and tables alone.                     *)
LEMMA DriftStepLocal ==
  ASSUME ExecsInv, DriftsInv, NEW i \in JobIds,
         \/ SyncBuild(i) \/ SyncLoadRoot(i) \/ SyncLoadNodes(i)
         \/ \E result \in {"error", "snooze"} : SyncFails(i, result)
         \/ IndexCheck(i) \/ IndexPrepare(i) \/ IndexMark(i) \/ IndexFails(i)
  PROVE  DriftsInv'
<1>0. TypeOK /\ StoreProofs!TablesInv /\ ExecInv(i)
  BY DEF ExecsInv
<1>1. UNCHANGED <<storeVars, chunks, jobs>>
  BY DEF SyncBuild, SyncLoadRoot, SyncLoadNodes, SyncFails, IndexCheck, IndexPrepare,
         IndexMark, IndexFails
<1>2. CASE SyncBuild(i) \/ SyncLoadRoot(i) \/ SyncLoadNodes(i)
  <2>1. Frame(i)
    BY <1>0, <1>2, SyncBuildFacts, SyncLoadRootFacts, SyncLoadNodesFacts
  <2>2. Pc(i) \in {"build", "loadRoot", "loadNodes"} /\ UNCHANGED cause
    BY <1>2 DEF SyncBuild, SyncLoadRoot, SyncLoadNodes
  <2>3. \A p \in Paths : ~Names(i, p)
    BY <1>0, <2>2 DEF ExecInv, SyncSteps, Names
  <2> QED
    BY <1>1, <2>1, <2>2, <2>3, DriftKeptExec
<1>3. ASSUME NEW result \in {"error", "snooze"}, SyncFails(i, result) PROVE DriftsInv'
  <2>1. Frame(i) /\ exec'[i].pc = result
    BY <1>0, <1>3, ReturnFacts DEF SyncFails, Results
  <2>2. /\ \A p \in Paths : cause[p] # {} => cause'[p] # {}
        /\ \A p \in Paths :
             Pc(i) = "enqueue" /\ p \in ChangedPaths(Computed(i)) => cause'[p] # {}
    BY <1>0, <1>3, BlameFacts DEF SyncFails, Causes
  <2> QED
    BY <1>1, <2>1, <2>2, DriftKeptExec
<1>4. CASE IndexCheck(i)
  <2>1. Frame(i) /\ exec'[i].pc = IF Skips(i) THEN "ok" ELSE "prepare"
    BY <1>0, <1>4, IndexCheckFacts
  <2>2. Pc(i) = "check"
    BY <1>4 DEF IndexCheck
  <2>3. CASE ~Skips(i)
    <3>1. UNCHANGED cause
      BY <1>4, <2>3 DEF IndexCheck
    <3> QED
      BY <1>1, <2>1, <2>2, <2>3, <3>1, DriftKeptExec
  <2>4. CASE Skips(i)
    <3>1. /\ \A p \in Paths : cause[p] # {} => cause'[p] # {}
          /\ \A p \in Paths : p \in Missing(Payload(i)) => cause'[p] # {}
      BY <1>0, <1>4, <2>4, BlameFacts DEF IndexCheck, Causes
    <3>2. ASSUME NEW p \in Paths, Names(i, p), Drifts(p) PROVE Excused(p)'
      <4>1. CASE Agrees(chunks, Payload(i).snap, p)
        <5>1. Live(i)
          BY <1>0, <2>2 DEF ExecInv, Live, Queue!LiveStates
        <5>2. Older(Payload(i), p)
          BY <3>2, <4>1 DEF Drifts, Agrees, Older
        <5>3. Excused(p)
          BY <3>2, <5>1, <5>2 DEF DriftsInv, DriftInv
        <5>4. Enqueuing(p) => Enqueuing(p)'
          BY <2>1, <2>2, EnqueuingKept
        <5> QED
          BY <3>1, <5>3, <5>4 DEF Excused
      <4>2. CASE ~Agrees(chunks, Payload(i).snap, p)
        BY <3>1, <3>2, <4>2 DEF Missing, Names, Excused
      <4> QED
        BY <4>1, <4>2
    <3> QED
      BY <1>1, <2>1, <2>2, <3>1, <3>2, DriftKeptExec
  <2> QED
    BY <2>3, <2>4
<1>5. CASE IndexPrepare(i) \/ IndexMark(i) \/ IndexFails(i)
  <2>1. Frame(i) /\ (exec'[i].pc \in {"mark", "ok"} => Pc(i) = "mark")
    <3>1. CASE IndexPrepare(i)
      BY <1>0, <3>1, IndexPrepareFacts
    <3>2. CASE IndexMark(i)
      BY <1>0, <3>2, ReturnFacts DEF IndexMark, Results
    <3>3. CASE IndexFails(i)
      BY <1>0, <3>3, ReturnFacts DEF IndexFails, Results
    <3> QED
      BY <1>5, <3>1, <3>2, <3>3
  <2>2. Pc(i) # "enqueue" /\ UNCHANGED cause
    BY <1>5 DEF IndexPrepare, IndexMark, IndexFails
  <2> QED
    BY <1>1, <2>1, <2>2, DriftKeptExec
<1> QED
  BY <1>2, <1>3, <1>4, <1>5

(* Starting, finishing, rescuing, rescheduling and cleaning: a job that    *)
(* completes has an excuse for each path that still drifts, one that is    *)
(* discarded gives one.                                                    *)
LEMMA DriftStepRiver ==
  ASSUME ExecsInv, DriftsInv, NEW i \in JobIds, RiverStep(i) \/ Clean(i)
  PROVE  DriftsInv'
<1>0. TypeOK /\ Queue!TypeOK /\ ExecInv(i)
  BY DEF ExecsInv, TypeOK
<1>1. UNCHANGED <<storeVars, chunks>>
  BY DEF RiverStep, Clean, Start, Finish, Rescue, Reschedule
<1>2. ASSUME NEW w \in Procs, Start(i, w) PROVE DriftsInv'
  <2>1. Frame(i) /\ exec'[i].pc \in {"build", "check"}
    BY <1>0, <1>2, StartFacts
  <2>2. JobFrame(i, "running") /\ Live(i)
    BY <1>0, <1>2, JobFacts DEF Start, Live, Queue!LiveStates
  <2>3. Pc(i) = "idle" /\ UNCHANGED cause
    BY <1>2 DEF Start
  <2> QED
    BY <1>1, <2>1, <2>2, <2>3, DriftKeptJob DEF Queue!LiveStates
<1>3. CASE Finish(i) \/ Rescue(i)
  <2>1. Frame(i) /\ exec'[i].pc = "idle"
    BY <1>0, <1>3, ResetFacts DEF Finish, Rescue
  <2>2. Pc(i) \in {"ok", "snooze", "error", "orphan"}
    BY <1>3 DEF Finish, Rescue
  <2>3. Live(i)
    BY <1>0, <2>2 DEF ExecInv, Live, Queue!LiveStates
  <2>4. CASE Pc(i) = "ok" /\ Queue!Complete(i) /\ UNCHANGED cause
    <3>1. JobFrame(i, "completed")
      BY <1>0, <2>4, JobFacts
    <3>2. ASSUME NEW p \in Paths, Names(i, p), Drifts(p) PROVE Excused(p)'
      <4>1. Excused(p)
        BY <2>4, <3>2 DEF DriftsInv, DriftInv
      <4> QED
        BY <2>1, <2>2, <2>4, <4>1, EnqueuingKept DEF Excused
    <3> QED
      BY <1>1, <2>1, <2>2, <2>3, <2>4, <3>1, <3>2, DriftKeptJob
  <2>5. CASE Queue!Snooze(i) /\ UNCHANGED cause
    <3>1. JobFrame(i, "available")
      BY <1>0, <2>5, JobFacts
    <3> QED
      BY <1>1, <2>1, <2>2, <2>3, <2>5, <3>1, DriftKeptJob DEF Queue!LiveStates
  <2>6. CASE FailAttempt(i)
    <3>1. JobFrame(i, IF Queue!LastAttempt(i) THEN "discarded" ELSE "retryable")
      BY <1>0, <2>6, JobFacts DEF FailAttempt
    <3>2. /\ \A p \in Paths : cause[p] # {} => cause'[p] # {}
          /\ \A p \in Paths :
               Queue!LastAttempt(i) /\ p \in ChangedPaths(Payload(i)) => cause'[p] # {}
      BY <1>0, <2>6, BlameFacts DEF FailAttempt, Causes
    <3>3. CASE Queue!LastAttempt(i)
      <4>1. \A p \in Paths : Names(i, p) => Excused(p)'
        BY <3>2, <3>3 DEF Names, Excused
      <4>2. JobFrame(i, "discarded")
        BY <3>1, <3>3
      <4> QED
        BY <1>1, <2>1, <2>2, <2>3, <3>2, <4>1, <4>2, DriftKeptJob
    <3>4. CASE ~Queue!LastAttempt(i)
      <4>1. JobFrame(i, "retryable")
        BY <3>1, <3>4
      <4> QED
        BY <1>1, <2>1, <2>2, <2>3, <3>2, <4>1, DriftKeptJob DEF Queue!LiveStates
    <3> QED
      BY <3>3, <3>4
  <2> QED
    BY <1>3, <2>4, <2>5, <2>6 DEF Finish, Rescue
<1>4. CASE Reschedule(i)
  <2>1. JobFrame(i, "available") /\ jobs[i].state = "retryable" /\ UNCHANGED <<exec, cause>>
    BY <1>0, <1>4, JobFacts DEF Reschedule
  <2>2. Pc(i) = "idle" /\ Live(i)
    BY <1>0, <2>1 DEF ExecInv, Live, Queue!LiveStates
  <2>3. Frame(i) /\ exec'[i].pc = "idle"
    BY <1>0, <2>1, <2>2 DEF Frame, TypeOK, Pc
  <2> QED
    BY <1>1, <2>1, <2>2, <2>3, DriftKeptJob DEF Queue!LiveStates
<1>5. CASE Clean(i)
  <2>1. Queue!Clean(i) /\ UNCHANGED <<exec, cause>>
    BY <1>5 DEF Clean
  <2>2. /\ \A j \in JobIds \ {i} : jobs'[j] = jobs[j]
        /\ jobs[i].state \in Queue!FinalStates
        /\ jobs'[i] = Queue!FreeSlot(jobs[i].kind)
    BY <1>0, <2>1, CleanFacts
  <2>3. jobs'[i].state = "none"
    BY <2>2 DEF Queue!FreeSlot
  <2>4. ~Live(i) /\ ~Live(i)' /\ Pc(i)' = "idle"
    BY <1>0, <2>1, <2>2, <2>3
       DEF Live, Queue!LiveStates, Queue!FinalStates, ExecInv, Pc
  <2>5. chunks' = chunks /\ Snapshot' = Snapshot
    BY <1>1, StoreStutter
  <2>6. \A p \in Paths : Excused(p) => Excused(p)'
    BY <2>1 DEF Excused, Enqueuing, Pc, Computed
  <2>7. \A p \in Paths : Pending(p) => Pending(p)'
    BY <2>2, <2>4 DEF Pending, Live, Payload
  <2>8. ASSUME NEW k \in JobIds, NEW p \in Paths, Names(k, p)'
        PROVE  /\ Live(k)' => Live(k) /\ Names(k, p) /\ Payload(k)' = Payload(k)
               /\ Pc(k)' \in {"mark", "ok"} => Pc(k) \in {"mark", "ok"} /\ Names(k, p)
    BY <2>1, <2>2, <2>4, <2>8 DEF Live, Names, Payload, Pc
  <2> QED
    BY <2>5, <2>6, <2>7, <2>8, DriftKept
<1> QED
  BY <1>2, <1>3, <1>4, <1>5 DEF RiverStep

(* Edits, requests for a sync and crashes.                                 *)
LEMMA DriftStepWorld ==
  ASSUME ExecsInv, DriftsInv,
         \/ IndexRepo
         \/ \E w \in Procs : Crash(w)
         \/ UNCHANGED <<storeVars, chunks, jobs, exec, cause>>
  PROVE  DriftsInv'
<1>0. TypeOK /\ Queue!TypeOK /\ \A j \in JobIds : ExecInv(j)
  BY DEF ExecsInv, TypeOK
<1>1. UNCHANGED <<storeVars, chunks>>
  BY DEF IndexRepo, Crash
<1>2. chunks' = chunks /\ Snapshot' = Snapshot
  BY <1>1, StoreStutter
<1>3. CASE UNCHANGED <<exec, cause>> /\ Queue!Insert("sync", NoPayload)
  <2>1. \A p \in Paths : Excused(p) => Excused(p)'
    BY <1>3 DEF Excused, Enqueuing, Pc, Computed
  <2>2. ASSUME NEW k \in JobIds
        PROVE  \/ jobs'[k] = jobs[k]
               \/ jobs[k].state = "none" /\ jobs'[k].kind = "sync"
    <3>1. CASE UNCHANGED jobs
      BY <3>1
    <3>2. ASSUME NEW i \in JobIds, NewJob(i, "sync", NoPayload)
          PROVE  \/ jobs'[k] = jobs[k]
                 \/ jobs[k].state = "none" /\ jobs'[k].kind = "sync"
      <4>1. /\ \A j \in JobIds \ {i} : jobs'[j] = jobs[j]
            /\ jobs'[i].kind = "sync"
        BY <1>0, <3>2, NewJobFacts
      <4> QED
        BY <3>2, <4>1 DEF NewJob
    <3> QED
      BY <1>0, <1>3, <3>1, <3>2, InsertFacts
  <2>3. \A p \in Paths : Pending(p) => Pending(p)'
    BY <2>2 DEF Pending, Live, Payload, Queue!LiveStates
  <2>4. ASSUME NEW k \in JobIds, NEW p \in Paths, Names(k, p)'
        PROVE  /\ Live(k)' => Live(k) /\ Names(k, p) /\ Payload(k)' = Payload(k)
               /\ Pc(k)' \in {"mark", "ok"} => Pc(k) \in {"mark", "ok"} /\ Names(k, p)
    BY <1>3, <2>2, <2>4 DEF Live, Names, Payload, Pc
  <2> QED
    BY <1>2, <2>1, <2>3, <2>4, DriftKept
<1>4. ASSUME NEW w \in Procs, Crash(w) PROVE DriftsInv'
  <2>1. jobs' = jobs
    BY <1>4 DEF Crash
  <2> DEFINE owing == {i \in {i \in JobIds : exec[i].proc = w} : Pc(i) = "enqueue"}
             paths == UNION {ChangedPaths(Computed(i)) : i \in owing}
  <2>2. /\ \A p \in Paths : cause[p] # {} => cause'[p] # {}
        /\ \A p \in Paths : p \in paths => cause'[p] # {}
    <3>1. Blame(paths, "lost")
      BY <1>4 DEF Crash
    <3> HIDE DEF paths
    <3> QED
      BY <1>0, <3>1, BlameFacts DEF Causes
  <2>3. ASSUME NEW p \in Paths, Excused(p) PROVE Excused(p)'
    <3>1. CASE cause[p] # {}
      BY <2>2, <3>1 DEF Excused
    <3>2. ASSUME NEW i \in JobIds, Pc(i) = "enqueue", p \in ChangedPaths(Computed(i))
          PROVE  Excused(p)'
      <4>1. CASE exec[i].proc = w
        BY <2>2, <3>2, <4>1 DEF Excused
      <4>2. CASE exec[i].proc # w
        <5>1. exec'[i] = exec[i]
          BY <1>0, <1>4, <4>2, CrashFacts
        <5> QED
          BY <3>2, <5>1 DEF Excused, Enqueuing, Pc, Computed
      <4> QED
        BY <4>1, <4>2
    <3> QED
      BY <2>3, <3>1, <3>2 DEF Excused, Enqueuing
  <2>4. \A p \in Paths : Pending(p) => Pending(p)'
    BY <2>1 DEF Pending, Live, Payload
  <2>5. ASSUME NEW k \in JobIds, NEW p \in Paths, Names(k, p)'
        PROVE  /\ Live(k)' => Live(k) /\ Names(k, p) /\ Payload(k)' = Payload(k)
               /\ Pc(k)' \in {"mark", "ok"} => Pc(k) \in {"mark", "ok"} /\ Names(k, p)
    <3>1. Names(k, p) /\ Payload(k)' = Payload(k) /\ (Live(k)' <=> Live(k))
      BY <2>1, <2>5 DEF Names, Payload, Live
    <3>2. Pc(k)' = "orphan" \/ Pc(k)' = Pc(k)
      BY <1>0, <1>4, CrashFacts DEF Pc
    <3> QED
      BY <3>1, <3>2
  <2> QED
    BY <1>2, <2>3, <2>4, <2>5, DriftKept
<1>5. CASE UNCHANGED <<jobs, exec, cause>>
  <2>1. \A p \in Paths : Excused(p) => Excused(p)'
    BY <1>5 DEF Excused, Enqueuing, Pc, Computed
  <2>2. \A p \in Paths : Pending(p) => Pending(p)'
    BY <1>5 DEF Pending, Live, Payload
  <2>3. ASSUME NEW k \in JobIds, NEW p \in Paths, Names(k, p)'
        PROVE  /\ Live(k)' => Live(k) /\ Names(k, p) /\ Payload(k)' = Payload(k)
               /\ Pc(k)' \in {"mark", "ok"} => Pc(k) \in {"mark", "ok"} /\ Names(k, p)
    BY <1>5, <2>3 DEF Live, Names, Payload, Pc
  <2> QED
    BY <1>2, <2>1, <2>2, <2>3, DriftKept
<1> QED
  BY <1>3, <1>4, <1>5 DEF IndexRepo

(* Only the execution of a sync job that is at work can be enqueuing.      *)
LEMMA EnqueuingIs ==
  ASSUME ExecsInv, NEW i \in JobIds, Pc(i) # "idle", jobs[i].kind = "sync",
         NEW p, Enqueuing(p)
  PROVE  Pc(i) = "enqueue" /\ p \in ChangedPaths(Computed(i))
<1>1. PICK j \in JobIds : Pc(j) = "enqueue" /\ p \in ChangedPaths(Computed(j))
  BY DEF Enqueuing
<1>2. jobs[j].kind = "sync" /\ Pc(j) # "idle"
  BY <1>1 DEF ExecsInv, ExecInv, SyncSteps
<1>3. i = j
  BY <1>2, Exclusive DEF ExecsInv
<1> QED
  BY <1>1, <1>3

(* The enqueue: a delta that is dropped is blamed, one that is inserted is *)
(* pending, and it is the delta to the snapshot itself.                    *)
LEMMA DriftStepEnqueue ==
  ASSUME ExecsInv, DriftsInv, NEW i \in JobIds, NEW answer \in Results,
         SyncEnqueue(i, answer)
  PROVE  DriftsInv'
<1>0. TypeOK /\ Queue!TypeOK /\ ExecInv(i) /\ Queue!UniqueHolder
  BY DEF ExecsInv, TypeOK
<1>1. Frame(i) /\ exec'[i].pc = answer
  BY <1>0, ReturnFacts DEF SyncEnqueue, Results
<1>2. Pc(i) = "enqueue" /\ jobs[i].kind = "sync" /\ jobs[i].state = "running"
  BY <1>0 DEF SyncEnqueue, ExecInv, SyncSteps
<1>3. exec[i].cur = Snapshot /\ exec[i].base \in Trees /\ exec[i].cur \in Trees
  BY <1>0, <1>2 DEF ExecInv, TypeOK, Exec
<1>4. UNCHANGED <<storeVars, chunks>> /\ Snapshot' = Snapshot
  BY StoreStutter DEF SyncEnqueue
<1>5. /\ \A p \in Paths : cause[p] # {} => cause'[p] # {}
      /\ \A p \in Paths :
           Queue!Duplicate("index") /\ p \in ChangedPaths(Computed(i)) => cause'[p] # {}
  BY <1>0, BlameFacts DEF SyncEnqueue, Causes
<1>6. CASE Queue!Duplicate("index") /\ UNCHANGED jobs
  <2>1. \A p \in Paths : ~Names(i, p)
    BY <1>2 DEF Names
  <2> QED
    BY <1>1, <1>4, <1>5, <1>6, <2>1, DriftKeptExec
<1>7. ASSUME ~Queue!Duplicate("index"),
             NEW n \in JobIds, NewJob(n, "index", Computed(i))
      PROVE  DriftsInv'
  <2>1. /\ \A j \in JobIds \ {n} : jobs'[j] = jobs[j]
        /\ jobs'[n].state = "available" /\ jobs'[n].kind = "index"
        /\ jobs'[n].payload = Computed(i)
    BY <1>0, <1>7, NewJobFacts
  <2>2. jobs[n].state = "none"
    BY <1>7 DEF NewJob
  <2>3. n # i /\ Pc(n) = "idle" /\ Pc(n)' = "idle"
    <3>1. n # i
      BY <1>2, <2>2
    <3>2. Pc(n) = "idle"
      BY <2>2 DEF ExecsInv, ExecInv
    <3> QED
      BY <1>1, <3>1, <3>2 DEF Frame, Pc
  <2>4. ASSUME NEW k \in JobIds, jobs[k].kind = "index"
        PROVE  ~Live(k) /\ Pc(k) = "idle"
    <3>1. jobs[k].state \notin UniqueStates
      BY <1>7, <2>4 DEF Queue!Duplicate, Queue!Holder
    <3>2. jobs[k].state \notin {"available", "running", "retryable"}
      BY <3>1, PipelineAssumption
    <3> QED
      BY <3>2 DEF Live, Queue!LiveStates, ExecsInv, ExecInv
  <2>5. Payload(n)'.snap = Snapshot
    <3>1. Payload(n)' = Delta(exec[i].base, exec[i].cur)
      BY <2>1 DEF Payload, Computed
    <3> QED
      BY <1>3, <3>1, DeltaType
  <2>6. ASSUME NEW p \in Paths PROVE DriftInv(p)'
    <3> SUFFICES ASSUME NEW k \in JobIds, Names(k, p)'
                 PROVE  /\ Live(k)' /\ Older(Payload(k), p)' => Excused(p)'
                        /\ Pc(k)' \in {"mark", "ok"} /\ Drifts(p)' => Excused(p)'
      BY DEF DriftInv
    <3>1. CASE k = n
      <4>1. ~Older(Payload(k), p)'
        BY <1>4, <2>5, <3>1 DEF Older
      <4> QED
        BY <2>3, <3>1, <4>1
    <3>2. CASE k # n
      <4>1. jobs'[k] = jobs[k] /\ jobs[k].kind = "index" /\ k # i
        BY <1>2, <2>1, <3>2 DEF Names
      <4>2. ~Live(k) /\ Pc(k) = "idle"
        BY <2>4, <4>1
      <4>3. ~Live(k)' /\ Pc(k)' = "idle"
        BY <1>1, <4>1, <4>2 DEF Live, Pc, Frame
      <4> QED
        BY <4>3
    <3> QED
      BY <3>1, <3>2
  <2>7. ASSUME NEW p \in Paths, ~Agrees(chunks, Snapshot, p)'
        PROVE  OnItsWay(p)' \/ cause'[p] # {}
    <3>1. ~Agrees(chunks, Snapshot, p)
      BY <1>4, <2>7 DEF Agrees
    <3>2. ~Pending(p)
      BY <2>4 DEF Pending
    <3>3. Enqueuing(p) \/ cause[p] # {}
      BY <3>1, <3>2 DEF DriftsInv, DriftIsExplained, OnItsWay
    <3>4. Enqueuing(p) => p \in ChangedPaths(Computed(i))
      BY <1>2, EnqueuingIs
    <3>5. p \in ChangedPaths(Computed(i)) => Pending(p)'
      BY <2>1 DEF Pending, Live, Payload, Queue!LiveStates
    <3> QED
      BY <1>5, <3>3, <3>4, <3>5 DEF OnItsWay
  <2> QED
    BY <2>6, <2>7 DEF DriftsInv, DriftIsExplained
<1> QED
  BY <1>0, <1>6, <1>7, InsertFacts DEF SyncEnqueue

(* Where a delta names no path, the two trees give the same chunks.        *)
LEMMA UnchangedPath ==
  ASSUME NEW old \in Trees, NEW new \in Trees, NEW p \in Paths,
         p \notin Upserts(old, new) \cup Deletes(old, new)
  PROVE  ChunksOf(old[p]) = ChunksOf(new[p])
<1>1. (IsFile(new[p]) => new[p] = old[p]) /\ (IsFile(old[p]) => IsFile(new[p]))
  BY DEF Upserts, Deletes
<1>2. old[p] \in Contents => IsFile(old[p])
  BY DEF IsFile, FileValues, Store!FileValues
<1>3. new[p] \in Contents => IsFile(new[p])
  BY DEF IsFile, FileValues, Store!FileValues
<1>4. old[p] \in Contents <=> new[p] \in Contents
  BY <1>1, <1>2, <1>3
<1>5. old[p] \in Contents => old[p] = new[p]
  BY <1>1, <1>2
<1> QED
  BY <1>4, <1>5 DEF ChunksOf

(* The save: the new snapshot differs from the old one in the paths of the *)
(* delta only, and those are about to be enqueued, or lost.                *)
LEMMA DriftStepSave ==
  ASSUME ExecsInv, DriftsInv, NEW i \in JobIds, NEW answer \in Results,
         SyncSave(i, answer)
  PROVE  DriftsInv'
<1> DEFINE cur == exec[i].cur
           changed == ChangedPaths(Computed(i))
<1>0. TypeOK /\ Store!TypeOK /\ StoreProofs!TablesInv /\ ExecInv(i)
  BY DEF ExecsInv, TypeOK
<1>1. /\ Frame(i)
      /\ \/ /\ exec'[i].pc = answer
            /\ answer = "ok" => changed = {}
         \/ /\ answer = "ok"
            /\ exec'[i].pc = "enqueue"
            /\ exec'[i].cur = exec[i].cur /\ exec'[i].base = exec[i].base
  BY <1>0, SyncSaveFacts
<1>2. Pc(i) = "save" /\ jobs[i].kind = "sync" /\ exec[i].base = Snapshot
  BY <1>0 DEF SyncSave, ExecInv, SyncSteps
<1>3. cur \in Trees /\ exec[i].base \in Trees /\ exec[i].parent \in Nat
  BY <1>0 DEF TypeOK, Exec
<1>4. Snapshot' = cur /\ chunks' = chunks /\ jobs' = jobs
  BY <1>0, <1>3, SaveFacts DEF SyncSave
<1>5. ASSUME NEW p \in Paths, Excused(p) PROVE cause[p] # {}
  BY <1>2, <1>5, EnqueuingIs DEF Excused
<1>6. ASSUME NEW p \in Paths, p \in changed PROVE Excused(p)'
  <2>1. CASE answer # "ok"
    <3>1. cause'[p] = cause[p] \cup {"lost"}
      BY <1>6, <2>1 DEF SyncSave
    <3> QED
      BY <3>1 DEF Excused
  <2>2. CASE answer = "ok"
    <3>1. /\ exec'[i].pc = "enqueue"
          /\ exec'[i].cur = exec[i].cur /\ exec'[i].base = exec[i].base
      BY <1>1, <1>6, <2>2
    <3>2. Pc(i)' = "enqueue" /\ Computed(i)' = Computed(i)
      BY <3>1 DEF Pc, Computed
    <3> QED
      BY <1>6, <3>2 DEF Excused, Enqueuing
  <2> QED
    BY <2>1, <2>2
<1>7. ASSUME NEW p \in Paths, p \notin changed
      PROVE  /\ Drifts(p)' <=> Drifts(p)
             /\ ChunksOf(Snapshot'[p]) = ChunksOf(Snapshot[p])
             /\ Drifts(p) \/ Pending(p) => cause'[p] = cause[p]
  <2>1. changed = Upserts(Snapshot, cur) \cup Deletes(Snapshot, cur)
    BY <1>2, <1>3, DeltaType DEF Computed, ChangedPaths
  <2>2. ChunksOf(Snapshot[p]) = ChunksOf(cur[p])
    BY <1>2, <1>3, <1>7, <2>1, UnchangedPath
  <2>3. Drifts(p)' <=> Drifts(p)
    BY <1>4, <2>2 DEF Drifts, Agrees
  <2>4. Drifts(p) <=> ~Agrees(chunks, cur, p)
    BY <2>2 DEF Drifts, Agrees
  <2>5. cause'[p] = IF Agrees(chunks, cur, p) /\ ~Pending(p) THEN {} ELSE cause[p]
    BY <1>7 DEF SyncSave
  <2> QED
    BY <1>4, <2>2, <2>3, <2>4, <2>5
<1> HIDE DEF cur, changed
<1>8. \A p \in Paths : Pending(p) => Pending(p)'
  BY <1>4 DEF Pending, Live, Payload
<1>9. ASSUME NEW p \in Paths PROVE DriftInv(p)'
  <2> SUFFICES ASSUME NEW k \in JobIds, Names(k, p)', p \notin changed
               PROVE  /\ Live(k)' /\ Older(Payload(k), p)' => Excused(p)'
                      /\ Pc(k)' \in {"mark", "ok"} /\ Drifts(p)' => Excused(p)'
    BY <1>6 DEF DriftInv
  <2>1. Names(k, p) /\ Payload(k)' = Payload(k) /\ (Live(k)' <=> Live(k))
    BY <1>4 DEF Names, Payload, Live
  <2>2. Pc(k)' = Pc(k)
    BY <1>1, <1>2, <2>1 DEF Names, Frame, Pc
  <2>3. Older(Payload(k), p)' <=> Older(Payload(k), p)
    BY <1>7, <2>1 DEF Older
  <2>4. /\ Live(k) /\ Older(Payload(k), p) => Excused(p)
        /\ Pc(k) \in {"mark", "ok"} /\ Drifts(p) => Excused(p)
    BY <2>1 DEF DriftsInv, DriftInv
  <2>5. Live(k) => Pending(p)
    BY <2>1 DEF Pending, Names
  <2>6. Excused(p) /\ (Drifts(p) \/ Live(k)) => Excused(p)'
    BY <1>5, <1>7, <2>5 DEF Excused
  <2> QED
    BY <1>7, <2>1, <2>2, <2>3, <2>4, <2>6
<1>10. ASSUME NEW p \in Paths, ~Agrees(chunks, Snapshot, p)'
       PROVE  OnItsWay(p)' \/ cause'[p] # {}
  <2>1. CASE p \in changed
    BY <1>6, <2>1 DEF Excused, OnItsWay
  <2>2. CASE p \notin changed
    <3>1. Drifts(p)
      BY <1>7, <1>10, <2>2 DEF Drifts
    <3>2. Pending(p) \/ Excused(p)
      BY <3>1 DEF DriftsInv, DriftIsExplained, Drifts, OnItsWay, Excused
    <3> QED
      BY <1>5, <1>7, <1>8, <2>2, <3>1, <3>2 DEF OnItsWay
  <2> QED
    BY <2>1, <2>2
<1> QED
  BY <1>9, <1>10 DEF DriftsInv, DriftIsExplained

(* The replacement: where the delta is older than the snapshot the drift   *)
(* was excused before, and stays so; elsewhere a path of the delta that    *)
(* still drifts was not read as the snapshot has it, or was read as blank  *)
(* and has old rows.                                                       *)
LEMMA DriftStepReplace ==
  ASSUME ExecsInv, DriftsInv, \A k \in JobIds : PayloadInv(k),
         NEW i \in JobIds, NEW acked \in BOOLEAN, IndexReplace(i, acked)
  PROVE  DriftsInv'
<1> DEFINE d == Payload(i)
<1>0. TypeOK /\ Queue!UniqueHolder /\ ExecInv(i) /\ PayloadInv(i)
  BY DEF ExecsInv
<1>1. Frame(i) /\ exec'[i].pc \in {"mark", "error"}
  BY <1>0, IndexReplaceFacts
<1>2. Pc(i) = "replace" /\ jobs[i].kind = "index" /\ exec[i].list = chunks
  BY <1>0 DEF IndexReplace, ExecInv, IndexSteps
<1>3. jobs[i].state = "running"
  BY <1>0, <1>2 DEF ExecInv
<1>4. Snapshot' = Snapshot /\ jobs' = jobs
  BY StoreStutter DEF IndexReplace
<1>5. ASSUME NEW k \in JobIds, jobs[k].kind = "index", Live(k) \/ Pc(k) # "idle"
      PROVE  k = i
  <2>1. Live(k)
    BY <1>5 DEF ExecsInv, ExecInv, Live, Queue!LiveStates
  <2>2. jobs[k].state \in UniqueStates /\ jobs[i].state \in UniqueStates
    BY <1>3, <2>1, PipelineAssumption DEF Live, Queue!LiveStates
  <2> QED
    BY <1>0, <1>2, <1>5, <2>2 DEF Queue!UniqueHolder
<1>6. \A p \in Paths : Enqueuing(p) => Enqueuing(p)'
  BY <1>1, <1>2, EnqueuingKept
<1>7. chunks' = MergeChunks(chunks, exec[i].docs, d)
  BY <1>2 DEF IndexReplace
<1>8. ASSUME NEW p \in Paths, Drifts(p)' \/ Older(d, p)
      PROVE  cause[p] \subseteq cause'[p]
  BY <1>2, <1>4, <1>7, <1>8 DEF IndexReplace, Drifts, Agrees
<1>9. ASSUME NEW p \in Paths, p \in ChangedPaths(d), Older(d, p) PROVE Excused(p)'
  <2>1. Live(i) /\ Names(i, p)
    BY <1>2, <1>3, <1>9 DEF Live, Queue!LiveStates, Names
  <2>2. Excused(p)
    BY <1>9, <2>1 DEF DriftsInv, DriftInv
  <2> QED
    BY <1>6, <1>8, <1>9, <2>2 DEF Excused
<1>10. ASSUME NEW p \in Paths, p \in ChangedPaths(d), Drifts(p)'
       PROVE  Excused(p)'
  <2>1. CASE Older(d, p)
    BY <1>9, <1>10, <2>1
  <2>2. CASE p \in d.dels /\ ~Older(d, p)
    <3>1. p \notin d.ups /\ d.snap[p] \notin Contents
      BY <1>0, <2>2 DEF PayloadInv
    <3>2. chunks'[p] = Absent
      BY <1>7, <2>2, <3>1 DEF MergeChunks
    <3>3. ChunksOf(Snapshot[p]) = Absent
      BY <2>2, <3>1 DEF Older, ChunksOf
    <3> QED
      BY <1>4, <1>10, <3>2, <3>3 DEF Drifts, Agrees
  <2>3. CASE p \in d.ups /\ ~Older(d, p)
    <3>1. cause'[p] = cause[p] \cup Flaws(chunks, exec[i].docs, d, p)
      BY <1>2, <1>4, <1>7, <1>10 DEF IndexReplace, Drifts, Agrees
    <3>2. CASE exec[i].docs[p] # d.snap[p]
      <4>1. "raced" \in Flaws(chunks, exec[i].docs, d, p)
        BY <2>3, <3>2 DEF Flaws
      <4> QED
        BY <3>1, <4>1 DEF Excused
    <3>3. CASE exec[i].docs[p] = d.snap[p]
      <4>1. ChunksOf(exec[i].docs[p]) = ChunksOf(Snapshot[p])
        BY <2>3, <3>3 DEF Older
      <4>2. chunks'[p] # ChunksOf(Snapshot[p])
        BY <1>4, <1>10 DEF Drifts, Agrees
      <4>3. ChunksOf(exec[i].docs[p]) = Absent /\ chunks[p] # Absent
        BY <1>0, <1>7, <2>3, <4>1, <4>2 DEF MergeChunks, PayloadInv
      <4>4. exec[i].docs[p] = Blank
        BY <1>0, <2>3, <3>3, <4>3, PipelineAssumption DEF PayloadInv, ChunksOf
      <4>5. "blank" \in Flaws(chunks, exec[i].docs, d, p)
        BY <2>3, <4>3, <4>4 DEF Flaws
      <4> QED
        BY <3>1, <4>5 DEF Excused
    <3> QED
      BY <3>2, <3>3
  <2> QED
    BY <1>10, <2>1, <2>2, <2>3 DEF ChangedPaths
<1>11. ASSUME NEW p \in Paths PROVE DriftInv(p)'
  <2> SUFFICES ASSUME NEW k \in JobIds, Names(k, p)', Live(k)' \/ Pc(k)' # "idle"
               PROVE  /\ Older(Payload(k), p)' => Excused(p)'
                      /\ Drifts(p)' => Excused(p)'
    BY DEF DriftInv
  <2>1. k = i
    <3>1. jobs[k].kind = "index" /\ (Live(k)' <=> Live(k))
      BY <1>4 DEF Names, Live
    <3>2. CASE k # i
      <4>1. Pc(k)' = Pc(k)
        BY <1>1, <3>2 DEF Frame, Pc
      <4> QED
        BY <1>5, <3>1, <4>1
    <3> QED
      BY <3>2
  <2>2. Payload(k)' = d /\ p \in ChangedPaths(d)
    BY <1>4, <2>1 DEF Payload, Names
  <2>3. Older(Payload(k), p)' <=> Older(d, p)
    BY <1>4, <2>2 DEF Older
  <2> HIDE DEF d
  <2> QED
    BY <1>9, <1>10, <2>2, <2>3
<1>12. ASSUME NEW p \in Paths, ~Agrees(chunks, Snapshot, p)'
       PROVE  OnItsWay(p)' \/ cause'[p] # {}
  <2>1. Drifts(p)'
    BY <1>12 DEF Drifts
  <2>2. CASE p \in ChangedPaths(d)
    BY <1>10, <2>1, <2>2 DEF Excused, OnItsWay
  <2>3. CASE p \notin ChangedPaths(d)
    <3>1. p \notin d.ups /\ p \notin d.dels
      BY <2>3 DEF ChangedPaths
    <3>2. chunks'[p] = chunks[p]
      BY <1>7, <3>1 DEF MergeChunks
    <3>3. Drifts(p)
      BY <1>4, <2>1, <3>2 DEF Drifts, Agrees
    <3>4. Pending(p) \/ Excused(p)
      BY <3>3 DEF DriftsInv, DriftIsExplained, Drifts, OnItsWay, Excused
    <3>5. Pending(p) => Pending(p)'
      BY <1>4 DEF Pending, Live, Payload
    <3>6. cause[p] \subseteq cause'[p]
      BY <1>8, <2>1
    <3> QED
      BY <1>6, <3>4, <3>5, <3>6 DEF Excused, OnItsWay
  <2> QED
    BY <2>2, <2>3
<1> QED
  BY <1>11, <1>12 DEF DriftsInv, DriftIsExplained

-----------------------------------------------------------------------------
(* The inductive invariant.                                                *)

(* It holds initially.                                                     *)
LEMMA InitIInv == Init => IInv
<1> SUFFICES ASSUME Init PROVE IInv
  OBVIOUS
<1>1. TypeOK
  <2>1. Store!TypeOK
    BY SameStore, InitialValues
       DEF Init, Store!Init, Store!TypeOK, Store!Row, Store!NoRow, Store!Statuses,
           Store!Load, Trees, EmptyTree
  <2>2. Queue!TypeOK
    BY PipelineAssumption, InitialValues
       DEF Init, Queue!TypeOK, Queue!Job, Queue!FreeSlot, Queue!JobStates, Kinds
  <2> QED
    BY <2>1, <2>2, PipelineAssumption, InitialValues DEF Init, TypeOK
<1>2. Stored = {}
  BY DEF Init, Store!Init, Stored, Store!Stored, Store!NoRow
<1>3. StoreProofs!TablesInv
  <2>1. \A u \in Trees : rows[u] = Store!NoRow /\ nodes[u] = EmptyTree
    BY DEF Init, Store!Init, Trees, EmptyTree
  <2>2. \A u \in Trees : ~rows[u].isActive
    BY <2>1 DEF Store!NoRow
  <2> QED
    BY <1>2, <2>1, <2>2, SameStore DEF StoreProofs!TablesInv
<1>4. \A i \in JobIds : jobs[i] = Queue!FreeSlot("sync") /\ exec[i] = NoExec
  BY DEF Init
<1>5. \A i \in JobIds : jobs[i].state = "none" /\ jobs[i].payload = NoPayload
  BY <1>4 DEF Queue!FreeSlot
<1>6. \A i \in JobIds : Pc(i) = "idle" /\ exec[i].proc = NoProc
  BY <1>4 DEF Pc, NoExec
<1>7. Queue!UniqueHolder
  BY <1>5, PipelineAssumption DEF Queue!UniqueHolder
<1>8. \A i \in JobIds : ExecInv(i)
  BY <1>5, <1>6 DEF ExecInv, SyncSteps, IndexSteps
<1>9. \A i \in JobIds : PayloadInv(i)
  BY <1>5 DEF PayloadInv, Payload, NoPayload
<1>10. \A p \in Paths : DriftInv(p)
  BY <1>5 DEF DriftInv, Names, Payload, NoPayload, ChangedPaths
<1>11. DriftIsExplained
  <2>1. \A p \in Paths : ChunksOf(EmptyTree[p]) = Absent
    BY PipelineAssumption DEF ChunksOf, EmptyTree, Store!EmptyTree
  <2> QED
    BY <1>2, <2>1 DEF Init, DriftIsExplained, Agrees, NoChunks, Snapshot
<1> QED
  BY <1>1, <1>3, <1>7, <1>8, <1>9, <1>10, <1>11 DEF IInv

(* Every step keeps it.                                                    *)
LEMMA StepIInv == IInv /\ [Next]_vars => IInv'
<1> SUFFICES ASSUME IInv, [Next]_vars PROVE IInv'
  OBVIOUS
<1>1. ExecsInv /\ DriftsInv /\ \A i \in JobIds : PayloadInv(i)
  BY DEF IInv, ExecsInv, DriftsInv
<1>2. ExecsInv'
  BY <1>1, ExecStep
<1>3. \A i \in JobIds : PayloadInv(i)'
  BY <1>1, PayloadStep DEF ExecsInv
<1>4. DriftsInv'
  <2>1. CASE \/ IndexRepo
             \/ \E w \in Procs : Crash(w)
             \/ UNCHANGED <<storeVars, chunks, jobs, exec, cause>>
    BY <1>1, <2>1, DriftStepWorld
  <2>2. ASSUME NEW i \in JobIds,
               SyncStep(i) \/ IndexStep(i) \/ RiverStep(i) \/ FaultStep(i) \/ Clean(i)
        PROVE  DriftsInv'
    <3>1. ASSUME NEW answer \in Results, SyncSave(i, answer) \/ SyncEnqueue(i, answer)
          PROVE  DriftsInv'
      BY <1>1, <3>1, DriftStepSave, DriftStepEnqueue
    <3>2. ASSUME NEW acked \in BOOLEAN, IndexReplace(i, acked) PROVE DriftsInv'
      BY <1>1, <3>2, DriftStepReplace
    <3>3. CASE RiverStep(i) \/ Clean(i)
      BY <1>1, <3>3, DriftStepRiver
    <3>4. CASE \/ SyncBuild(i) \/ SyncLoadRoot(i) \/ SyncLoadNodes(i)
               \/ \E result \in {"error", "snooze"} : SyncFails(i, result)
               \/ IndexCheck(i) \/ IndexPrepare(i) \/ IndexMark(i) \/ IndexFails(i)
      BY <1>1, <3>4, DriftStepLocal
    <3> QED
      BY <2>2, <3>1, <3>2, <3>3, <3>4 DEF SyncStep, IndexStep, FaultStep, Results
  <2> QED
    BY <2>1, <2>2 DEF Next, vars, storeVars, Edit
<1> QED
  BY <1>2, <1>3, <1>4 DEF IInv, ExecsInv, DriftsInv

(* Every reachable state satisfies the inductive invariant.                *)
THEOREM Invariance == Spec => []IInv
BY InitIInv, StepIInv, PTL DEF Spec

-----------------------------------------------------------------------------
(* The pipeline's variables always have their types.                       *)
THEOREM TypeCorrect == Spec => []TypeOK
<1>1. IInv => TypeOK
  BY DEF IInv
<1> QED
  BY <1>1, Invariance, PTL

(* The unique insert of client.go makes the read, diff and save of the     *)
(* SyncWorker one: the diff base is the latest snapshot when it is saved.  *)
THEOREM DiffBaseIsLatestTheorem == Spec => []DiffBaseIsLatest
<1>1. IInv => DiffBaseIsLatest
  BY DEF IInv, ExecInv, DiffBaseIsLatest, LatestId
<1> QED
  BY <1>1, Invariance, PTL

(* And it makes the IndexWorker's list, merge and replace one.             *)
THEOREM NoLostReplaceTheorem == Spec => []NoLostReplace
<1>1. IInv => NoLostReplace
  BY DEF IInv, ExecInv, NoLostReplace
<1> QED
  BY <1>1, Invariance, PTL

(* The six causes are the only ways in which the index comes to differ     *)
(* from the snapshot with no delta on its way.                             *)
THEOREM DriftIsExplainedTheorem == Spec => []DriftIsExplained
<1>1. IInv => DriftIsExplained
  BY DEF IInv
<1> QED
  BY <1>1, Invariance, PTL

(* The steps other than a replacement leave the chunks alone.              *)
LEMMA ChunksStep ==
  ASSUME [Next]_vars
  PROVE  \/ chunks' = chunks
         \/ \E i \in JobIds, acked \in BOOLEAN : IndexReplace(i, acked)
BY DEF Next, vars, Edit, IndexRepo, Crash, SyncStep, IndexStep, RiverStep, FaultStep,
       Clean, Start, Finish, Rescue, Reschedule, SyncBuild, SyncLoadRoot,
       SyncLoadNodes, SyncSave, SyncEnqueue, SyncFails, IndexCheck, IndexPrepare,
       IndexMark, IndexFails

(* mergeChunkRecords keeps every row that the delta does not name and      *)
(* every row that is up to date; so an application that is repeated with   *)
(* the same files on disk changes nothing.                                 *)
THEOREM ReplaceIsIncrementalTheorem == Spec => ReplaceIsIncremental
<1> DEFINE A == \A i \in JobIds, p \in Paths :
       Pc(i) = "replace" /\ chunks'[p] # chunks[p] =>
         p \in ChangedPaths(Payload(i)) /\ ~Agrees(chunks, exec[i].docs, p)
<1>1. IInv /\ [Next]_vars => [A]_vars
  <2> SUFFICES ASSUME IInv, [Next]_vars, NEW i \in JobIds, NEW p \in Paths,
                      Pc(i) = "replace", chunks'[p] # chunks[p]
               PROVE  p \in ChangedPaths(Payload(i)) /\ ~Agrees(chunks, exec[i].docs, p)
    OBVIOUS
  <2>1. PICK k \in JobIds, acked \in BOOLEAN : IndexReplace(k, acked)
    BY ChunksStep
  <2>2. Pc(k) = "replace"
    BY <2>1 DEF IndexReplace
  <2>3. jobs[i].kind = "index" /\ jobs[k].kind = "index"
    BY <2>2 DEF IInv, ExecInv, IndexSteps
  <2>4. k = i
    BY <2>2, <2>3, Exclusive DEF IInv
  <2>5. /\ exec[i].list = chunks
        /\ p \notin Payload(i).ups => exec[i].docs[p] = Absent
    BY DEF IInv, ExecInv
  <2>6. chunks' = MergeChunks(chunks, exec[i].docs, Payload(i))
    BY <2>1, <2>4, <2>5 DEF IndexReplace
  <2>7. CASE p \in Payload(i).ups
    <3>1. p \notin Payload(i).dels
      BY <2>7 DEF IInv, PayloadInv
    <3>2. chunks'[p] = ChunksOf(exec[i].docs[p])
      BY <2>6, <2>7, <3>1 DEF MergeChunks
    <3> QED
      BY <2>7, <3>2 DEF ChangedPaths, Agrees
  <2>8. CASE p \notin Payload(i).ups
    <3>1. p \in Payload(i).dels /\ chunks'[p] = Absent
      BY <2>6, <2>8 DEF MergeChunks
    <3>2. ChunksOf(exec[i].docs[p]) = Absent
      BY <2>5, <2>8 DEF ChunksOf
    <3> QED
      BY <3>1, <3>2 DEF ChangedPaths, Agrees
  <2> QED
    BY <2>7, <2>8
<1> QED
  BY <1>1, Invariance, PTL DEF Spec, ReplaceIsIncremental

-----------------------------------------------------------------------------
(* Refinement.                                                             *)

(* The pipeline implements SnapshotStore: each save is one the store's     *)
(* specification allows, of a tree that differs from the latest one and    *)
(* with the latest one as parent; no other step touches the tables.        *)
THEOREM StoreRefinementTheorem == Spec => StoreRefinement
<1>1. Init => Store!Init
  BY DEF Init
<1>2. IInv /\ [Next]_vars => [Store!Next]_Store!vars
  <2> SUFFICES ASSUME IInv, [Next]_vars PROVE Store!Next \/ UNCHANGED storeVars
    BY DEF Store!vars, storeVars
  <2>1. ASSUME NEW i \in JobIds, NEW answer \in Results, SyncSave(i, answer)
        PROVE  Store!Next
    <3>1. /\ exec[i].parent = IF Stored = {} THEN 0 ELSE rows[Latest].id
          /\ Stored # {} => exec[i].cur # Latest
      BY <2>1 DEF IInv, ExecInv, SyncSave, LatestId
    <3>2. exec[i].cur \in Trees /\ Store!SaveSnapshotState(exec[i].cur, exec[i].parent)
      BY <2>1 DEF IInv, TypeOK, Exec, SyncSave
    <3>3. Store!Save(exec[i].cur)
      BY <3>1, <3>2 DEF Store!Save, Stored, Latest
    <3> QED
      BY <3>2, <3>3 DEF Store!Next, Trees
  <2>2. ASSUME NEW i \in JobIds, SyncStep(i) \/ FaultStep(i)
        PROVE  Store!Next \/ UNCHANGED storeVars
    BY <2>1, <2>2
       DEF SyncStep, FaultStep, SyncBuild, SyncLoadRoot, SyncLoadNodes, SyncEnqueue,
           SyncFails, IndexReplace, IndexFails, Results
  <2>3. ASSUME NEW i \in JobIds, IndexStep(i) \/ RiverStep(i) \/ Clean(i)
        PROVE  UNCHANGED storeVars
    BY <2>3
       DEF IndexStep, RiverStep, Clean, IndexCheck, IndexPrepare, IndexReplace,
           IndexMark, Start, Finish, Rescue, Reschedule
  <2>4. CASE \/ \E p \in Paths, v \in Values : Edit(p, v)
             \/ IndexRepo
             \/ \E w \in Procs : Crash(w)
             \/ UNCHANGED vars
    BY <2>4 DEF Edit, IndexRepo, Crash, vars, storeVars
  <2> QED
    BY <2>2, <2>3, <2>4 DEF Next
<1> QED
  BY <1>1, <1>2, Invariance, PTL DEF Spec, StoreRefinement, Store!Spec

(* The pipeline implements RiverQueue: workers, crashes and rescues move   *)
(* jobs only as the queue lets them.                                       *)
THEOREM QueueRefinement == Spec => Queue!Spec
<1>1. Init => Queue!Init
  BY DEF Init, Queue!Init, Kinds
<1>2. IInv /\ [Next]_vars => [Queue!Next]_jobs
  BY JobStep DEF IInv
<1> QED
  BY <1>1, <1>2, Invariance, PTL DEF Spec, Queue!Spec

=============================================================================
