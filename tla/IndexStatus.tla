---------------------------- MODULE IndexStatus ----------------------------
(***************************************************************************)
(* What the index_status tool tells about the background jobs of a scope.  *)
(*                                                                         *)
(* The jobs of RiverQueue get the time stamps of their rows; a sync job    *)
(* saves snapshots and enqueues index jobs while it runs.  A status call   *)
(* (status/service.go GetIndexSyncStatus) reads the latest snapshot first  *)
(* and lists the jobs later, and then folds the rows into one report.      *)
(* Snapshots are numbered in the order of their saves; LatestIsActive and  *)
(* LatestIsComplete of SnapshotStore are why the row a call reads is       *)
(* always active and has its completed_at.                                 *)
(*                                                                         *)
(* The clock moves with every step that writes a stamp, so no two stamps   *)
(* are equal and the order in which ListJobs returns rows does not matter. *)
(***************************************************************************)
EXTENDS RiverQueue, FiniteSetsExt

CONSTANTS
  MaxClock,   \* bound on the time stamps
  MaxSaves    \* bound on the saved snapshots

\* An index job carries the snapshot its delta was computed for; 0 is "none".
\* The UniqueOpts of client.go name no states, and River's default includes
\* "completed".
ASSUME StatusAssumption ==
  /\ Kinds = {"sync", "index"}
  /\ "completed" \in UniqueStates
  /\ MaxClock \in Nat
  /\ MaxSaves \in Nat
  /\ Payloads = 0 .. MaxSaves
  /\ NoPayload = 0

VARIABLES
  clock,     \* the last stamp
  at,        \* job -> the stamps of its row; 0 stands for NULL
  snap,      \* the latest snapshot: its id and completed_at
  phase,     \* job -> how far an execution of SyncWorker.run has come
  reader,    \* the status call
  success,   \* history: kind -> when a job of it last completed, and its payload
  forgotten  \* history: the stamps of completed rows the cleaner removed

statusVars == <<jobs, clock, at, snap, phase, reader, success, forgotten>>

Times == 0 .. MaxClock

\* created_at, attempted_at, finalized_at and the time of the last entry of
\* errors, which the status does not read.
Stamps   == [created : Times, attempted : Times, finalized : Times, failed : Times]
NoStamps == [created |-> 0, attempted |-> 0, finalized |-> 0, failed |-> 0]

Snaps  == [id : 0 .. MaxSaves, at : Times]
NoSnap == [id |-> 0, at |-> 0]

-----------------------------------------------------------------------------
(* The fold over the job rows.                                             *)

\* Mutant: every finalized state counts as a success.
MapStatusStateFinal(s) ==
  CASE s = "running"       -> "running"
    [] s \in FinalStates   -> "succeeded"
    [] s = "retryable"     -> "retryable"
    [] OTHER               -> "pending"

MapStatusState(s) ==
  CASE s = "running"   -> "running"
    [] s = "completed" -> "succeeded"
    [] s = "retryable" -> "retryable"
    [] s = "discarded" -> "failed"
    [] OTHER           -> "pending"

\* ListJobs: the rows of kind k whose mapped state is one of S.
Rows(k, S) ==
  {i \in JobIds : /\ jobs[i].state # "none"
                  /\ jobs[i].kind = k
                  /\ MapStatusState(jobs[i].state) \in S}

EffectiveJobTime(i) ==
  IF at[i].finalized # 0 THEN at[i].finalized
  ELSE IF at[i].attempted # 0 THEN at[i].attempted
  ELSE at[i].created

\* Mutant: an earlier candidate replaces a later one.
NewestIsOldest(S) ==
  {i \in S : \A j \in S : EffectiveJobTime(i) <= EffectiveJobTime(j)}

\* The row that no other row of S is After; none of an empty S.
Newest(S) == {i \in S : \A j \in S : EffectiveJobTime(i) >= EffectiveJobTime(j)}

\* assignRunning prefers the job that started last (laterJob).
NewestStart(S) ==
  {i \in S : \A j \in S : at[i].attempted >= at[j].attempted}

\* assignLatestError: rows in backoff and failed rows that have an error.
Failing ==
  {i \in UNION {Rows(k, {"retryable", "failed"}) : k \in Kinds} : at[i].failed # 0}

\* assignSuccess of the sync jobs, on top of the snapshot that was read.
LastSuccessfulSyncAt(s) ==
  Max({s.at} \cup {EffectiveJobTime(i) : i \in Rows("sync", {"succeeded"})})

LastIndexJob == Newest(Rows("index", {"succeeded"}))

\* Mutant: the start of the attempt is taken for its end.
IndexAtStart == Max({0} \cup {at[i].attempted : i \in LastIndexJob})

LastSuccessfulIndexAt == Max({0} \cup {EffectiveJobTime(i) : i \in LastIndexJob})

\* GetIndexSyncStatus of the snapshot read, s, and the rows as they are now.
Status(s) ==
  [snapshot |-> s,
   syncAt   |-> LastSuccessfulSyncAt(s),
   indexAt  |-> LastSuccessfulIndexAt,
   delta    |-> Max({0} \cup {jobs[i].payload : i \in LastIndexJob}),
   pending  |-> [k \in Kinds |-> Cardinality(Rows(k, {"pending", "retryable"}))],
   running  |-> [k \in Kinds |-> NewestStart(Rows(k, {"running"}))],
   count    |-> [k \in Kinds |-> Cardinality(Rows(k, {"running"}))],
   error    |-> {[job |-> i, time |-> EffectiveJobTime(i)] : i \in Newest(Failing)}]

\* renderBackgroundWork: "Background work is idle."
Idle(st) == \A k \in Kinds : st.pending[k] = 0 /\ st.count[k] = 0

-----------------------------------------------------------------------------
(* The jobs, with the stamps River writes.                                 *)

Tick == clock < MaxClock /\ clock' = clock + 1

\* An insert stamps the new row; a skipped one leaves no trace.
Enqueue(k, p) ==
  /\ Insert(k, p)
  /\ IF Duplicate(k) THEN UNCHANGED <<clock, at>>
     ELSE /\ Tick
          /\ at' = [i \in JobIds |->
                      IF jobs'[i] # jobs[i] THEN [NoStamps EXCEPT !.created = clock']
                      ELSE at[i]]

\* The index_repo tool.
IndexRepo ==
  /\ Enqueue("sync", NoPayload)
  /\ UNCHANGED <<snap, phase, reader, success, forgotten>>

Start(i) ==
  /\ Fetch(i)
  /\ Tick
  /\ at' = [at EXCEPT ![i].attempted = clock']
  /\ phase' = [phase EXCEPT ![i] = "scan"]
  /\ UNCHANGED <<snap, reader, success, forgotten>>

\* SyncWorker.run saves a snapshot; without file deltas there is no more to do.
Save(i, changed) ==
  /\ jobs[i].kind = "sync" /\ jobs[i].state = "running" /\ phase[i] = "scan"
  /\ snap.id < MaxSaves
  /\ Tick
  /\ snap' = [id |-> snap.id + 1, at |-> clock']
  /\ phase' = [phase EXCEPT ![i] = IF changed THEN "enqueue" ELSE "done"]
  /\ UNCHANGED <<jobs, at, reader, success, forgotten>>

\* SyncWorker.run enqueues the delta of the snapshot it saved, the latest one.
SendDelta(i) ==
  /\ jobs[i].state = "running" /\ phase[i] = "enqueue"
  /\ Enqueue("index", snap.id)
  /\ phase' = [phase EXCEPT ![i] = "done"]
  /\ UNCHANGED <<snap, reader, success, forgotten>>

\* Work returns nil; a sync in phase "scan" found the snapshot current.
Succeed(i) ==
  /\ phase[i] # "enqueue"
  /\ Complete(i)
  /\ Tick
  /\ at' = [at EXCEPT ![i].finalized = clock']
  /\ success' = [success EXCEPT ![jobs[i].kind] =
                   [at |-> clock', payload |-> jobs[i].payload]]
  /\ UNCHANGED <<snap, phase, reader, forgotten>>

\* Mutant: a discarded job is not finalized.
FailTimeNever(i, t) == 0

\* finalized_at is set only by an attempt that was the last one.
FailTime(i, t) == IF LastAttempt(i) THEN t ELSE 0

\* Work returns an error or the rescuer gives the attempt up: River appends to
\* the errors of the row.
FailAttempt(i) ==
  /\ Fail(i)
  /\ Tick
  /\ at' = [at EXCEPT ![i] =
              [at[i] EXCEPT !.failed = clock', !.finalized = FailTime(i, clock')]]
  /\ UNCHANGED <<snap, phase, reader, success, forgotten>>

\* A cancelled scan is snoozed; the row keeps its stamps and errors.
SnoozeSync(i) ==
  /\ jobs[i].kind = "sync"
  /\ Snooze(i)
  /\ UNCHANGED <<clock, at, snap, phase, reader, success, forgotten>>

Backoff(i) ==
  /\ Reschedule(i)
  /\ UNCHANGED <<clock, at, snap, phase, reader, success, forgotten>>

\* A finalized row is kept for longer than a status call takes.
Expire(i) ==
  /\ reader.pc = "loaded" => at[i].finalized < reader.since
  /\ Clean(i)
  /\ at' = [at EXCEPT ![i] = NoStamps]
  /\ forgotten' = forgotten \cup
                    {at[j].finalized : j \in {i} \cap {m \in JobIds : jobs[m].state = "completed"}}
  /\ UNCHANGED <<clock, snap, phase, reader, success>>

-----------------------------------------------------------------------------
(* The status call.                                                        *)

NoStatus == [k \in {} |-> 0]

NoReader == [pc |-> "idle", since |-> 0, snapshot |-> NoSnap, status |-> NoStatus]

\* LoadLatestSnapshot.
ReadSnapshot ==
  /\ reader.pc = "idle"
  /\ reader' = [NoReader EXCEPT !.pc = "loaded", !.since = clock + 1, !.snapshot = snap]
  /\ UNCHANGED <<jobs, clock, at, snap, phase, success, forgotten>>

\* ListJobs and the fold.
ListJobs ==
  /\ reader.pc = "loaded"
  /\ reader' = [NoReader EXCEPT !.pc = "done", !.status = Status(reader.snapshot)]
  /\ UNCHANGED <<jobs, clock, at, snap, phase, success, forgotten>>

\* The report is delivered, or one of the two reads failed.
EndCall ==
  /\ reader.pc \in {"loaded", "done"}
  /\ reader' = NoReader
  /\ UNCHANGED <<jobs, clock, at, snap, phase, success, forgotten>>

-----------------------------------------------------------------------------
StatusInit ==
  /\ Init
  /\ clock = 0
  /\ at = [i \in JobIds |-> NoStamps]
  /\ snap = NoSnap
  /\ phase = [i \in JobIds |-> "scan"]
  /\ reader = NoReader
  /\ success = [k \in Kinds |-> [at |-> 0, payload |-> NoPayload]]
  /\ forgotten = {}

JobStep(i) ==
  \/ Start(i)
  \/ \E changed \in BOOLEAN : Save(i, changed)
  \/ SendDelta(i)
  \/ Succeed(i)
  \/ FailAttempt(i)
  \/ SnoozeSync(i)
  \/ Backoff(i)
  \/ Expire(i)

StatusNext ==
  \/ IndexRepo
  \/ \E i \in JobIds : JobStep(i)
  \/ ReadSnapshot
  \/ ListJobs
  \/ EndCall

StatusSpec == StatusInit /\ [][StatusNext]_statusVars

-----------------------------------------------------------------------------
(* Every variable has its type; a row has the stamps of its state, in the  *)
(* order the states were entered in.                                       *)
StatusTypeOK ==
  /\ clock \in Times
  /\ at \in [JobIds -> Stamps]
  /\ snap \in Snaps
  /\ phase \in [JobIds -> {"scan", "enqueue", "done"}]
  /\ reader.pc \in {"idle", "loaded", "done"}
  /\ success \in [Kinds -> [at : Times, payload : Payloads]]
  /\ forgotten \subseteq Times
  /\ \A i \in JobIds :
       /\ (at[i].created # 0) <=> (jobs[i].state # "none")
       /\ (at[i].finalized # 0) <=> (jobs[i].state \in FinalStates)
       /\ jobs[i].state \in {"running", "retryable"} => at[i].attempted > at[i].created
       /\ at[i].finalized # 0 => at[i].finalized > at[i].attempted

\* A status call completes in this step.
Reports == reader.pc = "loaded" /\ reader'.pc = "done"

Report == reader'.status

(* A report that the background work is idle, with no error, can be relied *)
(* on although snapshot and jobs are read at two moments and retries       *)
(* rewrite the rows: no job is waiting, running or has failed, and if a    *)
(* snapshot was saved between the two reads, the last sync shown is later  *)
(* than the snapshot shown.                                                *)
QuietReportIsSettled ==
  [][Reports /\ Idle(Report) /\ Report.error = {} =>
       /\ \A i \in JobIds : jobs[i].state \in {"none", "completed"}
       /\ Report.snapshot # snap => Report.syncAt > Report.snapshot.at]_statusVars

(* The success times shown are those of the last success of each kind, and *)
(* the size of the last delta that of the same index job, as long as the   *)
(* cleaner has not removed the row; afterwards the index time is missing   *)
(* and the sync time falls back to the snapshot's.  A success that a later *)
(* attempt, request or snapshot follows is never shown with another time.  *)
SuccessTimesAreTrue ==
  [][Reports =>
       /\ IF success["index"].at \in forgotten
          THEN Report.indexAt = 0
          ELSE /\ Report.indexAt = success["index"].at
               /\ Report.delta = success["index"].payload
       /\ Report.syncAt = Max({Report.snapshot.at} \cup
                              ({success["sync"].at} \ forgotten))]_statusVars

(* index_repo.go: "Repository sync is already queued in the background.    *)
(* Use index_status to check progress." is the answer whenever the insert  *)
(* is skipped as a duplicate.  The status should then show a sync job that *)
(* is waiting or running.                                                  *)
QueuedAnswerIsTrue ==
  Duplicate("sync") =>
    Status(snap).pending["sync"] + Status(snap).count["sync"] = 1

(* The error shown should be that of the latest failure (service_test.go   *)
(* TestGetIndexSyncStatusPrefersLatestFailure).  What holds: there is one  *)
(* whenever a job is in backoff or discarded; its time is not after its    *)
(* failure; and a later failure is hidden behind it only if it is of a job *)
(* in backoff whose attempt had started before, since such a row has no    *)
(* finalized_at (the test gives it one).                                   *)
HiddenFailureIsBackoff ==
  [][Reports =>
       /\ (Report.error = {}) <=> (Failing = {})
       /\ \A e \in Report.error :
            /\ e.time <= at[e.job].failed
            /\ \A i \in Failing :
                 at[i].failed > at[e.job].failed =>
                   jobs[i].state = "retryable" /\ at[i].attempted <= e.time]_statusVars

=============================================================================
