------------------------- MODULE IndexStatusProofs -------------------------
(***************************************************************************)
(* For every number of job rows, snapshots and stamps: the jobs the index  *)
(* status reports on behave as RiverQueue specifies, so its theorems carry *)
(* over; the stamps of a row always fit its state (StatusInv); and what a  *)
(* report says is true.  For the last, ReportInv relates the rows to the   *)
(* history: which failure and which success each row stands for, and which *)
(* sync job is still listed when the snapshot a call has read is no longer *)
(* the latest.                                                             *)
(***************************************************************************)
EXTENDS IndexStatus, RiverQueueProofs, FiniteSetTheorems, WellFoundedInduction

USE QueueAssumption, StatusAssumption DEF LiveStates, FinalStates, JobStates

-----------------------------------------------------------------------------
(* The jobs of the status model are jobs of the queue.                     *)

(* Every step of the status model is a step of the queue or leaves the     *)
(* jobs alone; the snapshot an index job is enqueued for is a payload.     *)
LEMMA StatusStepIsQueueStep ==
  ASSUME StatusTypeOK, [StatusNext]_statusVars PROVE [Next]_jobs
<1>1. CASE IndexRepo
  BY <1>1 DEF IndexRepo, Enqueue, Next
<1>2. ASSUME NEW i \in JobIds, JobStep(i) PROVE [Next]_jobs
  <2>1. CASE Start(i)
    BY <2>1 DEF Start, Next
  <2>2. ASSUME NEW changed \in BOOLEAN, Save(i, changed) PROVE [Next]_jobs
    BY <2>2 DEF Save
  <2>3. CASE SendDelta(i)
    <3>1. snap.id \in Payloads
      BY DEF StatusTypeOK, Snaps
    <3> QED
      BY <2>3, <3>1 DEF SendDelta, Enqueue, Next
  <2>4. CASE Succeed(i)
    BY <2>4 DEF Succeed, Next
  <2>5. CASE FailAttempt(i)
    BY <2>5 DEF FailAttempt, Next
  <2>6. CASE SnoozeSync(i)
    BY <2>6 DEF SnoozeSync, Next
  <2>7. CASE Backoff(i)
    BY <2>7 DEF Backoff, Next
  <2>8. CASE Expire(i)
    BY <2>8 DEF Expire, Next
  <2> QED
    BY <1>2, <2>1, <2>2, <2>3, <2>4, <2>5, <2>6, <2>7, <2>8 DEF JobStep
<1>3. CASE ReadSnapshot \/ ListJobs \/ EndCall \/ UNCHANGED statusVars
  BY <1>3 DEF ReadSnapshot, ListJobs, EndCall, statusVars
<1> QED
  BY <1>1, <1>2, <1>3 DEF StatusNext

-----------------------------------------------------------------------------
(* The stamps.                                                             *)

(* The stamps of a row fit its state, and none is ahead of the clock:      *)
(* without the last part a stamp taken from the clock need not be later    *)
(* than the ones the row has already.                                      *)
RowFits(i) ==
  /\ (at[i].created # 0) <=> (jobs[i].state # "none")
  /\ (at[i].finalized # 0) <=> (jobs[i].state \in FinalStates)
  /\ jobs[i].state \in {"running", "retryable"} => at[i].attempted > at[i].created
  /\ at[i].finalized # 0 => at[i].finalized > at[i].attempted
  /\ at[i].created <= clock
  /\ at[i].attempted <= clock

\* The types of StatusTypeOK.
VarTypes ==
  /\ clock \in Times
  /\ at \in [JobIds -> Stamps]
  /\ snap \in Snaps
  /\ phase \in [JobIds -> {"scan", "enqueue", "done"}]
  /\ reader.pc \in {"idle", "loaded", "done"}
  /\ success \in [Kinds -> [at : Times, payload : Payloads]]
  /\ forgotten \subseteq Times

StatusInv == TypeOK /\ VarTypes /\ \A i \in JobIds : RowFits(i)

(* The inductive invariant is at least StatusTypeOK.                       *)
LEMMA StatusInvTypes == StatusInv => StatusTypeOK
BY DEF StatusInv, VarTypes, RowFits, StatusTypeOK

(* The clock ticks to a later time.                                        *)
LEMMA TickIsLater ==
  ASSUME VarTypes, Tick PROVE clock' \in Times /\ clock' = clock + 1 /\ clock' > 0
BY DEF Tick, Times, VarTypes

(* A row that a step leaves alone still fits.                              *)
LEMMA OtherRowFits ==
  ASSUME StatusInv, NEW j \in JobIds, jobs'[j] = jobs[j], at'[j] = at[j],
         clock' \in Times, clock' >= clock
  PROVE  RowFits(j)'
BY DEF StatusInv, VarTypes, RowFits, Times, Stamps

(* After an insert every row fits: one free row is stamped with the time   *)
(* of the insert, or nothing happened.                                     *)
LEMMA EnqueueKeepsStamps ==
  ASSUME StatusInv, NEW k \in Kinds, NEW p \in Payloads, Enqueue(k, p)
  PROVE  /\ clock' \in Times
         /\ at' \in [JobIds -> Stamps]
         /\ \A j \in JobIds : RowFits(j)'
<1>0. clock \in Times /\ at \in [JobIds -> Stamps]
  BY DEF StatusInv, VarTypes
<1>1. CASE Duplicate(k)
  <2>1. UNCHANGED <<jobs, clock, at>>
    BY <1>1 DEF Enqueue, Insert
  <2> QED
    BY <1>0, <2>1, OtherRowFits DEF Times
<1>2. CASE ~Duplicate(k)
  <2>1. PICK i \in FreeIds :
          jobs' = [jobs EXCEPT ![i] = [kind |-> k, state |-> "available",
                                       attempt |-> 0, payload |-> p]]
    BY <1>2 DEF Enqueue, Insert
  <2>2. i \in JobIds /\ jobs[i].state = "none"
    BY <2>1 DEF FreeIds
  <2>3. /\ jobs'[i].state = "available"
        /\ jobs'[i] # jobs[i]
        /\ \A j \in JobIds \ {i} : jobs'[j] = jobs[j]
    BY <2>1, <2>2 DEF StatusInv, TypeOK
  <2>4. Tick /\ at' = [j \in JobIds |->
                         IF jobs'[j] # jobs[j] THEN [NoStamps EXCEPT !.created = clock']
                         ELSE at[j]]
    BY <1>2 DEF Enqueue
  <2>5. clock' \in Times /\ clock' = clock + 1 /\ clock' > 0
    BY <2>4, TickIsLater DEF StatusInv
  <2>6. [NoStamps EXCEPT !.created = clock']
          = [created |-> clock', attempted |-> 0, finalized |-> 0, failed |-> 0]
    BY DEF NoStamps
  <2>7. at'[i] = [created |-> clock', attempted |-> 0, finalized |-> 0, failed |-> 0]
    BY <2>2, <2>3, <2>4, <2>6
  <2>8. \A j \in JobIds \ {i} : at'[j] = at[j]
    BY <2>3, <2>4
  <2>9. at' \in [JobIds -> Stamps]
    <3>1. at'[i] \in Stamps
      BY <2>5, <2>7 DEF Stamps, Times
    <3>2. \A j \in JobIds : at'[j] \in Stamps
      BY <1>0, <2>8, <3>1
    <3> QED
      BY <2>4, <3>2
  <2>10. RowFits(i)'
    BY <2>3, <2>5, <2>7 DEF RowFits, Times
  <2>11. \A j \in JobIds \ {i} : RowFits(j)'
    BY <2>3, <2>5, <2>8, OtherRowFits, <1>0 DEF Times
  <2> QED
    BY <2>5, <2>9, <2>10, <2>11
<1> QED
  BY <1>1, <1>2

(* A step that changes the row and the stamps of one job keeps all rows    *)
(* fitting if it keeps that one.                                           *)
LEMMA OneRowSuffices ==
  ASSUME StatusInv, NEW i \in JobIds, clock' \in Times, clock' >= clock,
         RowFits(i)',
         \A j \in JobIds \ {i} : jobs'[j] = jobs[j] /\ at'[j] = at[j]
  PROVE  \A j \in JobIds : RowFits(j)'
BY OtherRowFits

(* Stamps that are taken from the clock keep their type.                   *)
LEMMA StampType ==
  ASSUME at \in [JobIds -> Stamps], NEW i \in JobIds, NEW s \in Stamps,
         at' = [at EXCEPT ![i] = s]
  PROVE  /\ at' \in [JobIds -> Stamps]
         /\ at'[i] = s
         /\ \A j \in JobIds \ {i} : at'[j] = at[j]
OBVIOUS

(* The stamps of a row whose attempt failed.                               *)
LEMMA FailedStamps ==
  ASSUME NEW r \in Stamps, NEW t \in Times, NEW f \in Times
  PROVE  [r EXCEPT !.failed = t, !.finalized = f]
           = [created |-> r.created, attempted |-> r.attempted, finalized |-> f, failed |-> t]
<1>1. PICK q : q = [created |-> r.created, attempted |-> r.attempted,
                    finalized |-> r.finalized, failed |-> t]
  OBVIOUS
<1>2. q = [r EXCEPT !.failed = t]
  BY <1>1 DEF Stamps
<1>3. [q EXCEPT !.finalized = f]
        = [created |-> r.created, attempted |-> r.attempted, finalized |-> f, failed |-> t]
  BY <1>1
<1> QED
  BY <1>2, <1>3, Zenon

(* A step of a job keeps the types and the stamps.                         *)
LEMMA JobStepKeepsStamps ==
  ASSUME StatusInv, NEW i \in JobIds, JobStep(i)
  PROVE  VarTypes' /\ \A j \in JobIds : RowFits(j)'
<1>0. /\ VarTypes
      /\ at \in [JobIds -> Stamps]
      /\ at[i] \in Stamps
      /\ clock \in Times /\ clock >= clock
      /\ RowFits(i)
      /\ jobs \in [JobIds -> Job]
  BY DEF StatusInv, VarTypes, TypeOK, Times
<1>1. CASE Start(i)
  <2>1. clock' \in Times /\ clock' = clock + 1 /\ clock' > 0 /\ clock' >= clock
    BY <1>0, <1>1, TickIsLater DEF Start, Times
  <2> DEFINE s == [created |-> at[i].created, attempted |-> clock',
                   finalized |-> at[i].finalized, failed |-> at[i].failed]
  <2>2. s \in Stamps /\ at' = [at EXCEPT ![i] = s]
    <3>1. s \in Stamps
      BY <1>0, <2>1 DEF Stamps
    <3>2. s = [at[i] EXCEPT !.attempted = clock']
      BY <1>0 DEF Stamps
    <3>3. at' = [at EXCEPT ![i] = [at[i] EXCEPT !.attempted = clock']]
      BY <1>0, <1>1 DEF Start
    <3> QED
      BY <3>1, <3>2, <3>3
  <2>3. /\ at' \in [JobIds -> Stamps]
        /\ at'[i] = s
        /\ \A j \in JobIds \ {i} : at'[j] = at[j]
    BY <1>0, <2>2, StampType
  <2>4. /\ jobs[i].state = "available" /\ jobs'[i].state = "running"
        /\ \A j \in JobIds \ {i} : jobs'[j] = jobs[j]
    BY <1>0, <1>1 DEF Start, Fetch, Job
  <2>5. RowFits(i)'
    BY <1>0, <2>1, <2>3, <2>4 DEF RowFits, Stamps, Times
  <2>6. VarTypes'
    BY <1>0, <1>1, <2>1, <2>3 DEF VarTypes, Start
  <2> HIDE DEF s
  <2> QED
    BY <2>1, <2>3, <2>4, <2>5, <2>6, OneRowSuffices
<1>2. ASSUME NEW changed \in BOOLEAN, Save(i, changed)
      PROVE  VarTypes' /\ \A j \in JobIds : RowFits(j)'
  <2>1. clock' \in Times /\ clock' = clock + 1 /\ clock' > 0 /\ clock' >= clock
    BY <1>0, <1>2, TickIsLater DEF Save, Times
  <2>2. snap' \in Snaps
    BY <1>0, <1>2, <2>1 DEF Save, Snaps, VarTypes
  <2>3. phase' \in [JobIds -> {"scan", "enqueue", "done"}]
    BY <1>0, <1>2 DEF Save, VarTypes
  <2>4. UNCHANGED <<jobs, at, reader, success, forgotten>>
    BY <1>2 DEF Save
  <2>5. VarTypes'
    BY <1>0, <2>1, <2>2, <2>3, <2>4 DEF VarTypes
  <2>6. \A j \in JobIds : RowFits(j)'
    BY <2>1, <2>4, OtherRowFits
  <2> QED
    BY <2>5, <2>6
<1>3. CASE SendDelta(i)
  <2>1. snap.id \in Payloads /\ "index" \in Kinds /\ Enqueue("index", snap.id)
    BY <1>0, <1>3 DEF SendDelta, Snaps, VarTypes
  <2>2. phase' \in [JobIds -> {"scan", "enqueue", "done"}]
    BY <1>0, <1>3 DEF SendDelta, VarTypes
  <2>3. UNCHANGED <<snap, reader, success, forgotten>>
    BY <1>3 DEF SendDelta
  <2>4. /\ clock' \in Times
        /\ at' \in [JobIds -> Stamps]
        /\ \A j \in JobIds : RowFits(j)'
    BY <2>1, EnqueueKeepsStamps
  <2> QED
    BY <1>0, <2>2, <2>3, <2>4 DEF VarTypes
<1>4. CASE Succeed(i)
  <2>1. clock' \in Times /\ clock' = clock + 1 /\ clock' > 0 /\ clock' >= clock
    BY <1>0, <1>4, TickIsLater DEF Succeed, Times
  <2> DEFINE s == [created |-> at[i].created, attempted |-> at[i].attempted,
                   finalized |-> clock', failed |-> at[i].failed]
  <2>2. s \in Stamps /\ at' = [at EXCEPT ![i] = s]
    <3>1. s \in Stamps
      BY <1>0, <2>1 DEF Stamps
    <3>2. s = [at[i] EXCEPT !.finalized = clock']
      BY <1>0 DEF Stamps
    <3>3. at' = [at EXCEPT ![i] = [at[i] EXCEPT !.finalized = clock']]
      BY <1>0, <1>4 DEF Succeed
    <3> QED
      BY <3>1, <3>2, <3>3
  <2>3. /\ at' \in [JobIds -> Stamps]
        /\ at'[i] = s
        /\ \A j \in JobIds \ {i} : at'[j] = at[j]
    BY <1>0, <2>2, StampType
  <2>4. /\ jobs[i].state = "running" /\ jobs'[i].state = "completed"
        /\ \A j \in JobIds \ {i} : jobs'[j] = jobs[j]
    BY <1>0, <1>4 DEF Succeed, Complete, Job
  <2>5. RowFits(i)'
    BY <1>0, <2>1, <2>3, <2>4 DEF RowFits, Stamps, Times
  <2>6. success' \in [Kinds -> [at : Times, payload : Payloads]]
    <3>1. jobs[i].payload \in Payloads
      BY <1>0 DEF Job
    <3>2. success' = [success EXCEPT ![jobs[i].kind] =
                        [at |-> clock', payload |-> jobs[i].payload]]
      BY <1>4 DEF Succeed
    <3>3. success \in [Kinds -> [at : Times, payload : Payloads]]
      BY <1>0 DEF VarTypes
    <3> QED
      BY <2>1, <3>1, <3>2, <3>3
  <2>7. VarTypes'
    BY <1>0, <1>4, <2>1, <2>3, <2>6 DEF VarTypes, Succeed
  <2> HIDE DEF s
  <2> QED
    BY <2>1, <2>3, <2>4, <2>5, <2>7, OneRowSuffices
<1>5. CASE FailAttempt(i)
  <2>1. clock' \in Times /\ clock' = clock + 1 /\ clock' > 0 /\ clock' >= clock
    BY <1>0, <1>5, TickIsLater DEF FailAttempt, Times
  <2> DEFINE s == [created |-> at[i].created, attempted |-> at[i].attempted,
                   finalized |-> FailTime(i, clock'), failed |-> clock']
  <2>2. FailTime(i, clock') \in Times
    BY <2>1 DEF FailTime, Times
  <2>3. s \in Stamps /\ at' = [at EXCEPT ![i] = s]
    <3>1. s \in Stamps
      BY <1>0, <2>1, <2>2 DEF Stamps
    <3>2. s = [at[i] EXCEPT !.failed = clock', !.finalized = FailTime(i, clock')]
      BY <1>0, <2>1, <2>2, FailedStamps
    <3>3. at' = [at EXCEPT ![i] = [at[i] EXCEPT !.failed = clock', !.finalized = FailTime(i, clock')]]
      BY <1>5, Zenon DEF FailAttempt
    <3> QED
      BY <3>1, <3>2, <3>3
  <2>4. /\ at' \in [JobIds -> Stamps]
        /\ at'[i] = s
        /\ \A j \in JobIds \ {i} : at'[j] = at[j]
    BY <1>0, <2>3, StampType
  <2>5. /\ jobs[i].state = "running"
        /\ jobs'[i].state = IF LastAttempt(i) THEN "discarded" ELSE "retryable"
        /\ \A j \in JobIds \ {i} : jobs'[j] = jobs[j]
    BY <1>0, <1>5 DEF FailAttempt, Fail, Job
  <2>6. RowFits(i)'
    BY <1>0, <2>1, <2>4, <2>5 DEF RowFits, Stamps, Times, FailTime
  <2>7. VarTypes'
    BY <1>0, <1>5, <2>1, <2>4 DEF VarTypes, FailAttempt
  <2> HIDE DEF s
  <2> QED
    BY <2>1, <2>4, <2>5, <2>6, <2>7, OneRowSuffices
<1>6. CASE SnoozeSync(i) \/ Backoff(i)
  <2>1. UNCHANGED <<clock, at, snap, phase, reader, success, forgotten>>
    BY <1>6 DEF SnoozeSync, Backoff
  <2>2. /\ jobs[i].state \in {"running", "retryable"} /\ jobs'[i].state = "available"
        /\ \A j \in JobIds \ {i} : jobs'[j] = jobs[j]
    BY <1>0, <1>6 DEF SnoozeSync, Snooze, Backoff, Reschedule, Job
  <2>3. RowFits(i)'
    BY <1>0, <2>1, <2>2 DEF RowFits, Stamps, Times
  <2>4. VarTypes'
    BY <1>0, <2>1 DEF VarTypes
  <2> QED
    BY <1>0, <2>1, <2>2, <2>3, <2>4, OneRowSuffices
<1>7. CASE Expire(i)
  <2>1. UNCHANGED <<clock, snap, phase, reader, success>>
    BY <1>7 DEF Expire
  <2>2. NoStamps \in Stamps /\ at' = [at EXCEPT ![i] = NoStamps]
    BY <1>7 DEF Expire, NoStamps, Stamps, Times
  <2>3. /\ at' \in [JobIds -> Stamps]
        /\ at'[i] = NoStamps
        /\ \A j \in JobIds \ {i} : at'[j] = at[j]
    BY <1>0, <2>2, StampType
  <2>4. jobs'[i].state = "none" /\ \A j \in JobIds \ {i} : jobs'[j] = jobs[j]
    BY <1>0, <1>7 DEF Expire, Clean, FreeSlot
  <2>5. RowFits(i)'
    BY <1>0, <2>1, <2>3, <2>4 DEF RowFits, NoStamps, Times
  <2>6. forgotten' \subseteq Times
    <3>1. \A j \in JobIds : at[j].finalized \in Times
      BY <1>0 DEF Stamps
    <3> QED
      BY <1>0, <1>7, <3>1 DEF Expire, VarTypes
  <2>7. VarTypes'
    BY <1>0, <2>1, <2>3, <2>6 DEF VarTypes
  <2> QED
    BY <1>0, <2>1, <2>3, <2>4, <2>5, <2>7, OneRowSuffices
<1> QED
  BY <1>1, <1>2, <1>3, <1>4, <1>5, <1>6, <1>7 DEF JobStep

(* StatusInv is inductive.                                                 *)
LEMMA StatusInvStep == StatusInv /\ [StatusNext]_statusVars => StatusInv'
<1> SUFFICES ASSUME StatusInv, [StatusNext]_statusVars PROVE StatusInv'
  OBVIOUS
<1>0. VarTypes /\ clock \in Times /\ clock >= clock
  BY DEF StatusInv, VarTypes, Times
<1>1. TypeOK'
  BY StatusInvTypes, StatusStepIsQueueStep, TypeStep DEF StatusInv
<1>2. VarTypes' /\ \A j \in JobIds : RowFits(j)'
  <2>1. CASE IndexRepo
    <3>1. Enqueue("sync", NoPayload) /\ UNCHANGED <<snap, phase, reader, success, forgotten>>
      BY <2>1 DEF IndexRepo
    <3>2. /\ clock' \in Times
          /\ at' \in [JobIds -> Stamps]
          /\ \A j \in JobIds : RowFits(j)'
      BY <3>1, EnqueueKeepsStamps
    <3> QED
      BY <1>0, <3>1, <3>2 DEF VarTypes
  <2>2. ASSUME NEW i \in JobIds, JobStep(i) PROVE VarTypes' /\ \A j \in JobIds : RowFits(j)'
    BY <2>2, JobStepKeepsStamps
  <2>3. CASE ReadSnapshot \/ ListJobs \/ EndCall
    <3>1. reader'.pc \in {"idle", "loaded", "done"}
      <4>1. CASE ReadSnapshot
        BY <4>1 DEF ReadSnapshot, NoReader
      <4>2. CASE ListJobs
        BY <4>2 DEF ListJobs, NoReader
      <4>3. CASE EndCall
        BY <4>3 DEF EndCall, NoReader
      <4> QED
        BY <2>3, <4>1, <4>2, <4>3
    <3>2. UNCHANGED <<jobs, clock, at, snap, phase, success, forgotten>>
      BY <2>3 DEF ReadSnapshot, ListJobs, EndCall
    <3>3. VarTypes'
      BY <1>0, <3>1, <3>2 DEF VarTypes
    <3> QED
      BY <1>0, <3>2, <3>3, OtherRowFits
  <2>4. CASE UNCHANGED statusVars
    <3>1. VarTypes'
      BY <1>0, <2>4 DEF VarTypes, statusVars
    <3>2. UNCHANGED <<jobs, at, clock>>
      BY <2>4 DEF statusVars
    <3> QED
      BY <1>0, <3>1, <3>2, OtherRowFits
  <2> QED
    BY <2>1, <2>2, <2>3, <2>4 DEF StatusNext
<1> QED
  BY <1>1, <1>2 DEF StatusInv

(* The invariant holds initially.                                          *)
LEMMA StatusInvInit == StatusInit => StatusInv
<1> SUFFICES ASSUME StatusInit PROVE StatusInv
  OBVIOUS
<1>1. PICK k \in Kinds : jobs = [i \in JobIds |-> FreeSlot(k)]
  BY DEF StatusInit, Init
<1>2. TypeOK
  BY <1>1 DEF TypeOK, Job, FreeSlot
<1>3. at = [i \in JobIds |-> NoStamps] /\ NoStamps \in Stamps
  BY DEF StatusInit, NoStamps, Stamps, Times
<1>4. reader.pc = "idle"
  BY DEF StatusInit, NoReader
<1>5. success \in [Kinds -> [at : Times, payload : Payloads]]
  BY DEF StatusInit, Times
<1>6. VarTypes
  BY <1>3, <1>4, <1>5 DEF StatusInit, VarTypes, Times, Snaps, NoSnap
<1>7. \A i \in JobIds : RowFits(i)
  BY <1>1, <1>3 DEF StatusInit, RowFits, NoStamps, FreeSlot
<1> QED
  BY <1>2, <1>6, <1>7 DEF StatusInv

(* Every row has the stamps of its state, in the order the states were     *)
(* entered in: what effectiveJobTime takes for the end of a job is one.    *)
THEOREM StatusTypeCorrect == StatusSpec => []StatusTypeOK
BY StatusInvTypes, StatusInvInit, StatusInvStep, PTL DEF StatusSpec

(* The jobs of the status model implement the queue's specification.       *)
THEOREM StatusImplementsQueue == StatusSpec => Spec
<1>1. StatusInit => Init
  BY DEF StatusInit
<1>2. StatusTypeOK /\ [StatusNext]_statusVars => [Next]_jobs
  BY StatusStepIsQueueStep
<1> QED
  BY <1>1, <1>2, StatusTypeCorrect, PTL DEF StatusSpec, Spec

(* The jobs a status lists never include two of one identity key that are  *)
(* both counted by the unique insert.                                      *)
THEOREM StatusUniqueHolder == StatusSpec => []UniqueHolder
BY StatusImplementsQueue, UniqueHolderTheorem, PTL

-----------------------------------------------------------------------------
(* What each step does to the rows.                                        *)

\* Only the row of job i changes, and it stays the row of that job.
RowStep(i) ==
  /\ \A j \in JobIds \ {i} : jobs'[j] = jobs[j] /\ at'[j] = at[j]
  /\ jobs'[i].kind = jobs[i].kind

(* A step of a job: what becomes of its state and its stamps.              *)
LEMMA StartRow ==
  ASSUME StatusInv, NEW i \in JobIds, Start(i)
  PROVE  /\ RowStep(i) /\ clock' = clock + 1
         /\ jobs[i].state = "available" /\ jobs'[i].state = "running"
         /\ at'[i].finalized = at[i].finalized
<1>1. jobs \in [JobIds -> Job] /\ at \in [JobIds -> Stamps]
  BY DEF StatusInv, TypeOK, VarTypes
<1>2. at' = [at EXCEPT ![i] = [at[i] EXCEPT !.attempted = clock']]
  BY <1>1 DEF Start
<1>3. /\ at'[i].finalized = at[i].finalized
      /\ \A j \in JobIds \ {i} : at'[j] = at[j]
  BY <1>1, <1>2 DEF Stamps
<1>4. /\ \A j \in JobIds \ {i} : jobs'[j] = jobs[j]
      /\ jobs[i].state = "available" /\ jobs'[i].state = "running"
      /\ jobs'[i].kind = jobs[i].kind
  BY <1>1 DEF Start, Fetch, Job
<1> QED
  BY <1>3, <1>4 DEF RowStep, Start, Tick

(* A success is stamped.                                                   *)
LEMMA SucceedRow ==
  ASSUME StatusInv, NEW i \in JobIds, Succeed(i)
  PROVE  /\ RowStep(i) /\ clock' = clock + 1
         /\ jobs[i].state = "running" /\ jobs'[i].state = "completed"
         /\ jobs'[i].payload = jobs[i].payload
         /\ at'[i].finalized = clock'
<1>1. jobs \in [JobIds -> Job] /\ at \in [JobIds -> Stamps]
  BY DEF StatusInv, TypeOK, VarTypes
<1>2. at' = [at EXCEPT ![i] = [at[i] EXCEPT !.finalized = clock']]
  BY <1>1 DEF Succeed
<1>3. /\ at'[i].finalized = clock'
      /\ \A j \in JobIds \ {i} : at'[j] = at[j]
  BY <1>1, <1>2 DEF Stamps
<1>4. /\ \A j \in JobIds \ {i} : jobs'[j] = jobs[j]
      /\ jobs[i].state = "running" /\ jobs'[i].state = "completed"
      /\ jobs'[i].kind = jobs[i].kind /\ jobs'[i].payload = jobs[i].payload
  BY <1>1 DEF Succeed, Complete, Job
<1> QED
  BY <1>3, <1>4 DEF RowStep, Succeed, Tick

(* A failure is stamped, and with it the end of a discarded job.           *)
LEMMA FailRow ==
  ASSUME StatusInv, NEW i \in JobIds, FailAttempt(i)
  PROVE  /\ RowStep(i) /\ clock' = clock + 1
         /\ jobs[i].state = "running"
         /\ at'[i].failed = clock' /\ at'[i].attempted = at[i].attempted
         /\ \/ jobs'[i].state = "discarded" /\ at'[i].finalized = clock'
            \/ jobs'[i].state = "retryable" /\ at'[i].finalized = 0
<1>1. jobs \in [JobIds -> Job] /\ at \in [JobIds -> Stamps] /\ at[i] \in Stamps
  BY DEF StatusInv, TypeOK, VarTypes
<1>2. clock' \in Times /\ clock' = clock + 1
  BY TickIsLater DEF FailAttempt, StatusInv
<1>3. FailTime(i, clock') \in Times
  BY <1>2 DEF FailTime, Times
<1> DEFINE s == [created |-> at[i].created, attempted |-> at[i].attempted,
                 finalized |-> FailTime(i, clock'), failed |-> clock']
<1>4. s \in Stamps
  BY <1>1, <1>2, <1>3 DEF Stamps
<1>5. s = [at[i] EXCEPT !.failed = clock', !.finalized = FailTime(i, clock')]
  BY <1>1, <1>2, <1>3, FailedStamps
<1>6. at' = [at EXCEPT ![i] = [at[i] EXCEPT !.failed = clock', !.finalized = FailTime(i, clock')]]
  BY Zenon DEF FailAttempt
<1>7. at'[i] = s /\ \A j \in JobIds \ {i} : at'[j] = at[j]
  BY <1>1, <1>4, <1>5, <1>6, StampType
<1>8. /\ \A j \in JobIds \ {i} : jobs'[j] = jobs[j]
      /\ jobs[i].state = "running" /\ jobs'[i].kind = jobs[i].kind
      /\ jobs'[i].state = IF LastAttempt(i) THEN "discarded" ELSE "retryable"
  BY <1>1 DEF FailAttempt, Fail, Job
<1> QED
  BY <1>2, <1>7, <1>8 DEF RowStep, FailTime

(* Snoozing and rescheduling keep the stamps.                              *)
LEMMA AgainRow ==
  ASSUME StatusInv, NEW i \in JobIds, SnoozeSync(i) \/ Backoff(i)
  PROVE  /\ RowStep(i) /\ at' = at
         /\ jobs[i].state \in {"running", "retryable"} /\ jobs'[i].state = "available"
<1>1. jobs \in [JobIds -> Job] /\ at \in [JobIds -> Stamps]
  BY DEF StatusInv, TypeOK, VarTypes
<1>2. /\ \A j \in JobIds \ {i} : jobs'[j] = jobs[j]
      /\ jobs[i].state \in {"running", "retryable"} /\ jobs'[i].state = "available"
      /\ jobs'[i].kind = jobs[i].kind
  BY <1>1 DEF SnoozeSync, Snooze, Backoff, Reschedule, Job
<1> QED
  BY <1>2 DEF RowStep, SnoozeSync, Backoff

(* An expired row is free; the stamp of a success is remembered.           *)
LEMMA ExpireRow ==
  ASSUME StatusInv, NEW i \in JobIds, Expire(i)
  PROVE  /\ RowStep(i)
         /\ jobs[i].state \in FinalStates /\ jobs'[i].state = "none"
         /\ at'[i].finalized = 0
         /\ forgotten' = IF jobs[i].state = "completed"
                         THEN forgotten \cup {at[i].finalized} ELSE forgotten
<1>1. jobs \in [JobIds -> Job] /\ at \in [JobIds -> Stamps]
  BY DEF StatusInv, TypeOK, VarTypes
<1>2. at' = [at EXCEPT ![i] = NoStamps]
  BY DEF Expire
<1>3. at'[i].finalized = 0 /\ \A j \in JobIds \ {i} : at'[j] = at[j]
  BY <1>1, <1>2 DEF NoStamps
<1>4. /\ \A j \in JobIds \ {i} : jobs'[j] = jobs[j]
      /\ jobs[i].state \in FinalStates /\ jobs'[i].state = "none"
      /\ jobs'[i].kind = jobs[i].kind
  BY <1>1 DEF Expire, Clean, FreeSlot, Job
<1>5. forgotten' = IF jobs[i].state = "completed"
                   THEN forgotten \cup {at[i].finalized} ELSE forgotten
  <2>1. forgotten' = forgotten \cup
          {at[j].finalized : j \in {i} \cap {m \in JobIds : jobs[m].state = "completed"}}
    BY DEF Expire
  <2> QED
    BY <2>1
<1> QED
  BY <1>3, <1>4, <1>5 DEF RowStep

(* An insert takes a free row, or nothing happens.                         *)
LEMMA EnqueueRow ==
  ASSUME StatusInv, NEW k \in Kinds, NEW p \in Payloads, Enqueue(k, p)
  PROVE  \/ UNCHANGED <<jobs, at, clock>>
         \/ /\ clock' = clock + 1
            /\ \E i \in JobIds :
                 /\ \A j \in JobIds \ {i} : jobs'[j] = jobs[j] /\ at'[j] = at[j]
                 /\ jobs[i].state = "none" /\ jobs'[i].state = "available"
                 /\ at'[i].finalized = 0
<1>1. CASE Duplicate(k)
  BY <1>1 DEF Enqueue, Insert
<1>2. CASE ~Duplicate(k)
  <2>1. PICK i \in FreeIds :
          jobs' = [jobs EXCEPT ![i] = [kind |-> k, state |-> "available",
                                       attempt |-> 0, payload |-> p]]
    BY <1>2 DEF Enqueue, Insert
  <2>2. i \in JobIds /\ jobs[i].state = "none"
    BY <2>1 DEF FreeIds
  <2>3. /\ jobs'[i].state = "available"
        /\ jobs'[i] # jobs[i]
        /\ \A j \in JobIds \ {i} : jobs'[j] = jobs[j]
    BY <2>1, <2>2 DEF StatusInv, TypeOK
  <2>4. Tick /\ at' = [j \in JobIds |->
                         IF jobs'[j] # jobs[j] THEN [NoStamps EXCEPT !.created = clock']
                         ELSE at[j]]
    BY <1>2 DEF Enqueue
  <2>5. at'[i].finalized = 0
    BY <2>2, <2>3, <2>4 DEF NoStamps
  <2>6. \A j \in JobIds \ {i} : at'[j] = at[j]
    BY <2>3, <2>4
  <2> QED
    BY <2>2, <2>3, <2>4, <2>5, <2>6 DEF Tick
<1> QED
  BY <1>1, <1>2

-----------------------------------------------------------------------------
(* What the reports rest on.                                               *)

(* A failed attempt ended after it began, and the last failure of a        *)
(* discarded job is its end.                                               *)
FailureFits(i) ==
  /\ at[i].finalized <= clock
  /\ jobs[i].state = "retryable" => at[i].failed > at[i].attempted
  /\ jobs[i].state = "discarded" => at[i].failed = at[i].finalized

Completed(k) == {i \in JobIds : jobs[i].kind = k /\ jobs[i].state = "completed"}

(* The completed row of a kind is its last success; without one the last   *)
(* success is forgotten, or there was none.                                *)
SuccessFits(k) ==
  /\ success[k].at <= clock
  /\ \A i \in Completed(k) : /\ at[i].finalized = success[k].at
                             /\ jobs[i].payload = success[k].payload
                             /\ success[k].at \notin forgotten
  /\ Completed(k) = {} => \/ success[k].at \in forgotten
                          \/ success[k] = [at |-> 0, payload |-> NoPayload]

(* Stamps are never used twice, so only the row of a success can have been *)
(* forgotten with its stamp.                                               *)
HistoryFits ==
  /\ snap.at <= clock
  /\ \A t \in forgotten : 0 < t /\ t <= clock
  /\ success["sync"].at = success["index"].at => success["sync"].at = 0

\* Sync job i is at work, or ended at t or later.
BusySince(i, t) ==
  /\ jobs[i].kind = "sync"
  /\ \/ jobs[i].state \in LiveStates
     \/ jobs[i].state \in FinalStates /\ at[i].finalized >= t

(* If the snapshot is no longer the one a status call has read, the sync   *)
(* job that saved it is still listed.                                      *)
ReaderFits ==
  reader.pc = "loaded" =>
    /\ reader.since \in Nat /\ reader.since <= clock + 1
    /\ reader.snapshot \in Snaps /\ reader.snapshot.at < reader.since
    /\ reader.snapshot # snap => \E i \in JobIds : BusySince(i, reader.since)

ReportInv ==
  /\ StatusInv
  /\ UniqueHolder
  /\ \A i \in JobIds : FailureFits(i)
  /\ \A k \in Kinds : SuccessFits(k)
  /\ HistoryFits
  /\ ReaderFits

(* Every row keeps its failures in order.                                  *)
LEMMA FailureStep ==
  ASSUME ReportInv, [StatusNext]_statusVars
  PROVE  \A j \in JobIds : FailureFits(j)'
<1>0. /\ StatusInv /\ StatusInv' /\ \A j \in JobIds : FailureFits(j) /\ RowFits(j)
      /\ clock \in Nat
  BY StatusInvStep DEF ReportInv, StatusInv, VarTypes, Times
<1>1. \A j \in JobIds : at[j] \in Stamps /\ at'[j] \in Stamps /\ clock' \in Nat
  BY <1>0 DEF StatusInv, VarTypes, Times
<1>2. ASSUME NEW j \in JobIds, jobs'[j] = jobs[j], at'[j] = at[j], clock' >= clock
      PROVE  FailureFits(j)'
  BY <1>0, <1>1, <1>2 DEF FailureFits, Stamps, Times
<1>3. ASSUME NEW i \in JobIds, RowStep(i), clock' >= clock, FailureFits(i)'
      PROVE  \A j \in JobIds : FailureFits(j)'
  BY <1>2, <1>3 DEF RowStep
<1>4. CASE UNCHANGED <<jobs, at>> /\ clock' >= clock
  BY <1>2, <1>4
<1>5. ASSUME NEW k \in Kinds, NEW p \in Payloads, Enqueue(k, p)
      PROVE  \A j \in JobIds : FailureFits(j)'
  <2>1. CASE UNCHANGED <<jobs, at, clock>>
    BY <1>0, <1>4, <2>1
  <2>2. ASSUME clock' = clock + 1, NEW i \in JobIds,
               \A j \in JobIds \ {i} : jobs'[j] = jobs[j] /\ at'[j] = at[j],
               jobs'[i].state = "available", at'[i].finalized = 0
        PROVE  \A j \in JobIds : FailureFits(j)'
    <3>1. FailureFits(i)'
      BY <1>1, <2>2 DEF FailureFits
    <3> QED
      BY <1>0, <1>2, <2>2, <3>1
  <2> QED
    BY <1>0, <1>5, <2>1, <2>2, EnqueueRow
<1>6. ASSUME NEW i \in JobIds, JobStep(i)
      PROVE  \A j \in JobIds : FailureFits(j)'
  <2>0. RowFits(i) /\ FailureFits(i) /\ at[i] \in Stamps
    BY <1>0, <1>1
  <2>1. CASE Start(i)
    <3>1. FailureFits(i)'
      BY <1>0, <1>1, <2>0, <2>1, StartRow DEF FailureFits, Stamps, Times
    <3> QED
      BY <1>0, <1>3, <2>1, <3>1, StartRow
  <2>2. ASSUME NEW changed \in BOOLEAN, Save(i, changed)
        PROVE  \A j \in JobIds : FailureFits(j)'
    BY <1>0, <1>4, <2>2 DEF Save, Tick
  <2>3. CASE SendDelta(i)
    <3>1. snap.id \in Payloads /\ Enqueue("index", snap.id)
      BY <1>0, <2>3 DEF SendDelta, Snaps, StatusInv, VarTypes
    <3> QED
      BY <1>5, <3>1
  <2>4. CASE Succeed(i)
    <3>1. FailureFits(i)'
      BY <1>0, <1>1, <2>0, <2>4, SucceedRow DEF FailureFits, Stamps, Times
    <3> QED
      BY <1>0, <1>3, <2>4, <3>1, SucceedRow
  <2>5. CASE FailAttempt(i)
    <3>1. FailureFits(i)'
      BY <1>0, <1>1, <2>0, <2>5, FailRow DEF FailureFits, RowFits, Stamps, Times
    <3> QED
      BY <1>0, <1>3, <2>5, <3>1, FailRow
  <2>6. CASE SnoozeSync(i) \/ Backoff(i)
    <3>1. clock' = clock
      BY <2>6 DEF SnoozeSync, Backoff
    <3>2. FailureFits(i)'
      BY <1>0, <1>1, <2>0, <2>6, <3>1, AgainRow DEF FailureFits, Stamps, Times
    <3> QED
      BY <1>0, <1>3, <2>6, <3>1, <3>2, AgainRow
  <2>7. CASE Expire(i)
    <3>1. clock' = clock
      BY <2>7 DEF Expire
    <3>2. FailureFits(i)'
      BY <1>0, <1>1, <2>0, <2>7, <3>1, ExpireRow DEF FailureFits, Stamps, Times
    <3> QED
      BY <1>0, <1>3, <2>7, <3>1, <3>2, ExpireRow
  <2> QED
    BY <1>6, <2>1, <2>2, <2>3, <2>4, <2>5, <2>6, <2>7 DEF JobStep
<1>7. CASE IndexRepo
  BY <1>5, <1>7 DEF IndexRepo
<1>8. CASE ReadSnapshot \/ ListJobs \/ EndCall \/ UNCHANGED statusVars
  BY <1>0, <1>4, <1>8 DEF ReadSnapshot, ListJobs, EndCall, statusVars
<1> QED
  BY <1>6, <1>7, <1>8 DEF StatusNext

(* A step keeps the successes true that touches neither them nor the rows  *)
(* of completed jobs.                                                      *)
LEMMA SuccessKept ==
  ASSUME ReportInv, UNCHANGED <<success, forgotten>>,
         clock' \in Nat, clock' >= clock, snap' = snap \/ snap'.at = clock',
         \A j \in JobIds : \/ jobs'[j] = jobs[j] /\ at'[j] = at[j]
                           \/ jobs[j].state # "completed" /\ jobs'[j].state # "completed"
  PROVE  (\A k \in Kinds : SuccessFits(k)') /\ HistoryFits'
<1>0. clock \in Nat /\ snap.at \in Nat /\ forgotten \subseteq Nat
  BY DEF ReportInv, StatusInv, VarTypes, Snaps, Times
<1>1. ASSUME NEW k \in Kinds PROVE SuccessFits(k)'
  <2>1. SuccessFits(k) /\ success[k].at \in Nat
    BY DEF ReportInv, StatusInv, VarTypes, Times
  <2>2. Completed(k)' = Completed(k)
    BY DEF Completed
  <2>3. \A i \in Completed(k) : jobs'[i] = jobs[i] /\ at'[i] = at[i]
    BY DEF Completed
  <2> QED
    BY <1>0, <2>1, <2>2, <2>3 DEF SuccessFits
<1>2. HistoryFits'
  BY <1>0 DEF ReportInv, HistoryFits
<1> QED
  BY <1>1, <1>2

(* A success replaces the last one of its kind.                            *)
LEMMA SuccessSucceed ==
  ASSUME ReportInv, NEW i \in JobIds, Succeed(i)
  PROVE  (\A k \in Kinds : SuccessFits(k)') /\ HistoryFits'
<1>0. /\ StatusInv /\ clock \in Nat /\ snap.at \in Nat /\ forgotten \subseteq Nat
      /\ jobs[i].kind \in Kinds
  BY DEF ReportInv, StatusInv, VarTypes, Snaps, Times, TypeOK, Job
<1>1. /\ \A j \in JobIds \ {i} : jobs'[j] = jobs[j] /\ at'[j] = at[j]
      /\ jobs'[i].kind = jobs[i].kind /\ clock' = clock + 1
      /\ jobs[i].state = "running" /\ jobs'[i].state = "completed"
      /\ jobs'[i].payload = jobs[i].payload
      /\ at'[i].finalized = clock'
  BY <1>0, SucceedRow DEF RowStep
<1>2. /\ success' = [success EXCEPT ![jobs[i].kind] =
                       [at |-> clock', payload |-> jobs[i].payload]]
      /\ UNCHANGED <<snap, forgotten>>
  BY DEF Succeed
<1>3. success \in [Kinds -> [at : Times, payload : Payloads]]
  BY <1>0 DEF StatusInv, VarTypes
<1>4. ASSUME NEW k \in Kinds PROVE SuccessFits(k)'
  <2>1. SuccessFits(k) /\ success[k].at \in Nat
    BY <1>3 DEF ReportInv, Times
  <2>2. CASE k = jobs[i].kind
    <3>1. success'[k] = [at |-> clock', payload |-> jobs[i].payload]
      BY <1>2, <1>3, <2>2
    <3>2. Completed(k)' = {i}
      <4>1. ASSUME NEW j \in JobIds, j # i, jobs[j].kind = k, jobs[j].state = "completed"
            PROVE  FALSE
        BY <1>1, <2>2, <4>1 DEF ReportInv, UniqueHolder
      <4> QED
        BY <1>1, <2>2, <4>1 DEF Completed
    <3>3. clock' \notin forgotten
      BY <1>0, <1>1 DEF ReportInv, HistoryFits
    <3> QED
      BY <1>0, <1>1, <1>2, <3>1, <3>2, <3>3 DEF SuccessFits
  <2>3. CASE k # jobs[i].kind
    <3>1. success'[k] = success[k]
      BY <1>2, <1>3, <2>3
    <3>2. Completed(k)' = Completed(k) /\ i \notin Completed(k)
      BY <1>1, <2>3 DEF Completed
    <3>3. \A j \in Completed(k) : jobs'[j] = jobs[j] /\ at'[j] = at[j]
      BY <1>1, <3>2 DEF Completed
    <3> QED
      BY <1>0, <1>1, <1>2, <2>1, <3>1, <3>2, <3>3 DEF SuccessFits
  <2> QED
    BY <2>2, <2>3
<1>5. HistoryFits'
  <2>1. success["sync"].at \in Nat /\ success["index"].at \in Nat
    BY <1>3 DEF Times
  <2>2. success["sync"].at <= clock /\ success["index"].at <= clock
    BY DEF ReportInv, SuccessFits
  <2>3. /\ success'["sync"] = IF jobs[i].kind = "sync"
                              THEN [at |-> clock', payload |-> jobs[i].payload]
                              ELSE success["sync"]
        /\ success'["index"] = IF jobs[i].kind = "index"
                               THEN [at |-> clock', payload |-> jobs[i].payload]
                               ELSE success["index"]
    BY <1>2, <1>3
  <2>4. success'["sync"].at # success'["index"].at
    BY <1>0, <1>1, <2>1, <2>2, <2>3
  <2>5. snap.at <= clock /\ \A t \in forgotten : t \in Nat /\ 0 < t /\ t <= clock
    BY <1>0 DEF ReportInv, HistoryFits
  <2>6. snap'.at <= clock' /\ \A t \in forgotten' : 0 < t /\ t <= clock'
    BY <1>0, <1>1, <1>2, <2>5
  <2> QED
    BY <2>4, <2>6 DEF HistoryFits
<1> QED
  BY <1>4, <1>5

(* The cleaner forgets the last success with its row.                      *)
LEMMA SuccessExpire ==
  ASSUME ReportInv, NEW i \in JobIds, Expire(i)
  PROVE  (\A k \in Kinds : SuccessFits(k)') /\ HistoryFits'
<1>0. StatusInv /\ clock \in Nat /\ forgotten \subseteq Nat /\ jobs[i].kind \in Kinds
  BY DEF ReportInv, StatusInv, VarTypes, Times, TypeOK, Job
<1>1. /\ \A j \in JobIds \ {i} : jobs'[j] = jobs[j] /\ at'[j] = at[j]
      /\ jobs[i].state \in FinalStates /\ jobs'[i].state = "none"
      /\ forgotten' = IF jobs[i].state = "completed"
                      THEN forgotten \cup {at[i].finalized} ELSE forgotten
  BY <1>0, ExpireRow DEF RowStep
<1>2. UNCHANGED <<clock, snap, success>>
  BY DEF Expire
<1>3. CASE jobs[i].state # "completed"
  BY <1>0, <1>1, <1>2, <1>3, SuccessKept
<1>4. CASE jobs[i].state = "completed"
  <2>1. i \in Completed(jobs[i].kind)
    BY <1>4 DEF Completed
  <2>2. at[i].finalized = success[jobs[i].kind].at
    BY <1>0, <2>1 DEF ReportInv, SuccessFits
  <2>3. at[i].finalized # 0 /\ at[i].finalized \in Nat /\ at[i].finalized <= clock
    BY <1>1 DEF ReportInv, StatusInv, VarTypes, RowFits, FailureFits, Stamps, Times
  <2>4. ASSUME NEW k \in Kinds PROVE SuccessFits(k)'
    <3>1. SuccessFits(k)
      BY DEF ReportInv
    <3>2. CASE k = jobs[i].kind
      <4>1. Completed(k)' = {}
        <5>1. ASSUME NEW j \in JobIds, j # i, jobs[j].kind = k, jobs[j].state = "completed"
              PROVE  FALSE
          BY <1>4, <3>2, <5>1 DEF ReportInv, UniqueHolder
        <5> QED
          BY <1>1, <3>2, <5>1 DEF Completed
      <4> QED
        BY <1>1, <1>2, <1>4, <2>2, <3>1, <3>2, <4>1 DEF SuccessFits
    <3>3. CASE k # jobs[i].kind
      <4>1. Completed(k)' = Completed(k) /\ i \notin Completed(k)
        BY <1>1, <3>3 DEF Completed
      <4>2. \A j \in Completed(k) : jobs'[j] = jobs[j] /\ at'[j] = at[j]
        BY <1>1, <4>1 DEF Completed
      <4>3. success[k].at # at[i].finalized
        BY <1>0, <2>2, <2>3, <3>3 DEF ReportInv, HistoryFits
      <4> QED
        BY <1>1, <1>2, <1>4, <3>1, <4>1, <4>2, <4>3 DEF SuccessFits
    <3> QED
      BY <3>2, <3>3
  <2>5. HistoryFits'
    BY <1>0, <1>1, <1>2, <1>4, <2>3 DEF ReportInv, HistoryFits
  <2> QED
    BY <2>4, <2>5
<1> QED
  BY <1>3, <1>4

(* Every step keeps the record of the successes true.                      *)
LEMMA SuccessStep ==
  ASSUME ReportInv, [StatusNext]_statusVars
  PROVE  (\A k \in Kinds : SuccessFits(k)') /\ HistoryFits'
<1>0. StatusInv /\ clock \in Nat /\ clock' \in Nat /\ clock >= clock
  BY StatusInvStep DEF ReportInv, StatusInv, VarTypes, Times
<1>1. ASSUME NEW k \in Kinds, NEW p \in Payloads, Enqueue(k, p),
             UNCHANGED <<snap, success, forgotten>>
      PROVE  (\A q \in Kinds : SuccessFits(q)') /\ HistoryFits'
  <2>1. clock' >= clock
    BY <1>0, <1>1, EnqueueRow
  <2>2. \A j \in JobIds : \/ jobs'[j] = jobs[j] /\ at'[j] = at[j]
                          \/ jobs[j].state # "completed" /\ jobs'[j].state # "completed"
    BY <1>0, <1>1, EnqueueRow
  <2> QED
    BY <1>0, <1>1, <2>1, <2>2, SuccessKept
<1>2. ASSUME NEW i \in JobIds, JobStep(i)
      PROVE  (\A k \in Kinds : SuccessFits(k)') /\ HistoryFits'
  <2>1. CASE Start(i)
    <3>1. UNCHANGED <<snap, success, forgotten>>
      BY <2>1 DEF Start
    <3>2. RowStep(i) /\ clock' >= clock /\ jobs[i].state # "completed"
          /\ jobs'[i].state # "completed"
      BY <1>0, <2>1, StartRow
    <3> QED
      BY <1>0, <3>1, <3>2, SuccessKept DEF RowStep
  <2>2. ASSUME NEW changed \in BOOLEAN, Save(i, changed)
        PROVE  (\A k \in Kinds : SuccessFits(k)') /\ HistoryFits'
    <3>1. UNCHANGED <<jobs, at, success, forgotten>> /\ snap'.at = clock' /\ clock' >= clock
      BY <1>0, <2>2 DEF Save, Tick
    <3> QED
      BY <1>0, <3>1, SuccessKept
  <2>3. CASE SendDelta(i)
    <3>1. snap.id \in Payloads /\ Enqueue("index", snap.id)
      BY <1>0, <2>3 DEF SendDelta, Snaps, StatusInv, VarTypes
    <3> QED
      BY <1>1, <2>3, <3>1 DEF SendDelta
  <2>4. CASE FailAttempt(i)
    <3>1. UNCHANGED <<snap, success, forgotten>>
      BY <2>4 DEF FailAttempt
    <3>2. RowStep(i) /\ clock' >= clock /\ jobs[i].state # "completed"
          /\ jobs'[i].state # "completed"
      BY <1>0, <2>4, FailRow
    <3> QED
      BY <1>0, <3>1, <3>2, SuccessKept DEF RowStep
  <2>5. CASE SnoozeSync(i) \/ Backoff(i)
    BY <1>0, <2>5, AgainRow, SuccessKept DEF RowStep, SnoozeSync, Backoff
  <2> QED
    BY <1>2, <2>1, <2>2, <2>3, <2>4, <2>5, SuccessSucceed, SuccessExpire DEF JobStep
<1>3. CASE IndexRepo
  BY <1>1, <1>3 DEF IndexRepo
<1>4. CASE ReadSnapshot \/ ListJobs \/ EndCall \/ UNCHANGED statusVars
  BY <1>0, <1>4, SuccessKept DEF ReadSnapshot, ListJobs, EndCall, statusVars
<1> QED
  BY <1>2, <1>3, <1>4 DEF StatusNext

(* The sync job that saved a snapshot behind a status call stays listed:   *)
(* its row is not removed before the call ends.                            *)
LEMMA ReaderStep ==
  ASSUME ReportInv, [StatusNext]_statusVars
  PROVE  ReaderFits'
<1>0. /\ StatusInv /\ ReaderFits /\ clock \in Nat /\ clock' \in Nat /\ clock >= clock
      /\ snap \in Snaps /\ snap.at <= clock /\ snap.at \in Nat
  BY StatusInvStep DEF ReportInv, StatusInv, VarTypes, HistoryFits, Snaps, Times
<1>1. ASSUME reader' = reader, snap' = snap, clock' >= clock,
             reader.pc = "loaded" =>
               \A j \in JobIds : BusySince(j, reader.since) => BusySince(j, reader.since)'
      PROVE  ReaderFits'
  BY <1>0, <1>1 DEF ReaderFits
<1>2. ASSUME NEW j \in JobIds, jobs'[j] = jobs[j], at'[j] = at[j], reader' = reader
      PROVE  BusySince(j, reader.since) => BusySince(j, reader.since)'
  BY <1>2 DEF BusySince
<1>3. ASSUME NEW k \in Kinds, NEW p \in Payloads, Enqueue(k, p), UNCHANGED <<snap, reader>>
      PROVE  ReaderFits'
  <2>1. clock' >= clock
    BY <1>0, <1>3, EnqueueRow
  <2>2. ASSUME NEW j \in JobIds
        PROVE  (jobs'[j] = jobs[j] /\ at'[j] = at[j]) \/ jobs[j].state = "none"
    BY <1>0, <1>3, EnqueueRow
  <2>3. ASSUME NEW j \in JobIds
        PROVE  BusySince(j, reader.since) => BusySince(j, reader.since)'
    BY <1>2, <1>3, <2>2 DEF BusySince
  <2> QED
    BY <1>1, <1>3, <2>1, <2>3
<1>4. ASSUME NEW i \in JobIds, RowStep(i), UNCHANGED <<snap, reader>>, clock' >= clock,
             reader.pc = "loaded" /\ BusySince(i, reader.since) =>
               \/ jobs'[i].state \in LiveStates
               \/ jobs'[i].state \in FinalStates /\ at'[i].finalized >= reader.since
      PROVE  ReaderFits'
  <2>1. ASSUME NEW j \in JobIds, reader.pc = "loaded"
        PROVE  BusySince(j, reader.since) => BusySince(j, reader.since)'
    BY <1>2, <1>4, <2>1 DEF RowStep, BusySince
  <2> QED
    BY <1>1, <1>4, <2>1
<1>5. ASSUME NEW i \in JobIds, JobStep(i) PROVE ReaderFits'
  <2>1. CASE Start(i)
    <3>1. UNCHANGED <<snap, reader>>
      BY <2>1 DEF Start
    <3> QED
      BY <1>0, <1>4, <2>1, <3>1, StartRow
  <2>2. ASSUME NEW changed \in BOOLEAN, Save(i, changed) PROVE ReaderFits'
    <3>1. /\ jobs' = jobs /\ reader' = reader /\ clock' = clock + 1
          /\ jobs[i].kind = "sync" /\ jobs[i].state = "running"
      BY <2>2 DEF Save, Tick
    <3>2. \A t : BusySince(i, t)'
      BY <3>1 DEF BusySince
    <3> QED
      BY <1>0, <3>1, <3>2 DEF ReaderFits
  <2>3. CASE SendDelta(i)
    <3>1. snap.id \in Payloads /\ Enqueue("index", snap.id)
      BY <1>0, <2>3 DEF SendDelta, Snaps
    <3> QED
      BY <1>3, <2>3, <3>1 DEF SendDelta
  <2>4. CASE Succeed(i)
    <3>1. UNCHANGED <<snap, reader>>
      BY <2>4 DEF Succeed
    <3>2. RowStep(i) /\ clock' = clock + 1 /\ jobs'[i].state = "completed"
          /\ at'[i].finalized = clock'
      BY <1>0, <2>4, SucceedRow
    <3>3. reader.pc = "loaded" => clock' >= reader.since
      BY <1>0, <3>2 DEF ReaderFits
    <3> QED
      BY <1>0, <1>4, <3>1, <3>2, <3>3
  <2>5. CASE FailAttempt(i)
    <3>1. UNCHANGED <<snap, reader>>
      BY <2>5 DEF FailAttempt
    <3>2. /\ RowStep(i) /\ clock' = clock + 1
          /\ \/ jobs'[i].state = "discarded" /\ at'[i].finalized = clock'
             \/ jobs'[i].state = "retryable"
      BY <1>0, <2>5, FailRow
    <3>3. reader.pc = "loaded" => clock' >= reader.since
      BY <1>0, <3>2 DEF ReaderFits
    <3> QED
      BY <1>0, <1>4, <3>1, <3>2, <3>3
  <2>6. CASE SnoozeSync(i) \/ Backoff(i)
    <3>1. UNCHANGED <<snap, reader, clock>>
      BY <2>6 DEF SnoozeSync, Backoff
    <3> QED
      BY <1>0, <1>4, <2>6, <3>1, AgainRow
  <2>7. CASE Expire(i)
    <3>1. /\ UNCHANGED <<snap, reader, clock>>
          /\ reader.pc = "loaded" => at[i].finalized < reader.since
      BY <2>7 DEF Expire
    <3>2. RowStep(i) /\ jobs[i].state \in FinalStates
      BY <1>0, <2>7, ExpireRow
    <3>3. at[i].finalized \in Nat
      BY <1>0 DEF StatusInv, VarTypes, Stamps, Times
    <3>4. reader.pc = "loaded" => reader.since \in Nat /\ ~BusySince(i, reader.since)
      BY <1>0, <3>1, <3>2, <3>3 DEF ReaderFits, BusySince
    <3> QED
      BY <1>0, <1>4, <3>1, <3>2, <3>4
  <2> QED
    BY <1>5, <2>1, <2>2, <2>3, <2>4, <2>5, <2>6, <2>7 DEF JobStep
<1>6. CASE IndexRepo
  BY <1>3, <1>6 DEF IndexRepo
<1>7. CASE ReadSnapshot
  <2>1. UNCHANGED <<jobs, at, snap, clock>>
    BY <1>7 DEF ReadSnapshot
  <2>2. reader'.since = clock + 1 /\ reader'.snapshot = snap
    BY <1>7 DEF ReadSnapshot, NoReader
  <2> QED
    BY <1>0, <2>1, <2>2 DEF ReaderFits
<1>8. CASE ListJobs \/ EndCall
  <2>1. reader'.pc \in {"idle", "done"}
    <3>1. CASE ListJobs
      BY <3>1 DEF ListJobs, NoReader
    <3>2. CASE EndCall
      BY <3>2 DEF EndCall, NoReader
    <3> QED
      BY <1>8, <3>1, <3>2
  <2> QED
    BY <2>1 DEF ReaderFits
<1>9. CASE UNCHANGED statusVars
  BY <1>0, <1>1, <1>2, <1>9 DEF statusVars
<1> QED
  BY <1>5, <1>6, <1>7, <1>8, <1>9 DEF StatusNext

(* ReportInv is inductive.                                                 *)
THEOREM ReportInvariance == StatusSpec => []ReportInv
<1>1. StatusInit => ReportInv
  <2> SUFFICES ASSUME StatusInit PROVE ReportInv
    OBVIOUS
  <2>1. StatusInv
    BY StatusInvInit
  <2>2. PICK k \in Kinds : jobs = [i \in JobIds |-> FreeSlot(k)]
    BY DEF StatusInit, Init
  <2>3. \A i \in JobIds : jobs[i].state = "none"
    BY <2>2 DEF FreeSlot
  <2>4. UniqueHolder
    BY <2>3 DEF UniqueHolder
  <2>5. \A i \in JobIds : FailureFits(i)
    BY <2>3 DEF StatusInit, FailureFits, NoStamps
  <2>6. \A q \in Kinds : SuccessFits(q)
    BY <2>3 DEF StatusInit, SuccessFits, Completed
  <2>7. HistoryFits
    BY DEF StatusInit, HistoryFits, NoSnap
  <2>8. ReaderFits
    BY DEF StatusInit, ReaderFits, NoReader
  <2> QED
    BY <2>1, <2>4, <2>5, <2>6, <2>7, <2>8 DEF ReportInv
<1>2. ReportInv /\ [StatusNext]_statusVars => ReportInv'
  <2> SUFFICES ASSUME ReportInv, [StatusNext]_statusVars PROVE ReportInv'
    OBVIOUS
  <2>1. StatusInv' /\ UniqueHolder'
    BY StatusInvTypes, StatusInvStep, StatusStepIsQueueStep, UniqueStep
       DEF ReportInv, StatusInv
  <2> QED
    BY <2>1, FailureStep, SuccessStep, ReaderStep DEF ReportInv
<1> QED
  BY <1>1, <1>2, PTL DEF StatusSpec

-----------------------------------------------------------------------------
(* The fold over the rows.                                                 *)

(* mapStatusState, read backwards.                                         *)
LEMMA RowsFacts ==
  ASSUME TypeOK, NEW k, NEW i \in JobIds
  PROVE  /\ i \in Rows(k, {"succeeded"}) <=>
              jobs[i].kind = k /\ jobs[i].state = "completed"
         /\ i \in Rows(k, {"running"}) <=>
              jobs[i].kind = k /\ jobs[i].state = "running"
         /\ i \in Rows(k, {"pending", "retryable"}) <=>
              jobs[i].kind = k /\ jobs[i].state \in {"available", "retryable"}
         /\ i \in Rows(k, {"retryable", "failed"}) <=>
              jobs[i].kind = k /\ jobs[i].state \in {"retryable", "discarded"}
<1>1. jobs[i].state \in JobStates
  BY DEF TypeOK, Job
<1>2. \A s \in JobStates :
        /\ MapStatusState(s) = "succeeded" <=> s = "completed"
        /\ MapStatusState(s) = "running" <=> s = "running"
        /\ MapStatusState(s) = "retryable" <=> s = "retryable"
        /\ MapStatusState(s) = "failed" <=> s = "discarded"
        /\ MapStatusState(s) = "pending" <=> s \in {"none", "available"}
  BY DEF MapStatusState
<1> QED
  BY <1>1, <1>2 DEF Rows

(* A non-empty set of times has a latest one.                              *)
LEMMA TimesHaveMax ==
  ASSUME NEW T, T \subseteq Times, T # {}
  PROVE  \E m \in T : \A x \in T : m >= x
<1> DEFINE U == {MaxClock - x : x \in T}
<1>1. U \subseteq Nat /\ U # {}
  <2>1. \A x \in T : x \in Nat /\ x <= MaxClock
    BY DEF Times
  <2>2. \A x \in T : MaxClock - x \in Nat
    BY <2>1
  <2> QED
    BY <2>2
<1>2. PICK u \in U : \A y \in U : ~(<<y, u>> \in OpToRel(<, Nat))
  BY <1>1, NatLessThanWellFounded, WFMin
<1>3. \A y \in U : ~(y < u)
  BY <1>1, <1>2 DEF OpToRel
<1>4. PICK m \in T : u = MaxClock - m
  BY <1>2
<1>5. ASSUME NEW x \in T PROVE m >= x
  <2>1. MaxClock - x \in U
    OBVIOUS
  <2>2. ~(MaxClock - x < MaxClock - m)
    BY <1>3, <1>4, <2>1
  <2> QED
    BY <2>2 DEF Times
<1> QED
  BY <1>5

(* The maximum of one and of two times.                                    *)
LEMMA MaxFacts ==
  ASSUME NEW a \in Nat, NEW b \in Nat
  PROVE  /\ Max({a}) = a
         /\ Max({a, b}) = IF a >= b THEN a ELSE b
<1>1. Max({a}) = a
  BY DEF Max
<1>2. Max({a, b}) = IF a >= b THEN a ELSE b
  BY DEF Max
<1> QED
  BY <1>1, <1>2

(* The jobs of one kind that the unique insert counts are at most one, so  *)
(* a status lists none or one of them.                                     *)
LEMMA AtMostOne ==
  ASSUME UniqueHolder, NEW k, NEW S \in SUBSET JobIds,
         \A i \in S : jobs[i].kind = k /\ jobs[i].state \in UniqueStates
  PROVE  /\ S = {} \/ \E i \in S : S = {i}
         /\ Cardinality(S) = IF S = {} THEN 0 ELSE 1
<1>1. S = {} \/ \E i \in S : S = {i}
  BY DEF UniqueHolder
<1>2. Cardinality(S) = IF S = {} THEN 0 ELSE 1
  BY <1>1, FS_EmptySet, FS_Singleton
<1> QED
  BY <1>1, <1>2

(* What a status counts.                                                   *)
LEMMA CountFacts ==
  ASSUME ReportInv, NEW k \in Kinds
  PROVE  /\ Cardinality(Rows(k, {"pending", "retryable"})) =
              IF Rows(k, {"pending", "retryable"}) = {} THEN 0 ELSE 1
         /\ Cardinality(Rows(k, {"running"})) = IF Rows(k, {"running"}) = {} THEN 0 ELSE 1
<1>1. TypeOK /\ UniqueHolder
  BY DEF ReportInv, StatusInv
<1>2. \A S : Rows(k, S) \in SUBSET JobIds
  BY DEF Rows
<1>3. \A i \in Rows(k, {"pending", "retryable"}) :
        jobs[i].kind = k /\ jobs[i].state \in UniqueStates
  BY <1>1, <1>2, RowsFacts
<1>4. \A i \in Rows(k, {"running"}) : jobs[i].kind = k /\ jobs[i].state \in UniqueStates
  BY <1>1, <1>2, RowsFacts
<1> QED
  BY <1>1, <1>2, <1>3, <1>4, AtMostOne

(* The last successful sync and index times and the last delta, from the   *)
(* completed row of a kind if there is one.                                *)
LEMMA SuccessFacts ==
  ASSUME ReportInv, NEW s \in Snaps
  PROVE  /\ \A i \in Completed("sync") :
              LastSuccessfulSyncAt(s) = IF s.at >= at[i].finalized THEN s.at ELSE at[i].finalized
         /\ Completed("sync") = {} => LastSuccessfulSyncAt(s) = s.at
         /\ \A i \in Completed("index") :
              /\ LastSuccessfulIndexAt = at[i].finalized
              /\ Max({0} \cup {jobs[j].payload : j \in LastIndexJob}) = jobs[i].payload
         /\ Completed("index") = {} => LastSuccessfulIndexAt = 0 /\ LastIndexJob = {}
<1>1. TypeOK /\ UniqueHolder
  BY DEF ReportInv, StatusInv
<1>2. ASSUME NEW k PROVE Rows(k, {"succeeded"}) = Completed(k)
  <2>1. Rows(k, {"succeeded"}) \subseteq JobIds
    BY DEF Rows
  <2> QED
    BY <1>1, <2>1, RowsFacts DEF Completed
<1>3. ASSUME NEW k, NEW i \in Completed(k)
      PROVE  /\ Completed(k) = {i}
             /\ EffectiveJobTime(i) = at[i].finalized
             /\ at[i].finalized \in Nat /\ jobs[i].payload \in Nat
             /\ Newest({i}) = {i}
  <2>1. i \in JobIds /\ jobs[i].kind = k /\ jobs[i].state = "completed"
    BY <1>3 DEF Completed
  <2>2. Completed(k) = {i}
    BY <1>1, <2>1 DEF UniqueHolder, Completed
  <2>3. at[i].finalized # 0 /\ at[i].finalized \in Nat
    BY <2>1 DEF ReportInv, StatusInv, RowFits, VarTypes, Stamps, Times
  <2>4. EffectiveJobTime(i) = at[i].finalized
    BY <2>3 DEF EffectiveJobTime
  <2>5. jobs[i].payload \in Nat
    BY <1>1, <2>1 DEF TypeOK, Job
  <2>6. Newest({i}) = {i}
    BY <2>3, <2>4 DEF Newest
  <2> QED
    BY <2>2, <2>3, <2>4, <2>5, <2>6
<1>4. s.at \in Nat
  BY DEF Snaps, Times
<1>5. ASSUME NEW i \in Completed("sync")
      PROVE  LastSuccessfulSyncAt(s) = IF s.at >= at[i].finalized THEN s.at ELSE at[i].finalized
  <2>1. {s.at} \cup {EffectiveJobTime(j) : j \in Rows("sync", {"succeeded"})}
          = {s.at, at[i].finalized}
    <3>1. Rows("sync", {"succeeded"}) = {i} /\ EffectiveJobTime(i) = at[i].finalized
      BY <1>2, <1>3, <1>5
    <3> QED
      BY <3>1
  <2>2. at[i].finalized \in Nat
    BY <1>3, <1>5
  <2> QED
    BY <1>4, <2>1, <2>2, MaxFacts DEF LastSuccessfulSyncAt
<1>6. ASSUME Completed("sync") = {} PROVE LastSuccessfulSyncAt(s) = s.at
  <2>1. {s.at} \cup {EffectiveJobTime(j) : j \in Rows("sync", {"succeeded"})} = {s.at}
    BY <1>2, <1>6
  <2> QED
    BY <1>4, <2>1, MaxFacts DEF LastSuccessfulSyncAt
<1>7. ASSUME NEW i \in Completed("index")
      PROVE  /\ LastSuccessfulIndexAt = at[i].finalized
             /\ Max({0} \cup {jobs[j].payload : j \in LastIndexJob}) = jobs[i].payload
  <2>1. LastIndexJob = {i}
    BY <1>2, <1>3, <1>7 DEF LastIndexJob
  <2>2. /\ EffectiveJobTime(i) = at[i].finalized
        /\ at[i].finalized \in Nat /\ jobs[i].payload \in Nat
    BY <1>3, <1>7
  <2>3. /\ {0} \cup {EffectiveJobTime(j) : j \in LastIndexJob} = {0, at[i].finalized}
        /\ {0} \cup {jobs[j].payload : j \in LastIndexJob} = {0, jobs[i].payload}
    BY <2>1, <2>2
  <2>4. /\ Max({0, at[i].finalized}) = IF 0 >= at[i].finalized THEN 0 ELSE at[i].finalized
        /\ Max({0, jobs[i].payload}) = IF 0 >= jobs[i].payload THEN 0 ELSE jobs[i].payload
    BY <2>2, MaxFacts
  <2>5. /\ Max({0, at[i].finalized}) = at[i].finalized
        /\ Max({0, jobs[i].payload}) = jobs[i].payload
    BY <2>2, <2>4
  <2>6. LastSuccessfulIndexAt = Max({0, at[i].finalized})
    BY <2>3 DEF LastSuccessfulIndexAt
  <2> QED
    BY <2>3, <2>5, <2>6
<1>8. ASSUME Completed("index") = {}
      PROVE  LastSuccessfulIndexAt = 0 /\ LastIndexJob = {}
  <2>1. LastIndexJob = {}
    BY <1>2, <1>8 DEF LastIndexJob, Newest
  <2>2. {0} \cup {EffectiveJobTime(j) : j \in LastIndexJob} = {0}
    BY <2>1
  <2> QED
    BY <2>1, <2>2, MaxFacts DEF LastSuccessfulIndexAt
<1> QED
  BY <1>5, <1>6, <1>7, <1>8

-----------------------------------------------------------------------------
(* What a status shows.                                                    *)

(* A report is the status of the snapshot the call read before, on the     *)
(* rows as they are when it lists them.                                    *)
LEMMA ReportFacts ==
  ASSUME ReportInv, [StatusNext]_statusVars, Reports
  PROVE  Report = Status(reader.snapshot) /\ reader.snapshot \in Snaps
<1>1. ListJobs
  <2>1. reader'.pc # reader.pc /\ reader'.pc = "done"
    BY DEF Reports
  <2>2. ~(UNCHANGED reader) /\ ~ReadSnapshot /\ ~EndCall
    <3>1. ~(UNCHANGED reader)
      BY <2>1
    <3>2. ReadSnapshot => reader'.pc = "loaded"
      BY DEF ReadSnapshot, NoReader
    <3>3. EndCall => reader'.pc = "idle"
      BY DEF EndCall, NoReader
    <3> QED
      BY <2>1, <3>1, <3>2, <3>3
  <2>3. ~IndexRepo /\ ~(\E i \in JobIds : JobStep(i))
    BY <2>2 DEF IndexRepo, JobStep, Start, Save, SendDelta, Succeed, FailAttempt,
                SnoozeSync, Backoff, Expire
  <2> QED
    BY <2>2, <2>3 DEF StatusNext, statusVars
<1>2. Report = Status(reader.snapshot)
  BY <1>1 DEF ListJobs, NoReader, Report
<1> QED
  BY <1>2 DEF ReportInv, ReaderFits, Reports

(* The success times and the size of the last delta.                       *)
LEMMA SuccessTimes ==
  ASSUME ReportInv, [StatusNext]_statusVars, Reports
  PROVE  /\ IF success["index"].at \in forgotten
            THEN Report.indexAt = 0
            ELSE /\ Report.indexAt = success["index"].at
                 /\ Report.delta = success["index"].payload
         /\ Report.syncAt = Max({Report.snapshot.at} \cup
                                ({success["sync"].at} \ forgotten))
<1> DEFINE s == reader.snapshot
<1>1. /\ Report.snapshot = s
      /\ Report.syncAt = LastSuccessfulSyncAt(s)
      /\ Report.indexAt = LastSuccessfulIndexAt
      /\ Report.delta = Max({0} \cup {jobs[i].payload : i \in LastIndexJob})
  BY ReportFacts DEF Status
<1>2. s \in Snaps /\ s.at \in Nat
  BY ReportFacts DEF Snaps, Times
<1>3. SuccessFits("sync") /\ SuccessFits("index") /\ 0 \notin forgotten
  BY DEF ReportInv, HistoryFits
<1>4. success["sync"].at \in Nat /\ success["index"].at \in Nat
  BY DEF ReportInv, StatusInv, VarTypes, Times
<1>5. IF success["index"].at \in forgotten
      THEN Report.indexAt = 0
      ELSE /\ Report.indexAt = success["index"].at
           /\ Report.delta = success["index"].payload
  <2>1. CASE Completed("index") # {}
    <3>1. PICK i \in Completed("index") : TRUE
      BY <2>1
    <3>2. /\ at[i].finalized = success["index"].at
          /\ jobs[i].payload = success["index"].payload
          /\ success["index"].at \notin forgotten
      BY <1>3, <3>1 DEF SuccessFits
    <3> QED
      BY <1>1, <1>2, <3>1, <3>2, SuccessFacts
  <2>2. CASE Completed("index") = {}
    <3>1. Report.indexAt = 0
      BY <1>1, <1>2, <2>2, SuccessFacts
    <3>2. CASE success["index"].at \in forgotten
      BY <3>1, <3>2
    <3>3. CASE success["index"].at \notin forgotten
      <4>1. success["index"].at = 0 /\ success["index"].payload = 0
        BY <1>3, <2>2, <3>3 DEF SuccessFits
      <4>2. {0} \cup {jobs[i].payload : i \in LastIndexJob} = {0}
        BY <1>2, <2>2, SuccessFacts
      <4>3. Report.delta = 0
        BY <1>1, <4>2, MaxFacts
      <4> QED
        BY <3>1, <3>3, <4>1, <4>3
    <3> QED
      BY <3>2, <3>3
  <2> QED
    BY <2>1, <2>2
<1>6. Report.syncAt = Max({s.at} \cup ({success["sync"].at} \ forgotten))
  <2>1. CASE Completed("sync") # {}
    <3>1. PICK i \in Completed("sync") : TRUE
      BY <2>1
    <3>2. at[i].finalized = success["sync"].at /\ success["sync"].at \notin forgotten
      BY <1>3, <3>1 DEF SuccessFits
    <3>3. {s.at} \cup ({success["sync"].at} \ forgotten) = {s.at, success["sync"].at}
      BY <3>2
    <3>4. Max({s.at, success["sync"].at}) =
            IF s.at >= success["sync"].at THEN s.at ELSE success["sync"].at
      BY <1>2, <1>4, MaxFacts
    <3>5. LastSuccessfulSyncAt(s) =
            IF s.at >= at[i].finalized THEN s.at ELSE at[i].finalized
      BY <1>2, <3>1, SuccessFacts
    <3> QED
      BY <1>1, <3>2, <3>3, <3>4, <3>5
  <2>2. CASE Completed("sync") = {}
    <3>1. Report.syncAt = s.at
      BY <1>1, <1>2, <2>2, SuccessFacts
    <3>2. CASE success["sync"].at \in forgotten
      <4>1. {s.at} \cup ({success["sync"].at} \ forgotten) = {s.at}
        BY <3>2
      <4>2. Max({s.at}) = s.at
        BY <1>2, MaxFacts
      <4> QED
        BY <3>1, <4>1, <4>2
    <3>3. CASE success["sync"].at \notin forgotten
      <4>1. success["sync"].at = 0
        BY <1>3, <2>2, <3>3 DEF SuccessFits
      <4>2. {s.at} \cup ({success["sync"].at} \ forgotten) = {s.at, 0}
        BY <3>3, <4>1
      <4>3. Max({s.at, 0}) = s.at
        <5>1. Max({s.at, 0}) = IF s.at >= 0 THEN s.at ELSE 0
          BY <1>2, MaxFacts
        <5> QED
          BY <1>2, <5>1
      <4> QED
        BY <3>1, <4>2, <4>3
    <3> QED
      BY <3>2, <3>3
  <2> QED
    BY <2>1, <2>2
<1> QED
  BY <1>1, <1>5, <1>6

(* The success times shown are those of the last successes, as long as     *)
(* their rows exist.                                                       *)
THEOREM SuccessTimesAreTrueTheorem == StatusSpec => SuccessTimesAreTrue
<1>1. ReportInv /\ [StatusNext]_statusVars =>
        [Reports =>
           /\ IF success["index"].at \in forgotten
              THEN Report.indexAt = 0
              ELSE /\ Report.indexAt = success["index"].at
                   /\ Report.delta = success["index"].payload
           /\ Report.syncAt = Max({Report.snapshot.at} \cup
                                  ({success["sync"].at} \ forgotten))]_statusVars
  BY SuccessTimes
<1> QED
  BY <1>1, ReportInvariance, PTL DEF StatusSpec, SuccessTimesAreTrue

(* A row that is listed as failing: its state, and the time it is shown    *)
(* with, which is that of its failure once it is discarded and that of its *)
(* last start while it is in backoff.                                      *)
LEMMA FailingFacts ==
  ASSUME ReportInv, NEW i \in JobIds
  PROVE  /\ i \in Failing <=> jobs[i].state \in {"retryable", "discarded"}
         /\ at[i].failed \in Nat /\ EffectiveJobTime(i) \in Times
         /\ jobs[i].state = "retryable" =>
              EffectiveJobTime(i) = at[i].attempted /\ at[i].attempted < at[i].failed
         /\ jobs[i].state = "discarded" => EffectiveJobTime(i) = at[i].failed
<1>1. TypeOK /\ RowFits(i) /\ FailureFits(i) /\ at[i] \in Stamps
  BY DEF ReportInv, StatusInv, VarTypes
<1>2. /\ at[i].created \in Times /\ at[i].attempted \in Times
      /\ at[i].finalized \in Times /\ at[i].failed \in Times
  BY <1>1 DEF Stamps
<1>3. jobs[i].kind \in Kinds
  BY <1>1 DEF TypeOK, Job
<1>4. EffectiveJobTime(i) \in Times /\ at[i].failed \in Nat
  BY <1>2 DEF EffectiveJobTime, Times
<1>5. jobs[i].state = "retryable" =>
        EffectiveJobTime(i) = at[i].attempted /\ at[i].attempted < at[i].failed
  BY <1>1, <1>2 DEF RowFits, FailureFits, EffectiveJobTime, Times
<1>6. jobs[i].state = "discarded" =>
        EffectiveJobTime(i) = at[i].failed /\ at[i].failed # 0
  BY <1>1, <1>2 DEF RowFits, FailureFits, EffectiveJobTime, Times
<1>7. i \in Failing => jobs[i].state \in {"retryable", "discarded"}
  BY <1>1, RowsFacts DEF Failing
<1>8. jobs[i].state \in {"retryable", "discarded"} => i \in Failing
  <2>1. jobs[i].state \in {"retryable", "discarded"} =>
          i \in Rows(jobs[i].kind, {"retryable", "failed"}) /\ at[i].failed # 0
    BY <1>1, <1>2, <1>5, <1>6, RowsFacts DEF Times
  <2> QED
    BY <1>3, <2>1 DEF Failing
<1> QED
  BY <1>4, <1>5, <1>6, <1>7, <1>8

(* Some job of a non-empty set of failing jobs is the newest.              *)
LEMMA NewestFailing ==
  ASSUME ReportInv PROVE (Newest(Failing) = {}) <=> (Failing = {})
<1>1. Newest(Failing) \subseteq Failing /\ Failing \subseteq JobIds
  BY DEF Newest, Failing, Rows
<1>2. ASSUME Failing # {} PROVE Newest(Failing) # {}
  <2> DEFINE T == {EffectiveJobTime(i) : i \in Failing}
  <2>1. T \subseteq Times /\ T # {}
    BY <1>1, <1>2, FailingFacts
  <2>2. PICK m \in T : \A x \in T : m >= x
    BY <2>1, TimesHaveMax
  <2>3. PICK i \in Failing : m = EffectiveJobTime(i)
    BY <2>2
  <2>4. \A j \in Failing : EffectiveJobTime(i) >= EffectiveJobTime(j)
    BY <2>2, <2>3
  <2> QED
    BY <2>3, <2>4 DEF Newest
<1> QED
  BY <1>1, <1>2

(* The error of a report.                                                  *)
LEMMA HiddenFailure ==
  ASSUME ReportInv, [StatusNext]_statusVars, Reports
  PROVE  /\ (Report.error = {}) <=> (Failing = {})
         /\ \A e \in Report.error :
              /\ e.time <= at[e.job].failed
              /\ \A i \in Failing :
                   at[i].failed > at[e.job].failed =>
                     jobs[i].state = "retryable" /\ at[i].attempted <= e.time
<1>1. Report.error = {[job |-> i, time |-> EffectiveJobTime(i)] : i \in Newest(Failing)}
  BY ReportFacts DEF Status
<1>2. (Report.error = {}) <=> (Failing = {})
  <2>1. ASSUME NEW n \in Newest(Failing) PROVE Report.error # {}
    <3>1. [job |-> n, time |-> EffectiveJobTime(n)] \in Report.error
      BY <1>1, <2>1
    <3> QED
      BY <3>1
  <2>2. Newest(Failing) = {} => Report.error = {}
    BY <1>1
  <2> QED
    BY <2>1, <2>2, NewestFailing
<1>3. ASSUME NEW e \in Report.error
      PROVE  /\ e.time <= at[e.job].failed
             /\ \A i \in Failing :
                  at[i].failed > at[e.job].failed =>
                    jobs[i].state = "retryable" /\ at[i].attempted <= e.time
  <2>1. PICK n \in Newest(Failing) : e = [job |-> n, time |-> EffectiveJobTime(n)]
    BY <1>1, <1>3
  <2>2. /\ n \in Failing /\ n \in JobIds /\ Failing \subseteq JobIds
        /\ \A i \in Failing : EffectiveJobTime(n) >= EffectiveJobTime(i)
    BY <2>1 DEF Newest, Failing, Rows
  <2>3. e.job = n /\ e.time = EffectiveJobTime(n)
    BY <2>1
  <2>4. EffectiveJobTime(n) <= at[n].failed
    BY <2>2, FailingFacts DEF Times
  <2>5. ASSUME NEW i \in Failing, at[i].failed > at[n].failed
        PROVE  jobs[i].state = "retryable" /\ at[i].attempted <= EffectiveJobTime(n)
    <3>1. i \in JobIds /\ EffectiveJobTime(n) >= EffectiveJobTime(i)
      BY <2>2, <2>5
    <3>2. jobs[i].state \in {"retryable", "discarded"}
      BY <2>5, <3>1, FailingFacts
    <3>3. jobs[i].state # "discarded"
      BY <2>2, <2>4, <2>5, <3>1, FailingFacts DEF Times
    <3> QED
      BY <3>1, <3>2, <3>3, FailingFacts DEF Times
  <2> QED
    BY <2>3, <2>4, <2>5
<1> QED
  BY <1>2, <1>3

(* There is an error in the report whenever a job is in backoff or         *)
(* discarded, and only a job in backoff can have a later failure than the  *)
(* one shown.                                                              *)
THEOREM HiddenFailureIsBackoffTheorem == StatusSpec => HiddenFailureIsBackoff
<1>1. ReportInv /\ [StatusNext]_statusVars =>
        [Reports =>
           /\ (Report.error = {}) <=> (Failing = {})
           /\ \A e \in Report.error :
                /\ e.time <= at[e.job].failed
                /\ \A i \in Failing :
                     at[i].failed > at[e.job].failed =>
                       jobs[i].state = "retryable" /\ at[i].attempted <= e.time]_statusVars
  BY HiddenFailure
<1> QED
  BY <1>1, ReportInvariance, PTL DEF StatusSpec, HiddenFailureIsBackoff

(* A report without work and without an error.                             *)
LEMMA QuietReport ==
  ASSUME ReportInv, [StatusNext]_statusVars, Reports, Idle(Report), Report.error = {}
  PROVE  /\ \A i \in JobIds : jobs[i].state \in {"none", "completed"}
         /\ Report.snapshot # snap => Report.syncAt > Report.snapshot.at
<1> DEFINE s == reader.snapshot
<1>1. /\ Report = Status(s)
      /\ s \in Snaps /\ s.at \in Nat
  BY ReportFacts DEF Snaps, Times
<1>2. TypeOK
  BY DEF ReportInv, StatusInv
<1>3. \A k \in Kinds : Rows(k, {"pending", "retryable"}) = {} /\ Rows(k, {"running"}) = {}
  <2>1. \A k \in Kinds : /\ Cardinality(Rows(k, {"pending", "retryable"})) = 0
                         /\ Cardinality(Rows(k, {"running"})) = 0
    BY <1>1 DEF Idle, Status
  <2> QED
    BY <2>1, CountFacts
<1>4. ASSUME NEW i \in JobIds PROVE jobs[i].state \in {"none", "completed"}
  <2>1. jobs[i].kind \in Kinds /\ jobs[i].state \in JobStates
    BY <1>2 DEF TypeOK, Job
  <2>2. jobs[i].state \notin {"available", "retryable"} /\ jobs[i].state # "running"
    BY <1>2, <1>3, <2>1, RowsFacts
  <2>3. Failing = {}
    BY HiddenFailure
  <2>4. jobs[i].state # "discarded"
    BY <2>3, FailingFacts
  <2> QED
    BY <2>1, <2>2, <2>4
<1>5. ASSUME s # snap PROVE LastSuccessfulSyncAt(s) > s.at
  <2>1. /\ reader.since \in Nat /\ s.at < reader.since
        /\ \E i \in JobIds : BusySince(i, reader.since)
    BY <1>5 DEF ReportInv, ReaderFits, Reports
  <2>2. PICK i \in JobIds : BusySince(i, reader.since)
    BY <2>1
  <2>3. jobs[i].kind = "sync" /\ jobs[i].state = "completed" /\ at[i].finalized >= reader.since
    BY <1>4, <2>2 DEF BusySince
  <2>4. at[i].finalized \in Nat
    BY DEF ReportInv, StatusInv, VarTypes, Stamps, Times
  <2>5. LastSuccessfulSyncAt(s) = IF s.at >= at[i].finalized THEN s.at ELSE at[i].finalized
    BY <1>1, <2>3, SuccessFacts DEF Completed
  <2> QED
    BY <1>1, <2>1, <2>3, <2>4, <2>5
<1>6. Report.snapshot = s /\ Report.syncAt = LastSuccessfulSyncAt(s)
  BY <1>1 DEF Status
<1> QED
  BY <1>4, <1>5, <1>6

(* A report that the background work is idle, with no error, can be relied *)
(* on although snapshot and jobs are read at two moments.                  *)
THEOREM QuietReportIsSettledTheorem == StatusSpec => QuietReportIsSettled
<1>1. ReportInv /\ [StatusNext]_statusVars =>
        [Reports /\ Idle(Report) /\ Report.error = {} =>
           /\ \A i \in JobIds : jobs[i].state \in {"none", "completed"}
           /\ Report.snapshot # snap => Report.syncAt > Report.snapshot.at]_statusVars
  BY QuietReport
<1> QED
  BY <1>1, ReportInvariance, PTL DEF StatusSpec, QuietReportIsSettled

=============================================================================
