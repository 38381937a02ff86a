----------------------------- MODULE RiverQueue -----------------------------
(***************************************************************************)
(* The job table the repository's background work goes through: River, as  *)
(* src/internal/jobs/river uses it.  River and Postgres are libraries; this*)
(* module models what the code in src/ relies on: the unique insert behind *)
(* EnqueueSyncJob and EnqueueIndexJob, and what becomes of a job when its  *)
(* Work method returns nil, an error, JobSnooze(0) or never returns.       *)
(*                                                                         *)
(* Every job of this module has the same session and repository root, so   *)
(* the identity key purpose::session::root of a job is its kind.           *)
(***************************************************************************)
EXTENDS Integers, FiniteSets

CONSTANTS
  JobIds,        \* slots of the job table: the bound on jobs it holds
  Kinds,         \* kinds of job: the sync scan and the delta application
  Payloads,      \* what a job carries
  NoPayload,     \* the payload of a free slot
  UniqueStates,  \* states in which a job blocks another insert of its kind
  MaxAttempts    \* executions that may fail before a job is discarded

LiveStates  == {"available", "running", "retryable"}
FinalStates == {"completed", "discarded"}
JobStates   == {"none"} \cup LiveStates \cup FinalStates

ASSUME QueueAssumption ==
  /\ Kinds # {}
  /\ NoPayload \in Payloads
  /\ LiveStates \subseteq UniqueStates
  /\ UniqueStates \subseteq LiveStates \cup {"completed"}
  /\ MaxAttempts \in Nat \ {0}

VARIABLE jobs

Job == [kind : Kinds, state : JobStates, attempt : 0 .. MaxAttempts,
        payload : Payloads]

FreeSlot(k) == [kind |-> k, state |-> "none", attempt |-> 0,
                payload |-> NoPayload]

-----------------------------------------------------------------------------
(* The unique insert.                                                      *)

\* Mutant: a running job is not looked at.
HolderNotRunning(k) ==
  {i \in JobIds : jobs[i].kind = k /\ jobs[i].state \in UniqueStates \ {"running"}}

Holder(k) == {i \in JobIds : jobs[i].kind = k /\ jobs[i].state \in UniqueStates}

\* UniqueSkippedAsDuplicate: the insert is skipped and its payload dropped.
Duplicate(k) == Holder(k) # {}

FreeIds == {i \in JobIds : jobs[i].state = "none"}

Insert(k, p) ==
  IF Duplicate(k)
  THEN UNCHANGED jobs
  ELSE \E i \in FreeIds :
         jobs' = [jobs EXCEPT ![i] = [kind |-> k, state |-> "available",
                                      attempt |-> 0, payload |-> p]]

-----------------------------------------------------------------------------
(* The life of a job.                                                      *)

\* Mutant: a job that has failed is never taken again.
FetchOnce(i) ==
  /\ jobs[i].state = "available"
  /\ jobs[i].attempt = 0
  /\ jobs' = [jobs EXCEPT ![i].state = "running", ![i].attempt = 1]

\* A process takes an available job; River counts the attempt.
Fetch(i) ==
  /\ jobs[i].state = "available"
  /\ jobs[i].attempt < MaxAttempts
  /\ jobs' = [jobs EXCEPT ![i].state = "running", ![i].attempt = @ + 1]

\* Work returned nil.
Complete(i) ==
  /\ jobs[i].state = "running"
  /\ jobs' = [jobs EXCEPT ![i].state = "completed"]

LastAttempt(i) == jobs[i].attempt >= MaxAttempts

\* Work returned an error, or the rescuer found a job whose process is gone.
Fail(i) ==
  /\ jobs[i].state = "running"
  /\ jobs' = [jobs EXCEPT ![i].state =
                IF LastAttempt(i) THEN "discarded" ELSE "retryable"]

\* Work returned JobSnooze(0): run again at once, the attempt not counted.
Snooze(i) ==
  /\ jobs[i].state = "running"
  /\ jobs' = [jobs EXCEPT ![i].state = "available", ![i].attempt = @ - 1]

\* The scheduler makes a job whose backoff has passed available again.
Reschedule(i) ==
  /\ jobs[i].state = "retryable"
  /\ jobs' = [jobs EXCEPT ![i].state = "available"]

\* The job cleaner removes finalized rows after their retention period.
Clean(i) ==
  /\ jobs[i].state \in FinalStates
  /\ jobs' = [jobs EXCEPT ![i] = FreeSlot(jobs[i].kind)]

-----------------------------------------------------------------------------
Init == jobs \in {[i \in JobIds |-> FreeSlot(k)] : k \in Kinds}

Next ==
  \/ \E k \in Kinds, p \in Payloads : Insert(k, p)
  \/ \E i \in JobIds :
       \/ Fetch(i)
       \/ Complete(i)
       \/ Fail(i)
       \/ Snooze(i)
       \/ Reschedule(i)
       \/ Clean(i)

Spec == Init /\ [][Next]_jobs

-----------------------------------------------------------------------------
(* Every row of the job table is well formed, and a running job has been   *)
(* attempted.                                                              *)
TypeOK ==
  /\ jobs \in [JobIds -> Job]
  /\ \A i \in JobIds : jobs[i].state = "running" => jobs[i].attempt > 0

(* No two jobs with one identity key are ever in a state that the unique   *)
(* insert (client.go InsertOpts) counts, whatever mix of retries, snoozes, *)
(* rescues and cleaning the jobs went through.  In particular two sync     *)
(* scans of a repository never run at once.                                *)
UniqueHolder ==
  \A i, j \in JobIds :
    /\ jobs[i].kind = jobs[j].kind
    /\ jobs[i].state \in UniqueStates
    /\ jobs[j].state \in UniqueStates
    => i = j

=============================================================================
