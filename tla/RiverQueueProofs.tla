-------------------------- MODULE RiverQueueProofs --------------------------
(***************************************************************************)
(* For every number of job slots, every set of kinds and every bound on    *)
(* attempts: the job table is well formed and a unique identity key has at *)
(* most one holder.                                                        *)
(***************************************************************************)
EXTENDS RiverQueue, TLAPS

USE QueueAssumption DEF LiveStates, FinalStates, JobStates

(* A step of the queue keeps the table well formed.                        *)
LEMMA TypeStep == TypeOK /\ [Next]_jobs => TypeOK'
<1> SUFFICES ASSUME TypeOK, [Next]_jobs PROVE TypeOK'
  OBVIOUS
<1> USE DEF TypeOK, Job
<1>1. ASSUME NEW k \in Kinds, NEW p \in Payloads, Insert(k, p) PROVE TypeOK'
  BY <1>1 DEF Insert, Duplicate, FreeIds
<1>2. ASSUME NEW i \in JobIds, Fetch(i) PROVE TypeOK'
  BY <1>2 DEF Fetch
<1>3. ASSUME NEW i \in JobIds, Complete(i) PROVE TypeOK'
  BY <1>3 DEF Complete
<1>4. ASSUME NEW i \in JobIds, Fail(i) PROVE TypeOK'
  BY <1>4 DEF Fail, LastAttempt
<1>5. ASSUME NEW i \in JobIds, Snooze(i) PROVE TypeOK'
  BY <1>5 DEF Snooze
<1>6. ASSUME NEW i \in JobIds, Reschedule(i) PROVE TypeOK'
  BY <1>6 DEF Reschedule
<1>7. ASSUME NEW i \in JobIds, Clean(i) PROVE TypeOK'
  BY <1>7 DEF Clean, FreeSlot
<1>8. CASE UNCHANGED jobs
  BY <1>8
<1> QED
  BY <1>1, <1>2, <1>3, <1>4, <1>5, <1>6, <1>7, <1>8 DEF Next

(* A step of the queue keeps the holder of an identity key unique: only    *)
(* Insert brings a job into a counted state, and only without a holder.    *)
LEMMA UniqueStep == TypeOK /\ UniqueHolder /\ [Next]_jobs => UniqueHolder'
<1> SUFFICES ASSUME TypeOK, UniqueHolder, [Next]_jobs PROVE UniqueHolder'
  OBVIOUS
<1> USE DEF TypeOK, Job, UniqueHolder
<1>1. ASSUME NEW k \in Kinds, NEW p \in Payloads, Insert(k, p) PROVE UniqueHolder'
  <2>1. CASE Duplicate(k)
    BY <1>1, <2>1 DEF Insert
  <2>2. CASE ~Duplicate(k)
    <3>1. PICK i \in FreeIds :
            jobs' = [jobs EXCEPT ![i] = [kind |-> k, state |-> "available",
                                         attempt |-> 0, payload |-> p]]
      BY <1>1, <2>2 DEF Insert
    <3>2. \A j \in JobIds : jobs[j].kind = k => jobs[j].state \notin UniqueStates
      BY <2>2 DEF Duplicate, Holder
    <3> QED
      BY <3>1, <3>2 DEF FreeIds
  <2> QED
    BY <2>1, <2>2
<1>2. ASSUME NEW i \in JobIds, Fetch(i) PROVE UniqueHolder'
  BY <1>2 DEF Fetch
<1>3. ASSUME NEW i \in JobIds, Complete(i) PROVE UniqueHolder'
  BY <1>3 DEF Complete
<1>4. ASSUME NEW i \in JobIds, Fail(i) PROVE UniqueHolder'
  BY <1>4 DEF Fail, LastAttempt
<1>5. ASSUME NEW i \in JobIds, Snooze(i) PROVE UniqueHolder'
  BY <1>5 DEF Snooze
<1>6. ASSUME NEW i \in JobIds, Reschedule(i) PROVE UniqueHolder'
  BY <1>6 DEF Reschedule
<1>7. ASSUME NEW i \in JobIds, Clean(i) PROVE UniqueHolder'
  BY <1>7 DEF Clean, FreeSlot
<1>8. CASE UNCHANGED jobs
  BY <1>8
<1> QED
  BY <1>1, <1>2, <1>3, <1>4, <1>5, <1>6, <1>7, <1>8 DEF Next

(* Every reachable job table is well formed.                               *)
THEOREM TypeCorrect == Spec => []TypeOK
<1>1. Init => TypeOK
  BY DEF Init, TypeOK, Job, FreeSlot
<1> QED
  BY <1>1, TypeStep, PTL DEF Spec

(* The unique insert of client.go gives mutual exclusion: no two jobs of   *)
(* one identity key are both available, running, retryable or completed.   *)
THEOREM UniqueHolderTheorem == Spec => []UniqueHolder
<1>1. Init => UniqueHolder
  BY DEF Init, UniqueHolder, FreeSlot
<1> QED
  BY <1>1, UniqueStep, TypeCorrect, PTL DEF Spec

=============================================================================
