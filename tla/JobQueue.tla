------------------------------ MODULE JobQueue ------------------------------
(***************************************************************************)
(* A BullMQ 5 queue as MailService and WorkerService use it: Queue.add     *)
(* with an attempts/backoff option, one or more Workers of concurrency 1,  *)
(* the per-job lock a worker renews, and the stalled-job checker.  BullMQ  *)
(* is a dependency, not code of this repository: the module states what    *)
(* the services rely on.  A worker whose lock expired does not know it: it *)
(* runs its processor to the end, and only then is told that the job is no *)
(* longer its own.                                                         *)
(***************************************************************************)
EXTENDS Naturals

CONSTANTS
    Jobs,             \* the jobs that may be added to the queue
    Workers,          \* the Worker instances, one per running process
    NoWorker,         \* the owner of a job nobody holds the lock of
    MaxAttempts,      \* JobsOptions.attempts
    MaxStalledCount   \* WorkerOptions.maxStalledCount (BullMQ's default is 1)

ASSUME QueueAssumption ==
    /\ NoWorker \notin Workers
    /\ MaxAttempts \in Nat \ {0}
    /\ MaxStalledCount \in Nat

VARIABLES
    state,         \* the list of the queue each job is on, or "none"
    lock,          \* the worker holding each job's lock
    runs,          \* how often the processor was called for the job
    attemptsMade,  \* how many of those calls reported an outcome in time
    stalledCount   \* how often the job was found active without a lock

queueVars == <<state, lock, runs, attemptsMade, stalledCount>>

QueueTypeOK ==
    /\ state \in [Jobs -> {"none", "waiting", "active", "delayed",
                           "completed", "failed"}]
    /\ lock \in [Jobs -> Workers \cup {NoWorker}]
    /\ runs \in [Jobs -> Nat]
    /\ attemptsMade \in [Jobs -> Nat]
    /\ stalledCount \in [Jobs -> Nat]

QueueInit ==
    /\ state = [j \in Jobs |-> "none"]
    /\ lock = [j \in Jobs |-> NoWorker]
    /\ runs = [j \in Jobs |-> 0]
    /\ attemptsMade = [j \in Jobs |-> 0]
    /\ stalledCount = [j \in Jobs |-> 0]

Holds(w, j) == state[j] = "active" /\ lock[j] = w

Finished(j) == state[j] \in {"completed", "failed"}

-----------------------------------------------------------------------------
Add(j) ==
    /\ state[j] = "none"
    /\ state' = [state EXCEPT ![j] = "waiting"]
    /\ UNCHANGED <<lock, runs, attemptsMade, stalledCount>>

(* Mutant: one stall too many is tolerated. *)
Take_ExtraStall(w, j) ==
    /\ state[j] = "waiting"
    /\ stalledCount[j] <= MaxStalledCount + 1
    /\ state' = [state EXCEPT ![j] = "active"]
    /\ lock' = [lock EXCEPT ![j] = w]
    /\ runs' = [runs EXCEPT ![j] = @ + 1]
    /\ UNCHANGED <<attemptsMade, stalledCount>>

(* A worker fetches a job, locks it, and calls the processor. *)
Take(w, j) ==
    /\ state[j] = "waiting"
    /\ stalledCount[j] <= MaxStalledCount
    /\ state' = [state EXCEPT ![j] = "active"]
    /\ lock' = [lock EXCEPT ![j] = w]
    /\ runs' = [runs EXCEPT ![j] = @ + 1]
    /\ UNCHANGED <<attemptsMade, stalledCount>>

(* A worker fetches a job that stalled too often: it is failed without a   *)
(* call of the processor.                                                  *)
Discard(j) ==
    /\ state[j] = "waiting"
    /\ stalledCount[j] > MaxStalledCount
    /\ state' = [state EXCEPT ![j] = "failed"]
    /\ UNCHANGED <<lock, runs, attemptsMade, stalledCount>>

(* The processor of the lock's holder ended: the job moves to list s.      *)
Conclude(j, s) ==
    /\ state' = [state EXCEPT ![j] = s]
    /\ lock' = [lock EXCEPT ![j] = NoWorker]
    /\ attemptsMade' = [attemptsMade EXCEPT ![j] = @ + 1]
    /\ UNCHANGED <<runs, stalledCount>>

(* The processor returned; without the lock the report is refused. *)
Complete(w, j) ==
    \/ Holds(w, j) /\ Conclude(j, "completed")
    \/ ~Holds(w, j) /\ UNCHANGED queueVars

(* The processor threw: a retry after the backoff, or the end. *)
Fail(w, j) ==
    \/ /\ Holds(w, j)
       /\ Conclude(j, IF attemptsMade[j] + 1 < MaxAttempts THEN "delayed"
                                                           ELSE "failed")
    \/ ~Holds(w, j) /\ UNCHANGED queueVars

(* The backoff elapsed. *)
Promote(j) ==
    /\ state[j] = "delayed"
    /\ state' = [state EXCEPT ![j] = "waiting"]
    /\ UNCHANGED <<lock, runs, attemptsMade, stalledCount>>

(* The lock of an active job expired, its worker still running or dead. *)
ExpireLocks(w) ==
    /\ lock' = [j \in Jobs |-> IF lock[j] = w THEN NoWorker ELSE lock[j]]
    /\ UNCHANGED <<state, runs, attemptsMade, stalledCount>>

(* The stalled-job checker puts an active job without a lock back. *)
Stall(j) ==
    /\ Holds(NoWorker, j)
    /\ state' = [state EXCEPT ![j] = "waiting"]
    /\ stalledCount' = [stalledCount EXCEPT ![j] = @ + 1]
    /\ UNCHANGED <<lock, runs, attemptsMade>>

-----------------------------------------------------------------------------
(* How often one job's processor can be called. *)
MaxRuns == MaxAttempts + MaxStalledCount

Open(j) == ~Finished(j)

(* Each call of the processor ended in a counted attempt or in a stall, or *)
(* is the one of the job's present activation.                             *)
Accounting ==
    \A j \in Jobs :
        runs[j] = attemptsMade[j] + stalledCount[j]
                    + (IF state[j] = "active" THEN 1 ELSE 0)

LocksAreActive ==
    \A j \in Jobs : lock[j] # NoWorker => state[j] = "active"

LimitsKept ==
    \A j \in Jobs :
        /\ Open(j) => attemptsMade[j] < MaxAttempts
        /\ state[j] \in {"active", "delayed"} =>
               stalledCount[j] <= MaxStalledCount
        /\ state[j] = "none" => runs[j] = 0
        /\ runs[j] <= MaxRuns

QueueInv == QueueTypeOK /\ Accounting /\ LocksAreActive /\ LimitsKept

=============================================================================
