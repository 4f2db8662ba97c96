--------------------------- MODULE JobQueueProofs ---------------------------
(***************************************************************************)
(* Every operation of the queue preserves QueueInv: attempts and stalls    *)
(* account for every call of the processor, so their limits bound it.      *)
(***************************************************************************)
EXTENDS JobQueue, TLAPS

(* An empty queue satisfies the invariant. *)
LEMMA QueueInitInv == QueueInit => QueueInv
BY QueueAssumption
   DEF QueueInit, QueueInv, QueueTypeOK, Accounting, LocksAreActive,
       LimitsKept, Open, Finished, MaxRuns

(* A job enters the queue without runs, attempts or stalls (Queue.add). *)
LEMMA AddInv ==
    ASSUME QueueInv, NEW j \in Jobs, Add(j) PROVE QueueInv'
BY QueueAssumption
   DEF Add, QueueInv, QueueTypeOK, Accounting, LocksAreActive,
       LimitsKept, Open, Finished, MaxRuns

(* The limits hold for a call because a fetched job has an attempt left    *)
(* and did not stall too often.                                            *)
LEMMA TakeInv ==
    ASSUME QueueInv, NEW w \in Workers, NEW j \in Jobs, Take(w, j)
    PROVE  QueueInv'
<1> USE QueueAssumption DEF QueueInv
<1>1. QueueTypeOK' /\ LocksAreActive' /\ Accounting'
  BY DEF Take, QueueTypeOK, LocksAreActive, Accounting
<1>2. runs[j] + 1 <= MaxRuns
  BY DEF Take, QueueTypeOK, Accounting, LimitsKept, Open, Finished, MaxRuns
<1>3. LimitsKept'
  BY <1>2 DEF Take, QueueTypeOK, LimitsKept, Open, Finished, MaxRuns
<1> QED BY <1>1, <1>3

(* Failing a job that stalled too often keeps the counts of its runs. *)
LEMMA DiscardInv ==
    ASSUME QueueInv, NEW j \in Jobs, Discard(j) PROVE QueueInv'
BY QueueAssumption
   DEF Discard, QueueInv, QueueTypeOK, Accounting, LocksAreActive,
       LimitsKept, Open, Finished, MaxRuns

LEMMA CompleteInv ==
    ASSUME QueueInv, NEW w \in Workers, NEW j \in Jobs, Complete(w, j)
    PROVE  QueueInv'
<1>1. CASE Holds(w, j) /\ Conclude(j, "completed")
  BY <1>1, QueueAssumption
     DEF Holds, Conclude, QueueInv, QueueTypeOK, Accounting,
         LocksAreActive, LimitsKept, Open, Finished, MaxRuns
<1>2. CASE UNCHANGED queueVars
  BY <1>2 DEF queueVars, QueueInv, QueueTypeOK, Accounting,
              LocksAreActive, LimitsKept, Open, Finished
<1> QED BY <1>1, <1>2 DEF Complete

(* A failed attempt leaves the job open only if another one is left. *)
(* A throw is retried only while attempts are left (JobsOptions.attempts). *)
LEMMA FailInv ==
    ASSUME QueueInv, NEW w \in Workers, NEW j \in Jobs, Fail(w, j)
    PROVE  QueueInv'
<1>1. CASE /\ Holds(w, j)
           /\ Conclude(j, IF attemptsMade[j] + 1 < MaxAttempts
                          THEN "delayed" ELSE "failed")
  BY <1>1, QueueAssumption
     DEF Holds, Conclude, QueueInv, QueueTypeOK, Accounting,
         LocksAreActive, LimitsKept, Open, Finished, MaxRuns
<1>2. CASE UNCHANGED queueVars
  BY <1>2 DEF queueVars, QueueInv, QueueTypeOK, Accounting,
              LocksAreActive, LimitsKept, Open, Finished
<1> QED BY <1>1, <1>2 DEF Fail

(* The end of a backoff keeps the counts. *)
LEMMA PromoteInv ==
    ASSUME QueueInv, NEW j \in Jobs, Promote(j) PROVE QueueInv'
BY QueueAssumption
   DEF Promote, QueueInv, QueueTypeOK, Accounting, LocksAreActive,
       LimitsKept, Open, Finished, MaxRuns

(* An expired lock leaves the job active and its run counted. *)
LEMMA ExpireLocksInv ==
    ASSUME QueueInv, NEW w \in Workers, ExpireLocks(w) PROVE QueueInv'
BY QueueAssumption
   DEF ExpireLocks, QueueInv, QueueTypeOK, Accounting, LocksAreActive,
       LimitsKept, Open, Finished, MaxRuns

(* A stall is counted in place of the activation it ends. *)
LEMMA StallInv ==
    ASSUME QueueInv, NEW j \in Jobs, Stall(j) PROVE QueueInv'
BY QueueAssumption
   DEF Stall, Holds, QueueInv, QueueTypeOK, Accounting, LocksAreActive,
       LimitsKept, Open, Finished, MaxRuns

(* Steps that leave the queue alone keep its invariant. *)
LEMMA QueueStutterInv == QueueInv /\ UNCHANGED queueVars => QueueInv'
BY DEF queueVars, QueueInv, QueueTypeOK, Accounting, LocksAreActive,
       LimitsKept, Open, Finished

=============================================================================
