---------------------------- MODULE OutboundMail ----------------------------
(***************************************************************************)
(* Sending mail: MailController.send queues a job, a BullMQ worker runs    *)
(* MailService.processSend on it, and all that a send leaves behind is the *)
(* row EventsService.createNormalized writes and announces.  Every await   *)
(* of processSend is a step boundary: the mailbox row may change, the      *)
(* database may fail (before or after it committed), the lock may expire   *)
(* and the process may die there.                                          *)
(***************************************************************************)
EXTENDS JobQueue, FiniteSets

CONSTANTS
    Mailboxes,   \* mailbox ids named by payloads
    MailboxOf,   \* the mailboxId of each job's payload
    NoJob,       \* what a worker without a job works on
    MaxFaults    \* bound: database calls that fail, per job

ASSUME MailAssumption ==
    /\ NoJob \notin Jobs
    /\ MailboxOf \in [Jobs -> Mailboxes]
    /\ MaxFaults \in Nat

VARIABLES
    token,      \* per mailbox: no row, a row with a live or an expired token
    pc,         \* where each worker is in processSend
    cur,        \* the job whose payload it was called with
    run,        \* which call for that job this is
    verdict,    \* the mailbox as findOne returned it
    events,     \* the rows of table event written by processSend
    announced,  \* the rows createNormalized went on to emit
    faults,     \* per job: database calls that failed
    seen        \* per job: the token states its mailbox had since the send

taskVars == <<pc, cur, run, verdict>>
rowVars == <<events, announced>>
vars == <<queueVars, token, taskVars, rowVars, faults, seen>>

Tokens == {"absent", "live", "expired"}
Clauses == {"try", "catch"}
Rows == [job : Jobs, run : Nat, clause : Clauses, status : {"ok", "error"}]

TypeOK ==
    /\ QueueTypeOK
    /\ token \in [Mailboxes -> Tokens]
    /\ pc \in [Workers -> {"idle", "find", "try", "catch", "throw",
                           "return", "down"}]
    /\ cur \in [Workers -> Jobs \cup {NoJob}]
    /\ run \in [Workers -> Nat]
    /\ verdict \in [Workers -> Tokens]
    /\ events \subseteq Rows
    /\ announced \subseteq events
    /\ faults \in [Jobs -> Nat]
    /\ seen \in [Jobs -> SUBSET Tokens]

Init ==
    /\ QueueInit
    /\ token \in [Mailboxes -> Tokens]
    /\ pc = [w \in Workers |-> "idle"]
    /\ cur = [w \in Workers |-> NoJob]
    /\ run = [w \in Workers |-> 0]
    /\ verdict = [w \in Workers |-> "absent"]
    /\ events = {}
    /\ announced = {}
    /\ faults = [j \in Jobs |-> 0]
    /\ seen = [j \in Jobs |-> {}]

Busy(w) == pc[w] \notin {"idle", "down"}
Alive == \E w \in Workers : pc[w] # "down"
RowsOf(j) == {e \in events : e.job = j}

(* A processor call is over: its local variables are gone. *)
Leave(w, where) ==
    /\ pc' = [pc EXCEPT ![w] = where]
    /\ cur' = [cur EXCEPT ![w] = NoJob]
    /\ run' = [run EXCEPT ![w] = 0]
    /\ verdict' = [verdict EXCEPT ![w] = "absent"]

Goto(w, where) ==
    /\ pc' = [pc EXCEPT ![w] = where]
    /\ UNCHANGED <<cur, run, verdict>>

-----------------------------------------------------------------------------
EnqueueSend(j) == Add(j)

(* POST /mail/send replies with the id of the job.  Nothing of the mailbox *)
(* is looked at; seen only remembers what it was.                          *)
Send(j) ==
    /\ EnqueueSend(j)
    /\ seen' = [seen EXCEPT ![j] = {token[MailboxOf[j]]}]
    /\ UNCHANGED <<token, taskVars, rowVars, faults>>

TakeSend(w) ==
    \E j \in Jobs :
        /\ pc[w] = "idle"
        /\ Take(w, j)
        /\ pc' = [pc EXCEPT ![w] = "find"]
        /\ cur' = [cur EXCEPT ![w] = j]
        /\ run' = [run EXCEPT ![w] = runs'[j]]
        /\ UNCHANGED <<verdict, token, rowVars, faults, seen>>

DiscardSend(w) ==
    \E j \in Jobs :
        /\ pc[w] = "idle"
        /\ Discard(j)
        /\ UNCHANGED <<token, taskVars, rowVars, faults, seen>>

CanFault(j) == faults[j] < MaxFaults

Fault(j) ==
    /\ CanFault(j)
    /\ faults' = [faults EXCEPT ![j] = @ + 1]

(* Mutant: an expired token makes the attempt fail. *)
FindMailbox_ThrowsExpired(w) ==
    /\ pc[w] = "find"
    /\ verdict' = [verdict EXCEPT ![w] = token[MailboxOf[cur[w]]]]
    /\ pc' = [pc EXCEPT ![w] = IF verdict'[w] = "expired" THEN "throw" ELSE "try"]
    /\ UNCHANGED <<cur, run, faults>>
    /\ UNCHANGED <<queueVars, token, rowVars, seen>>

(* this.repo.findOne: outside the try block, so its failure is thrown. *)
FindMailbox(w) ==
    /\ pc[w] = "find"
    /\ \/ /\ verdict' = [verdict EXCEPT ![w] = token[MailboxOf[cur[w]]]]
          /\ pc' = [pc EXCEPT ![w] = "try"]
          /\ UNCHANGED <<cur, run, faults>>
       \/ Fault(cur[w]) /\ Goto(w, "throw")
    /\ UNCHANGED <<queueVars, token, rowVars, seen>>

(* Mutant: the expiry of the token is not compared with now. *)
Row_NoExpiryCheck(w, clause) ==
    [job |-> cur[w], run |-> run[w], clause |-> clause,
     status |-> IF clause = "try" /\ verdict[w] # "absent" THEN "ok"
                                                           ELSE "error"]

Row(w, clause) ==
    [job |-> cur[w], run |-> run[w], clause |-> clause,
     status |-> IF clause = "try" /\ verdict[w] = "live" THEN "ok"
                                                         ELSE "error"]

HasMailbox(w) == token[MailboxOf[cur[w]]] # "absent"

(* Mutant: only what the try block stored is emitted. *)
CreateNormalized_SilentCatch(w, clause, failed) ==
    /\ HasMailbox(w) \/ clause = "try"
    /\ IF HasMailbox(w)
       THEN /\ events' = events \cup {Row(w, clause)}
            /\ announced' = IF clause = "try"
                            THEN announced \cup {Row(w, clause)} ELSE announced
            /\ Goto(w, "return")
       ELSE Goto(w, failed) /\ UNCHANGED rowVars
    /\ UNCHANGED <<queueVars, token, seen, faults>>

(* createNormalized: the INSERT is stored and announced, or refused for    *)
(* want of the mailbox row, or fails with or without having committed.     *)
CreateNormalized(w, clause, failed) ==
    /\ \/ /\ HasMailbox(w)
          /\ events' = events \cup {Row(w, clause)}
          /\ announced' = announced \cup {Row(w, clause)}
          /\ Goto(w, "return")
          /\ UNCHANGED faults
       \/ /\ ~HasMailbox(w)
          /\ Goto(w, failed)
          /\ UNCHANGED <<rowVars, faults>>
       \/ /\ Fault(cur[w])
          /\ \/ UNCHANGED events
             \/ HasMailbox(w) /\ events' = events \cup {Row(w, clause)}
          /\ Goto(w, failed)
          /\ UNCHANGED announced
    /\ UNCHANGED <<queueVars, token, seen>>

(* Mutant: what follows the INSERT in the try block throws. *)
TrySave_EmitThrows(w) == pc[w] = "try" /\ HasMailbox(w)
    /\ events' = events \cup {Row(w, "try")} /\ Goto(w, "catch")
    /\ UNCHANGED <<announced, queueVars, token, seen, faults>>

(* Mutant: the failure of the second INSERT is logged, not thrown. *)
CatchSave_Swallows(w) ==
    pc[w] = "catch" /\ CreateNormalized(w, "catch", "return")

TrySave(w) == pc[w] = "try" /\ CreateNormalized(w, "try", "catch")
CatchSave(w) == pc[w] = "catch" /\ CreateNormalized(w, "catch", "throw")

Return(w) ==
    /\ pc[w] = "return"
    /\ Complete(w, cur[w])
    /\ Leave(w, "idle")
    /\ UNCHANGED <<token, rowVars, faults, seen>>

Rethrow(w) ==
    /\ pc[w] = "throw"
    /\ Fail(w, cur[w])
    /\ Leave(w, "idle")
    /\ UNCHANGED <<token, rowVars, faults, seen>>

-----------------------------------------------------------------------------
PromoteSend == \E j \in Jobs :
    /\ Alive
    /\ Promote(j)
    /\ UNCHANGED <<token, taskVars, rowVars, faults, seen>>

StallSend == \E j \in Jobs :
    /\ Alive
    /\ Stall(j)
    /\ UNCHANGED <<token, taskVars, rowVars, faults, seen>>

(* The event loop or the connection was blocked for longer than the lock. *)
LoseLock(w) ==
    /\ Busy(w)
    /\ Holds(w, cur[w])
    /\ ExpireLocks(w)
    /\ UNCHANGED <<token, taskVars, rowVars, faults, seen>>

(* Mutant: the lock of a dead process never expires. *)
Crash_KeepsLock(w) ==
    /\ pc[w] # "down"
    /\ Leave(w, "down")
    /\ UNCHANGED <<queueVars, token, rowVars, faults, seen>>

(* The process dies; an INSERT it had sent may still be committed. *)
Crash(w) ==
    /\ pc[w] # "down"
    /\ \/ UNCHANGED events
       \/ /\ pc[w] \in Clauses
          /\ HasMailbox(w)
          /\ events' = events \cup {Row(w, pc[w])}
    /\ ExpireLocks(w)
    /\ Leave(w, "down")
    /\ UNCHANGED <<token, announced, faults, seen>>

Restart(w) ==
    /\ pc[w] = "down"
    /\ Goto(w, "idle")
    /\ UNCHANGED <<queueVars, token, rowVars, faults, seen>>

(* saveTokens and refreshTokenExpiry make a mailbox or renew its token,    *)
(* time expires it; nothing deletes a mailbox.                             *)
MailboxChanges(m) ==
    \E t \in {"live", "expired"} \ {token[m]} :
        /\ token' = [token EXCEPT ![m] = t]
        /\ seen' = [j \in Jobs |->
                      IF MailboxOf[j] = m /\ state[j] # "none"
                      THEN seen[j] \cup {t} ELSE seen[j]]
        /\ UNCHANGED <<queueVars, taskVars, rowVars, faults>>

-----------------------------------------------------------------------------
Fetch(w) == TakeSend(w) \/ DiscardSend(w)

Proceed(w) ==
    \/ FindMailbox(w) \/ TrySave(w) \/ CatchSave(w)
    \/ Return(w) \/ Rethrow(w) \/ Restart(w)

Next ==
    \/ \E j \in Jobs : Send(j)
    \/ \E w \in Workers : Fetch(w) \/ Proceed(w) \/ LoseLock(w) \/ Crash(w)
    \/ PromoteSend \/ StallSend
    \/ \E m \in Mailboxes : MailboxChanges(m)

Spec == Init /\ [][Next]_vars

(***************************************************************************)
(* A running process executes processSend to its end, a dead one is        *)
(* restarted (the Deployment of k8s/app.yaml), and as long as processes    *)
(* keep coming back, jobs are fetched, promoted and checked for stalls.    *)
(***************************************************************************)
Fairness ==
    /\ \A w \in Workers : WF_vars(Proceed(w)) /\ SF_vars(Fetch(w))
    /\ SF_vars(PromoteSend) /\ SF_vars(StallSend)

FairSpec == Spec /\ Fairness

-----------------------------------------------------------------------------
(* A send BullMQ reports as completed, and removes, has left a row: an     *)
(* acknowledged request cannot vanish without a trace.                     *)
CompletedIsRecorded ==
    \A j \in Jobs : state[j] = "completed" => RowsOf(j) # {}

(* Retries and stalls repeat processSend, and the catch block repeats the  *)
(* INSERT, yet every row beyond the first has a cause of its own: a failed *)
(* call or a stall.                                                        *)
RowsHaveCauses ==
    \A j \in Jobs :
        Cardinality(RowsOf(j)) <= 1 + faults[j] + stalledCount[j]

(* And whatever happens, one send never leaves more than this many rows.   *)
RowsBounded == \A j \in Jobs : Cardinality(RowsOf(j)) <= 2 * MaxRuns

(* A send to an existing mailbox fails for good only if a call failed in   *)
(* each of its attempts, or if it stalled more often than the queue allows.*)
FailureNeedsFaults ==
    \A j \in Jobs :
        state[j] = "failed" /\ "absent" \notin seen[j] =>
            faults[j] >= MaxAttempts \/ stalledCount[j] > MaxStalledCount

(* The status of a row was true at some time since the send: "ok" needs a  *)
(* live token then, "error" a missing or expired one, or a failed call.    *)
StatusJustified ==
    \A e \in events :
        IF e.status = "ok" THEN "live" \in seen[e.job]
        ELSE seen[e.job] \cap {"absent", "expired"} # {} \/ faults[e.job] > 0

(* A row the dashboards were not told of is the trace of a failed call or  *)
(* of a process that died between the INSERT and the emit.                 *)
UnannouncedNeedsCause ==
    \A e \in events \ announced :
        \/ faults[e.job] > 0 \/ stalledCount[e.job] > 0
        \/ Holds(NoWorker, e.job)

(* processSend runs twice at a time for one send only after its job was    *)
(* found stalled while the first run went on without its lock.             *)
OverlapNeedsStall ==
    \A v, w \in Workers :
        v # w /\ cur[v] = cur[w] /\ cur[v] # NoJob => stalledCount[cur[v]] > 0

(* Every accepted send is settled, whatever fails on the way. *)
Settles == \A j \in Jobs : state[j] = "waiting" ~> Finished(j)

-----------------------------------------------------------------------------
(* OutboundMail implements the contract: the list a job is on is the fate  *)
(* of its send.                                                            *)
Fate(j) == IF state[j] \in {"waiting", "active", "delayed"} THEN "accepted"
                                                           ELSE state[j]

Contract == INSTANCE SendContract WITH
    MaxRows <- 2 * MaxRuns,
    fate <- [j \in Jobs |-> Fate(j)],
    rows <- [j \in Jobs |-> Cardinality(RowsOf(j))],
    ok <- {j \in Jobs : \E e \in RowsOf(j) : e.status = "ok"},
    live <- {j \in Jobs : "live" \in seen[j]}

(* processSend over BullMQ keeps what POST /mail/send promises. *)
ImplementsContract == Contract!Spec

-----------------------------------------------------------------------------
(* listQueue derives a state from the timestamps BullMQ keeps: finishedOn  *)
(* once the job ended, failedReason once an attempt failed, processedOn    *)
(* once it was fetched.                                                    *)
ListedState(j) ==
    CASE Finished(j) -> "completed"
      [] ~Finished(j) /\ attemptsMade[j] > 0 -> "failed"
      [] ~Finished(j) /\ attemptsMade[j] = 0 /\ runs[j] > 0 -> "active"
      [] OTHER -> "waiting"

(* GET /mail/queue shows no job as completed that is not. *)
ListedAsCompletedIsCompleted ==
    \A j \in Jobs :
        state[j] \in {"waiting", "delayed", "active", "failed"}
            => ListedState(j) # "completed"

-----------------------------------------------------------------------------
(***************************************************************************)
(* The inductive invariant behind the safety properties.                   *)
(***************************************************************************)

(* The holder of a lock is in the last call for that job, and no two       *)
(* workers are in the same call.                                           *)
TaskInv ==
    /\ \A w \in Workers :
         /\ cur[w] # NoJob <=> Busy(w)
         /\ cur[w] # NoJob => /\ state[cur[w]] # "none"
                              /\ run[w] >= 1
                              /\ run[w] <= runs[cur[w]]
         /\ \A j \in Jobs : lock[j] = w => cur[w] = j /\ run[w] = runs[j]
    /\ \A v, w \in Workers :
         v # w /\ cur[v] = cur[w] /\ cur[v] # NoJob => run[v] # run[w]

(* A call leaves at most one row per clause, and none before it gets there.*)
RowInv ==
    /\ \A e \in events : e.run >= 1 /\ e.run <= runs[e.job]
    /\ \A e, f \in events :
         e.job = f.job /\ e.run = f.run /\ e.clause = f.clause => e = f
    /\ \A w \in Workers, e \in events :
         e.job = cur[w] /\ e.run = run[w] =>
            /\ pc[w] \notin {"find", "try"}
            /\ pc[w] = "catch" => e.clause = "try"

(* A call that returns has left a row. *)
RecordInv ==
    /\ \A w \in Workers : pc[w] = "return" => RowsOf(cur[w]) # {}
    /\ CompletedIsRecorded

(* A counted attempt that did not complete the job met a failed call,      *)
(* unless the mailbox did not exist.                                       *)
SeenInv ==
    \A j \in Jobs : IF state[j] = "none" THEN seen[j] = {}
                   ELSE token[MailboxOf[j]] \in seen[j]

AttemptsNeedFaults ==
    \A j \in Jobs :
        "absent" \notin seen[j] /\ state[j] # "completed" =>
            faults[j] >= attemptsMade[j]

ThrowNeedsFault ==
    \A w \in Workers :
        /\ pc[w] \in {"catch", "throw"}
        /\ lock[cur[w]] = w
        /\ "absent" \notin seen[cur[w]]
        => faults[cur[w]] >= attemptsMade[cur[w]] + 1

FaultInv ==
    SeenInv /\ AttemptsNeedFaults /\ ThrowNeedsFault /\ FailureNeedsFaults

(* What a call knows of the mailbox was true at some time since the send,  *)
(* and it is in the catch block because an INSERT failed.                  *)
VerdictInv ==
    \A w \in Workers :
        /\ pc[w] \in {"try", "catch"} => verdict[w] \in seen[cur[w]]
        /\ pc[w] = "catch" =>
             "absent" \in seen[cur[w]] \/ faults[cur[w]] > 0

StatusInv == SeenInv /\ VerdictInv /\ StatusJustified

(* A send that never stalled has one worker at most. *)
CalmInv ==
    \A j \in Jobs : stalledCount[j] = 0 =>
        /\ \A v, w \in Workers : cur[v] = j /\ cur[w] = j => v = w
        /\ \A w \in Workers : cur[w] = j => state[j] = "active"

(* The calls that may still leave a row. *)
Runners(j) == {w \in Workers : cur[w] = j /\ pc[w] # "return"}

(* Whether another call for the send is to come. *)
Due(j) == IF state[j] \in {"none", "waiting", "delayed"} THEN 1 ELSE 0

(* The first row, each failed call and each stall pay for one row, and the *)
(* calls under way and the one to come have not spent theirs.              *)
CauseInv ==
    \A j \in Jobs :
        Cardinality(RowsOf(j)) + Cardinality(Runners(j)) + Due(j)
            <= 1 + faults[j] + stalledCount[j]

Inv ==
    /\ TypeOK /\ QueueInv /\ TaskInv
    /\ RowInv /\ RecordInv /\ FaultInv /\ CalmInv
    /\ StatusInv /\ UnannouncedNeedsCause /\ CauseInv

=============================================================================
