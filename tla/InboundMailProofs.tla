-------------------------- MODULE InboundMailProofs --------------------------
(***************************************************************************)
(* The safety of InboundMail for every set of deliveries, workers,         *)
(* mailboxes and endpoints, every stall limit and any number of failed     *)
(* calls: what is acknowledged is queued, what is lost met a failure, and  *)
(* what is stored is what was answered.                                    *)
(***************************************************************************)
EXTENDS InboundMail, JobQueueProofs, FiniteSetTheorems

(* A worker knows which call for its job it is in; the holder of a lock is *)
(* in the latest.                                                          *)
TaskInv ==
    /\ \A w \in Workers :
         Busy(w) => cur[w] \in Jobs /\ run[w] >= 1 /\ run[w] <= runs[cur[w]]
    /\ \A w \in Workers, j \in Jobs : lock[j] = w => Busy(w) /\ cur[w] = j

(* process never throws: the one attempt is used up by the call that       *)
(* completes the job.                                                      *)
AttemptsInv == \A j \in Jobs : attemptsMade[j] <= 1

(* A job is added once, by the handler that has its verdict, and an        *)
(* answer is made from that verdict.                                       *)
HandlerInv ==
    \A j \in Jobs :
        /\ handler[j] # "over" => reply[j] = "none"
        /\ handler[j] \in {"none", "lookup", "enqueue"} => state[j] = "none"
        /\ handler[j] = "reply" => state[j] # "none"
        /\ handler[j] = "lookup" => Right(j) \subseteq judged[j]
        /\ handler[j] = "enqueue" \/ state[j] # "none" => verdict[j] \in judged[j]
        /\ reply[j] \in {"success", "token expired"} =>
             state[j] # "none" /\ (verdict[j] = "ok" <=> reply[j] = "success")
        /\ reply[j] = "refused" => state[j] = "none"

(* Only a job that stalled too often fails: process never throws.          *)
FailedInv ==
    \A j \in Jobs : state[j] = "failed" => stalledCount[j] > MaxStalledCount

(* Each row is of a call that was made, with the verdict of the handler.   *)
RowInv ==
    \A e \in events :
        e.run >= 1 /\ e.run <= runs[e.job] /\ e.status = verdict[e.job]

(* A call that is about to return has left a row or met a failure.         *)
LossInv ==
    /\ LossNeedsFault
    /\ \A w \in Workers :
         pc[w] = "return" => RowsOf(cur[w]) # {} \/ faults[cur[w]] > 0

Inv ==
    /\ TypeOK /\ QueueInv /\ TaskInv /\ AttemptsInv
    /\ HandlerInv /\ RowInv /\ LossInv /\ FailedInv

(* The empty system satisfies the invariant. *)
LEMMA InitInv == Init => Inv
<1> SUFFICES ASSUME Init PROVE Inv
  OBVIOUS
<1> USE InboundAssumption, QueueAssumption DEF Init
<1>1. QueueInv
  BY QueueInitInv
<1>2. TypeOK
  BY <1>1 DEF QueueInv, TypeOK, Statuses
<1>3. TaskInv /\ AttemptsInv /\ HandlerInv /\ RowInv
  BY DEF QueueInit, TaskInv, Busy, AttemptsInv, HandlerInv, RowInv
<1>4. LossInv /\ FailedInv
  BY DEF QueueInit, LossInv, LossNeedsFault, FailedInv
<1> QED BY <1>1, <1>2, <1>3, <1>4 DEF Inv

-----------------------------------------------------------------------------
(* Who changes what: the requests and their verdicts, the workers and      *)
(* their locks, the rows.                                                  *)
HandlerStep ==
    \/ \E j \in Jobs :
          Deliver(j) \/ LookUp(j) \/ Enqueue(j) \/ Reply(j) \/ Abort(j)
    \/ \E m \in Mailboxes : ExpiryChanges(m)
    \/ \E p \in Endpoints : EnvExpires(p)
WorkerStep ==
    \E w \in Workers : TakeInbound(w) \/ Proceed(w) \/ LoseLock(w) \/ Crash(w)
RowStep == \E w \in Workers : FindMailbox(w) \/ SaveEvent(w) \/ Crash(w)

LEMMA OthersLeaveRequests ==
    ASSUME TypeOK, TaskInv, Next, ~HandlerStep
    PROVE  /\ UNCHANGED <<expiry, envExpiry, handlerVars>>
           /\ \A j \in Jobs : state'[j] = "none" <=> state[j] = "none"
<1>1. ASSUME NEW w \in Workers, TakeInbound(w) \/ DiscardInbound(w)
      PROVE  /\ UNCHANGED <<expiry, envExpiry, handlerVars>>
             /\ \A j \in Jobs : state'[j] = "none" <=> state[j] = "none"
  BY <1>1 DEF TakeInbound, Take, DiscardInbound, Discard, TypeOK, QueueTypeOK
<1>2. ASSUME NEW w \in Workers, FindMailbox(w) \/ SaveEvent(w) \/ Restart(w)
      PROVE  UNCHANGED <<expiry, envExpiry, handlerVars, state>>
  BY <1>2 DEF FindMailbox, SaveEvent, Restart, queueVars
<1>3. ASSUME NEW w \in Workers, Return(w)
      PROVE  /\ UNCHANGED <<expiry, envExpiry, handlerVars>>
             /\ \A j \in Jobs : state'[j] = "none" <=> state[j] = "none"
  BY <1>3 DEF Return, Complete, Conclude, Holds, queueVars, TypeOK, QueueTypeOK
<1>4. ASSUME NEW w \in Workers, LoseLock(w) \/ Crash(w)
      PROVE  UNCHANGED <<expiry, envExpiry, handlerVars, state>>
  BY <1>4 DEF LoseLock, Crash, ExpireLocks
<1>5. ASSUME StallInbound
      PROVE  /\ UNCHANGED <<expiry, envExpiry, handlerVars>>
             /\ \A j \in Jobs : state'[j] = "none" <=> state[j] = "none"
  BY <1>5 DEF StallInbound, Stall, Holds, TypeOK, QueueTypeOK
<1> QED BY <1>1, <1>2, <1>3, <1>4, <1>5 DEF Next, HandlerStep, Fetch, Proceed

LEMMA OthersLeaveWorkers ==
    ASSUME Next, ~WorkerStep PROVE UNCHANGED <<lock, runs, attemptsMade, taskVars>>
<1>1. ASSUME NEW j \in Jobs,
             Deliver(j) \/ LookUp(j) \/ Enqueue(j) \/ Reply(j) \/ Abort(j)
      PROVE  UNCHANGED <<lock, runs, attemptsMade, taskVars>>
  BY <1>1 DEF Deliver, LookUp, Enqueue, Reply, Abort, Add, queueVars
<1>2. ASSUME NEW w \in Workers, DiscardInbound(w)
      PROVE  UNCHANGED <<lock, runs, attemptsMade, taskVars>>
  BY <1>2 DEF DiscardInbound, Discard
<1>3. ASSUME StallInbound PROVE UNCHANGED <<lock, runs, attemptsMade, taskVars>>
  BY <1>3 DEF StallInbound, Stall
<1>4. ASSUME NEW m \in Mailboxes, ExpiryChanges(m)
      PROVE  UNCHANGED <<lock, runs, attemptsMade, taskVars>>
  BY <1>4 DEF ExpiryChanges, queueVars
<1>5. ASSUME NEW p \in Endpoints, EnvExpires(p)
      PROVE  UNCHANGED <<lock, runs, attemptsMade, taskVars>>
  BY <1>5 DEF EnvExpires, queueVars
<1> QED BY <1>1, <1>2, <1>3, <1>4, <1>5 DEF Next, WorkerStep, Fetch

LEMMA OthersLeaveRows ==
    ASSUME Next, ~RowStep PROVE UNCHANGED rowVars
<1>1. ASSUME NEW j \in Jobs,
             Deliver(j) \/ LookUp(j) \/ Enqueue(j) \/ Reply(j) \/ Abort(j)
      PROVE  UNCHANGED rowVars
  BY <1>1 DEF Deliver, LookUp, Enqueue, Reply, Abort
<1>2. ASSUME NEW w \in Workers,
             TakeInbound(w) \/ DiscardInbound(w) \/ Return(w) \/ Restart(w) \/ LoseLock(w)
      PROVE  UNCHANGED rowVars
  BY <1>2 DEF TakeInbound, DiscardInbound, Return, Restart, LoseLock
<1>3. CASE StallInbound
  BY <1>3 DEF StallInbound
<1>4. ASSUME NEW m \in Mailboxes, ExpiryChanges(m) PROVE UNCHANGED rowVars
  BY <1>4 DEF ExpiryChanges
<1>5. ASSUME NEW p \in Endpoints, EnvExpires(p) PROVE UNCHANGED rowVars
  BY <1>5 DEF EnvExpires
<1> QED BY <1>1, <1>2, <1>3, <1>4, <1>5 DEF Next, RowStep, Fetch, Proceed

-----------------------------------------------------------------------------
(* Every action leaves the queue alone or performs one operation on it.    *)
LEMMA QueueInvStep ==
    ASSUME TypeOK, QueueInv, TaskInv, Next
    PROVE  QueueInv'
<1>1. ASSUME NEW j \in Jobs, Deliver(j) PROVE QueueInv'
  BY <1>1, QueueStutterInv DEF Deliver
<1>2. ASSUME NEW j \in Jobs, LookUp(j) PROVE QueueInv'
  BY <1>2, QueueStutterInv DEF LookUp
<1>3. ASSUME NEW j \in Jobs, Enqueue(j) PROVE QueueInv'
  BY <1>3, AddInv DEF Enqueue
<1>16. ASSUME NEW j \in Jobs, Reply(j) PROVE QueueInv'
  BY <1>16, QueueStutterInv DEF Reply
<1>4. ASSUME NEW j \in Jobs, Abort(j) PROVE QueueInv'
  BY <1>4, AddInv, QueueStutterInv DEF Abort
<1>5. ASSUME NEW w \in Workers, TakeInbound(w) PROVE QueueInv'
  BY <1>5, TakeInv DEF TakeInbound
<1>6. ASSUME NEW w \in Workers, DiscardInbound(w) PROVE QueueInv'
  BY <1>6, DiscardInv DEF DiscardInbound
<1>7. ASSUME NEW w \in Workers, FindMailbox(w) PROVE QueueInv'
  BY <1>7, QueueStutterInv DEF FindMailbox
<1>8. ASSUME NEW w \in Workers, SaveEvent(w) PROVE QueueInv'
  BY <1>8, QueueStutterInv DEF SaveEvent
<1>9. ASSUME NEW w \in Workers, Return(w) PROVE QueueInv'
  BY <1>9, CompleteInv DEF Return, TypeOK, TaskInv, Busy
<1>10. ASSUME NEW w \in Workers, Restart(w) PROVE QueueInv'
  BY <1>10, QueueStutterInv DEF Restart
<1>11. ASSUME NEW w \in Workers, LoseLock(w) PROVE QueueInv'
  BY <1>11, ExpireLocksInv DEF LoseLock
<1>12. ASSUME NEW w \in Workers, Crash(w) PROVE QueueInv'
  BY <1>12, ExpireLocksInv DEF Crash
<1>13. ASSUME StallInbound PROVE QueueInv'
  BY <1>13, StallInv DEF StallInbound
<1>14. ASSUME NEW m \in Mailboxes, ExpiryChanges(m) PROVE QueueInv'
  BY <1>14, QueueStutterInv DEF ExpiryChanges
<1>15. ASSUME NEW p \in Endpoints, EnvExpires(p) PROVE QueueInv'
  BY <1>15, QueueStutterInv DEF EnvExpires
<1> QED BY <1>1, <1>2, <1>3, <1>4, <1>5, <1>6, <1>7, <1>8, <1>9, <1>10, <1>11,
   <1>12, <1>13, <1>14, <1>15, <1>16 DEF Next, Fetch, Proceed

(* The types of what the handlers, the workers and the rows consist of.    *)
HandlerTypes ==
    /\ expiry \in [Mailboxes -> Expiries]
    /\ envExpiry \in [Endpoints -> Expiries \ {"absent"}]
    /\ request \in [Jobs -> Requests]
    /\ handler \in [Jobs -> {"none", "lookup", "enqueue", "reply", "over"}]
    /\ verdict \in [Jobs -> Statuses]
    /\ reply \in [Jobs -> {"none", "success", "token expired", "refused"}]
    /\ judged \in [Jobs -> SUBSET Statuses]
WorkerTypes ==
    /\ pc \in [Workers -> {"idle", "find", "save", "return", "down"}]
    /\ cur \in [Workers -> Jobs \cup {NoJob}]
    /\ run \in [Workers -> Nat]
RowTypes ==
    /\ events \subseteq Rows /\ announced \subseteq events
    /\ faults \in [Jobs -> Nat]

LEMMA Types == TypeOK <=> QueueTypeOK /\ HandlerTypes /\ WorkerTypes /\ RowTypes
BY DEF TypeOK, HandlerTypes, WorkerTypes, RowTypes

LEMMA RightIsStatuses == \A j \in Jobs : Right(j) \subseteq Statuses
BY DEF Right, StatusNow, Statuses

LEMMA HandlerTypesStep == TypeOK /\ TaskInv /\ Next => HandlerTypes'
<1> SUFFICES ASSUME TypeOK, TaskInv, Next PROVE HandlerTypes'
  OBVIOUS
<1>0. HandlerTypes
  BY DEF TypeOK, HandlerTypes
<1> USE <1>0 DEF HandlerTypes
<1>1. ASSUME NEW j \in Jobs, Deliver(j) PROVE HandlerTypes'
  BY <1>1, RightIsStatuses DEF Deliver, Answer
<1>2. ASSUME NEW j \in Jobs, LookUp(j) PROVE HandlerTypes'
  BY <1>2 DEF LookUp, Answer, StatusNow, Statuses
<1>3. ASSUME NEW j \in Jobs, Enqueue(j) \/ Reply(j) \/ Abort(j)
      PROVE  HandlerTypes'
  BY <1>3 DEF Enqueue, Reply, Abort, Answer
<1>4. ASSUME Rejudge PROVE judged' \in [Jobs -> SUBSET Statuses]
  BY <1>4 DEF Rejudge, Right, StatusNow, Statuses
<1>5. ASSUME NEW m \in Mailboxes, ExpiryChanges(m) PROVE HandlerTypes'
  BY <1>4, <1>5 DEF ExpiryChanges
<1>6. ASSUME NEW p \in Endpoints, EnvExpires(p) PROVE HandlerTypes'
  BY <1>4, <1>6 DEF EnvExpires, Expiries
<1>7. CASE ~HandlerStep
  BY <1>7, OthersLeaveRequests DEF handlerVars
<1> QED BY <1>1, <1>2, <1>3, <1>5, <1>6, <1>7 DEF HandlerStep

LEMMA WorkerTypesStep == TypeOK /\ Next => WorkerTypes'
<1> SUFFICES ASSUME TypeOK, Next PROVE WorkerTypes'
  OBVIOUS
<1>0. WorkerTypes /\ runs \in [Jobs -> Nat]
  BY DEF TypeOK, QueueTypeOK, WorkerTypes
<1> USE DEF WorkerTypes
<1>1. ASSUME NEW w \in Workers, TakeInbound(w) PROVE WorkerTypes'
  BY <1>0, <1>1 DEF TakeInbound, Take
<1>2. ASSUME NEW w \in Workers, FindMailbox(w) \/ SaveEvent(w) \/ Restart(w)
      PROVE  WorkerTypes'
  BY <1>0, <1>2 DEF FindMailbox, SaveEvent, Restart, Goto
<1>3. ASSUME NEW w \in Workers, Return(w) \/ Crash(w) PROVE WorkerTypes'
  BY <1>0, <1>3 DEF Return, Crash, Leave
<1>4. CASE UNCHANGED taskVars
  BY <1>0, <1>4 DEF taskVars
<1>5. ASSUME NEW w \in Workers, LoseLock(w) PROVE UNCHANGED taskVars
  BY <1>5 DEF LoseLock
<1>6. CASE ~WorkerStep
  BY <1>4, <1>6, OthersLeaveWorkers
<1> QED BY <1>1, <1>2, <1>3, <1>4, <1>5, <1>6 DEF WorkerStep, Proceed

(* A busy worker has a job, so what it stores is a row. *)
LEMMA RowTypesStep == TypeOK /\ TaskInv /\ Next => RowTypes'
<1> SUFFICES ASSUME TypeOK, TaskInv, Next PROVE RowTypes'
  OBVIOUS
<1>0. RowTypes
  BY DEF TypeOK, RowTypes
<1>1. ASSUME NEW w \in Workers, pc[w] = "save" PROVE Row(w) \in Rows
  BY <1>1 DEF Row, Rows, TypeOK, TaskInv, Busy
<1>2. ASSUME NEW w \in Workers, FindMailbox(w) PROVE RowTypes'
  BY <1>0, <1>2 DEF FindMailbox, Fault, RowTypes
<1>3. ASSUME NEW w \in Workers, SaveEvent(w) PROVE RowTypes'
  BY <1>0, <1>1, <1>3 DEF SaveEvent, Fault, RowTypes
<1>4. ASSUME NEW w \in Workers, Crash(w) PROVE RowTypes'
  BY <1>0, <1>1, <1>4 DEF Crash, RowTypes
<1>5. CASE ~RowStep
  BY <1>0, <1>5, OthersLeaveRows DEF rowVars, RowTypes
<1> QED BY <1>2, <1>3, <1>4, <1>5 DEF RowStep

LEMMA TypeOKStep ==
    ASSUME TypeOK, QueueInv, TaskInv, Next PROVE TypeOK'
<1>1. QueueTypeOK'
  BY QueueInvStep DEF QueueInv
<1> QED BY <1>1, HandlerTypesStep, WorkerTypesStep, RowTypesStep
        DEF TypeOK, HandlerTypes, WorkerTypes, RowTypes

-----------------------------------------------------------------------------
(* A worker gets a lock with the job, and gives both back together. *)
LEMMA TaskInvStep ==
    ASSUME TypeOK, QueueInv, TaskInv, Next PROVE TaskInv'
<1>0. /\ WorkerTypes /\ runs \in [Jobs -> Nat] /\ NoWorker \notin Workers
      /\ lock \in [Jobs -> Workers \cup {NoWorker}]
      /\ \A j \in Jobs : state[j] = "waiting" => lock[j] = NoWorker
  BY QueueAssumption DEF TypeOK, QueueTypeOK, WorkerTypes, QueueInv, LocksAreActive
<1> USE DEF TaskInv, Busy, WorkerTypes
<1>1. ASSUME NEW w \in Workers, TakeInbound(w) PROVE TaskInv'
  BY <1>0, <1>1 DEF TakeInbound, Take
<1>2. ASSUME NEW w \in Workers, FindMailbox(w) \/ SaveEvent(w) PROVE TaskInv'
  BY <1>0, <1>2 DEF FindMailbox, SaveEvent, Goto, queueVars
<1>3. ASSUME NEW w \in Workers, Return(w) PROVE TaskInv'
  <2>1. /\ pc' = [pc EXCEPT ![w] = "idle"] /\ cur' = [cur EXCEPT ![w] = NoJob]
        /\ run' = [run EXCEPT ![w] = 0] /\ runs' = runs
    BY <1>3 DEF Return, Leave, Complete, Conclude, queueVars
  <2>2. \A j \in Jobs : lock'[j] \in {lock[j], NoWorker} /\ lock'[j] # w
    BY <1>0, <1>3 DEF Return, Complete, Conclude, Holds, queueVars, QueueInv,
       LocksAreActive
  <2> QED BY <1>0, <2>1, <2>2
<1>4. ASSUME NEW w \in Workers, Restart(w) PROVE TaskInv'
  BY <1>0, <1>4 DEF Restart, Goto, queueVars
<1>5. ASSUME NEW w \in Workers, LoseLock(w) PROVE TaskInv'
  BY <1>0, <1>5 DEF LoseLock, ExpireLocks, taskVars
<1>6. ASSUME NEW w \in Workers, Crash(w) PROVE TaskInv'
  BY <1>0, <1>6 DEF Crash, ExpireLocks, Leave
<1>7. CASE ~WorkerStep
  BY <1>7, OthersLeaveWorkers DEF taskVars
<1> QED BY <1>1, <1>2, <1>3, <1>4, <1>5, <1>6, <1>7 DEF WorkerStep, Proceed

(* Only an open job is completed, and no attempt of it was counted before. *)
LEMMA AttemptsInvStep ==
    ASSUME TypeOK, QueueInv, TaskInv, AttemptsInv, Next PROVE AttemptsInv'
<1>1. ASSUME NEW w \in Workers, Return(w) PROVE AttemptsInv'
  <2>1. cur[w] \in Jobs
    BY <1>1 DEF Return, TypeOK, TaskInv, Busy
  <2>2. CASE Holds(w, cur[w]) /\ Conclude(cur[w], "completed")
    <3>1. attemptsMade[cur[w]] < 1
      BY <2>1, <2>2, InboundAssumption
         DEF Holds, QueueInv, LimitsKept, Open, Finished
    <3>2. attemptsMade \in [Jobs -> Nat]
      BY DEF TypeOK, QueueTypeOK
    <3>3. attemptsMade' = [attemptsMade EXCEPT ![cur[w]] = @ + 1]
      BY <2>2 DEF Conclude
    <3> QED BY <2>1, <3>1, <3>2, <3>3 DEF AttemptsInv
  <2>3. CASE UNCHANGED queueVars
    BY <2>3 DEF queueVars, AttemptsInv
  <2> QED BY <1>1, <2>2, <2>3 DEF Return, Complete
<1>2. ASSUME NEW w \in Workers,
             \/ TakeInbound(w) \/ FindMailbox(w) \/ SaveEvent(w) \/ Restart(w)
             \/ LoseLock(w) \/ Crash(w)
      PROVE  AttemptsInv'
  BY <1>2 DEF TakeInbound, Take, FindMailbox, SaveEvent, Restart, LoseLock, Crash,
     ExpireLocks, queueVars, AttemptsInv
<1>3. CASE ~WorkerStep
  BY <1>3, OthersLeaveWorkers DEF AttemptsInv
<1> QED BY <1>1, <1>2, <1>3 DEF WorkerStep, Proceed

-----------------------------------------------------------------------------
(* The verdict is found after the request came and before the job is       *)
(* added, and stays as it is from then on.                                 *)
LEMMA HandlerInvStep ==
    ASSUME TypeOK, TaskInv, HandlerInv, Next PROVE HandlerInv'
<1>0. HandlerTypes /\ state \in [Jobs -> {"none", "waiting", "active", "delayed",
                                          "completed", "failed"}]
  BY DEF TypeOK, QueueTypeOK, HandlerTypes
<1> USE DEF HandlerInv, HandlerTypes
<1>1. ASSUME NEW j \in Jobs, Deliver(j) PROVE HandlerInv'
  <2>1. \A i \in Jobs : Right(i)' = Right(i)
    BY <1>1 DEF Deliver, Right, StatusNow
  <2>2. state' = state /\ verdict' = verdict
    BY <1>1 DEF Deliver, queueVars
  <2>3. CASE /\ handler' = [handler EXCEPT ![j] = "lookup"]
             /\ judged' = [judged EXCEPT ![j] = Right(j)]
             /\ UNCHANGED reply
    BY <1>0, <1>1, <2>1, <2>2, <2>3 DEF Deliver
  <2>4. CASE Answer(j, "over", "refused") /\ UNCHANGED judged
    BY <1>0, <1>1, <2>1, <2>2, <2>4 DEF Deliver, Answer
  <2> QED BY <1>1, <2>3, <2>4 DEF Deliver
<1>2. ASSUME NEW j \in Jobs, LookUp(j) PROVE HandlerInv'
  <2>1. \A i \in Jobs : Right(i)' = Right(i)
    BY <1>2 DEF LookUp, Right, StatusNow
  <2>2. state' = state /\ judged' = judged /\ handler[j] = "lookup"
    BY <1>2 DEF LookUp, queueVars
  <2>3. ASSUME expiry[request[j].mailbox] # "absent" PROVE StatusNow(j) \in judged[j]
    BY <2>2, <2>3 DEF Right
  <2>4. CASE /\ expiry[request[j].mailbox] # "absent"
             /\ verdict' = [verdict EXCEPT ![j] = StatusNow(j)]
             /\ handler' = [handler EXCEPT ![j] = "enqueue"]
             /\ UNCHANGED reply
    BY <1>0, <2>1, <2>2, <2>3, <2>4
  <2>5. CASE Answer(j, "over", "refused") /\ UNCHANGED verdict
    BY <1>0, <2>1, <2>2, <2>5 DEF Answer
  <2> QED BY <1>2, <2>4, <2>5 DEF LookUp
<1>3. ASSUME NEW j \in Jobs, Enqueue(j) PROVE HandlerInv'
  BY <1>0, <1>3 DEF Enqueue, Add, Right, StatusNow
<1>9. ASSUME NEW j \in Jobs, Reply(j) PROVE HandlerInv'
  <2>1. \A i \in Jobs : Right(i)' = Right(i)
    BY <1>9 DEF Reply, Right, StatusNow
  <2> QED BY <1>0, <1>9, <2>1 DEF Reply, Answer, queueVars, Statuses
<1>4. ASSUME NEW j \in Jobs, Abort(j) PROVE HandlerInv'
  BY <1>0, <1>4 DEF Abort, Add, Right, StatusNow, queueVars
<1>5. ASSUME Rejudge, UNCHANGED <<handler, reply, verdict, state>>
      PROVE  HandlerInv'
  <2>1. \A j \in Jobs : judged[j] \subseteq judged'[j]
                        /\ (handler[j] = "lookup" => Right(j)' \subseteq judged'[j])
    BY <1>5 DEF Rejudge
  <2> QED BY <1>0, <1>5, <2>1
<1>6. ASSUME NEW m \in Mailboxes, ExpiryChanges(m) PROVE HandlerInv'
  BY <1>5, <1>6 DEF ExpiryChanges, queueVars
<1>7. ASSUME NEW p \in Endpoints, EnvExpires(p) PROVE HandlerInv'
  BY <1>5, <1>7 DEF EnvExpires, queueVars
<1>8. CASE ~HandlerStep
  BY <1>8, OthersLeaveRequests DEF handlerVars, Right, StatusNow
<1> QED BY <1>1, <1>2, <1>3, <1>4, <1>6, <1>7, <1>8, <1>9 DEF HandlerStep

(* A verdict is not changed any more when there is a row.                  *)
LEMMA RowInvStep ==
    ASSUME TypeOK, QueueInv, TaskInv, HandlerInv, RowInv, Next PROVE RowInv'
<1>1. \A j \in Jobs : runs[j] \in Nat /\ runs'[j] \in Nat /\ runs[j] <= runs'[j]
  <2>0. runs \in [Jobs -> Nat]
    BY DEF TypeOK, QueueTypeOK
  <2>1. ASSUME NEW w \in Workers, TakeInbound(w)
        PROVE  \A j \in Jobs : runs'[j] \in Nat /\ runs[j] <= runs'[j]
    BY <2>0, <2>1 DEF TakeInbound, Take
  <2>2. ASSUME NEW w \in Workers, Proceed(w) \/ LoseLock(w) \/ Crash(w)
        PROVE  runs' = runs
    BY <2>2 DEF Proceed, FindMailbox, SaveEvent, Return, Complete, Conclude, Restart,
       LoseLock, Crash, ExpireLocks, queueVars
  <2>3. CASE ~WorkerStep
    BY <2>0, <2>3, OthersLeaveWorkers
  <2> QED BY <2>0, <2>1, <2>2, <2>3 DEF WorkerStep
<1>2. \A j \in Jobs : runs[j] > 0 => verdict'[j] = verdict[j]
  <2>1. ASSUME NEW j \in Jobs, LookUp(j)
        PROVE  \A i \in Jobs : runs[i] > 0 => verdict'[i] = verdict[i]
    <3>1. runs[j] = 0
      BY <2>1 DEF LookUp, HandlerInv, QueueInv, LimitsKept
    <3>2. verdict \in [Jobs -> Statuses]
      BY DEF TypeOK
    <3> QED BY <2>1, <3>1, <3>2 DEF LookUp
  <2>2. ASSUME NEW j \in Jobs, Deliver(j) \/ Enqueue(j) \/ Reply(j) \/ Abort(j)
        PROVE  verdict' = verdict
    BY <2>2 DEF Deliver, Enqueue, Reply, Abort
  <2>3. ASSUME NEW m \in Mailboxes, ExpiryChanges(m) PROVE verdict' = verdict
    BY <2>3 DEF ExpiryChanges
  <2>4. ASSUME NEW p \in Endpoints, EnvExpires(p) PROVE verdict' = verdict
    BY <2>4 DEF EnvExpires
  <2>5. CASE ~HandlerStep
    BY <2>5, OthersLeaveRequests DEF handlerVars
  <2> QED BY <2>1, <2>2, <2>3, <2>4, <2>5 DEF HandlerStep
<1>3. ASSUME NEW e \in events
      PROVE  e.run >= 1 /\ e.run <= runs'[e.job] /\ e.status = verdict'[e.job]
  <2>1. e.job \in Jobs /\ e.run \in Nat
    BY <1>3 DEF TypeOK, Rows
  <2>2. e.run >= 1 /\ e.run <= runs[e.job] /\ e.status = verdict[e.job]
    BY DEF RowInv
  <2> QED BY <1>1, <1>2, <2>1, <2>2
<1>4. ASSUME NEW w \in Workers, pc[w] = "save"
      PROVE  /\ Row(w).run >= 1 /\ Row(w).run <= runs'[Row(w).job]
             /\ Row(w).status = verdict'[Row(w).job]
  <2>1. /\ cur[w] \in Jobs /\ run[w] \in Nat
        /\ run[w] >= 1 /\ run[w] <= runs[cur[w]]
    BY <1>4 DEF TaskInv, Busy, TypeOK
  <2> QED BY <1>1, <1>2, <2>1 DEF Row
<1>5. ASSUME NEW w \in Workers, FindMailbox(w) \/ SaveEvent(w) \/ Crash(w)
      PROVE  events' = events \/ (pc[w] = "save" /\ events' = events \cup {Row(w)})
  BY <1>5 DEF FindMailbox, SaveEvent, Crash
<1>6. CASE ~RowStep
  BY <1>3, <1>6, OthersLeaveRows DEF rowVars, RowInv
<1> QED BY <1>3, <1>4, <1>5, <1>6 DEF RowStep, RowInv

(* Rows are never removed, and failed calls are not forgotten.             *)
LEMMA LossInvStep ==
    ASSUME TypeOK, TaskInv, LossInv, Next PROVE LossInv'
<1> DEFINE Excused(j) == RowsOf(j) # {} \/ faults[j] > 0
<1>0. WorkerTypes /\ RowTypes
      /\ state \in [Jobs -> {"none", "waiting", "active", "delayed",
                             "completed", "failed"}]
  BY DEF TypeOK, QueueTypeOK, WorkerTypes, RowTypes
<1>1. ASSUME NEW w \in Workers, pc[w] \notin {"idle", "down"} PROVE cur[w] \in Jobs
  BY <1>1 DEF TaskInv, Busy
<1>2. \A j \in Jobs : Excused(j) => Excused(j)'
  <2>1. ASSUME NEW w \in Workers, FindMailbox(w) \/ SaveEvent(w) \/ Crash(w)
        PROVE  /\ events \subseteq events'
               /\ faults' = faults \/ (cur[w] \in Jobs /\ Fault(cur[w]))
    BY <1>1, <2>1 DEF FindMailbox, SaveEvent, Crash
  <2>2. CASE ~RowStep
    BY <2>2, OthersLeaveRows DEF rowVars, RowsOf
  <2> QED BY <1>0, <2>1, <2>2 DEF RowStep, RowsOf, Fault, RowTypes
<1>3. ASSUME NEW w \in Workers, FindMailbox(w) \/ SaveEvent(w),
             pc'[w] = "return"
      PROVE  Excused(cur[w])'
  <2>1. cur[w] \in Jobs /\ cur'[w] = cur[w]
    BY <1>1, <1>3 DEF FindMailbox, SaveEvent, Goto
  <2>2. CASE Fault(cur[w])
    BY <1>0, <2>1, <2>2 DEF Fault, RowTypes
  <2>3. CASE SaveEvent(w) /\ Row(w) \in events'
    BY <2>1, <2>3 DEF RowsOf, Row, SaveEvent, queueVars, handlerVars
  <2> QED BY <1>0, <1>3, <2>2, <2>3
          DEF FindMailbox, SaveEvent, Goto, WorkerTypes
<1>4. ASSUME NEW v \in Workers, pc'[v] = "return" PROVE Excused(cur[v])'
  <2>1. CASE pc[v] = "return" /\ cur'[v] = cur[v]
    BY <1>1, <1>2, <2>1 DEF LossInv
  <2>2. ASSUME NEW w \in Workers, FindMailbox(w) \/ SaveEvent(w), w # v
        PROVE  pc[v] = "return" /\ cur'[v] = cur[v]
    BY <1>0, <1>4, <2>2 DEF FindMailbox, SaveEvent, Goto, WorkerTypes
  <2>3. ASSUME NEW w \in Workers,
               TakeInbound(w) \/ Return(w) \/ Restart(w) \/ LoseLock(w) \/ Crash(w)
        PROVE  pc[v] = "return" /\ cur'[v] = cur[v]
    BY <1>0, <1>4, <2>3 DEF TakeInbound, Return, Restart, LoseLock, Crash, Goto,
       Leave, taskVars, WorkerTypes
  <2>4. CASE ~WorkerStep
    BY <1>4, <2>1, <2>4, OthersLeaveWorkers DEF taskVars
  <2>5. ASSUME FindMailbox(v) \/ SaveEvent(v)
        PROVE  Excused(cur[v])'
    <3>1. cur'[v] = cur[v]
      BY <2>5 DEF FindMailbox, SaveEvent, Goto
    <3> QED BY <1>3, <1>4, <2>5, <3>1
  <2> QED BY <2>1, <2>2, <2>3, <2>4, <2>5 DEF WorkerStep, Proceed
<1>5. ASSUME NEW j \in Jobs, state'[j] = "completed" PROVE Excused(j)'
  <2>1. CASE state[j] = "completed"
    BY <1>2, <2>1 DEF LossInv, LossNeedsFault, TypeOK, QueueTypeOK
  <2>2. ASSUME state[j] # "completed"
        PROVE  \E w \in Workers : Return(w) /\ cur[w] = j
    <3> USE <1>0, <1>5, <2>2
    <3>1. ASSUME NEW i \in Jobs,
                 Deliver(i) \/ LookUp(i) \/ Enqueue(i) \/ Reply(i) \/ Abort(i)
          PROVE  FALSE
      BY <3>1 DEF Deliver, LookUp, Enqueue, Reply, Abort, Add, queueVars
    <3>2. ASSUME NEW w \in Workers,
                 \/ TakeInbound(w) \/ DiscardInbound(w) \/ FindMailbox(w)
                 \/ SaveEvent(w) \/ Restart(w) \/ LoseLock(w) \/ Crash(w)
          PROVE  FALSE
      BY <3>2 DEF TakeInbound, Take, DiscardInbound, Discard, FindMailbox, SaveEvent,
         Restart, LoseLock, Crash, ExpireLocks, queueVars
    <3>3. ASSUME NEW w \in Workers, Return(w) PROVE cur[w] = j
      BY <1>1, <3>3 DEF Return, Complete, Conclude, queueVars
    <3>4. ~StallInbound
      BY DEF StallInbound, Stall
    <3>5. ASSUME NEW m \in Mailboxes, ExpiryChanges(m) PROVE FALSE
      BY <3>5 DEF ExpiryChanges, queueVars
    <3>6. ASSUME NEW p \in Endpoints, EnvExpires(p) PROVE FALSE
      BY <3>6 DEF EnvExpires, queueVars
    <3> QED BY <3>1, <3>2, <3>3, <3>4, <3>5, <3>6 DEF Next, Fetch, Proceed
  <2>3. ASSUME NEW w \in Workers, Return(w), cur[w] = j PROVE Excused(j)
    BY <2>3 DEF Return, LossInv
  <2> QED BY <1>2, <2>1, <2>2, <2>3
<1>6. ASSUME NEW j \in Jobs, Excused(j)', RowsOf(j)' = {} PROVE faults'[j] > 0
  BY <1>6
<1> QED BY <1>4, <1>5, <1>6 DEF LossInv, LossNeedsFault

(* A job fails when it is discarded, and stalls are not forgotten. *)
LEMMA FailedInvStep ==
    ASSUME TypeOK, TaskInv, FailedInv, Next PROVE FailedInv'
<1>0. /\ state \in [Jobs -> {"none", "waiting", "active", "delayed",
                              "completed", "failed"}]
      /\ stalledCount \in [Jobs -> Nat] /\ MaxStalledCount \in Nat
  BY QueueAssumption DEF TypeOK, QueueTypeOK
<1> USE DEF FailedInv
<1>1. ASSUME NEW j \in Jobs,
             Deliver(j) \/ LookUp(j) \/ Enqueue(j) \/ Reply(j) \/ Abort(j)
      PROVE  FailedInv'
  BY <1>0, <1>1 DEF Deliver, LookUp, Enqueue, Reply, Abort, Add, queueVars
<1>2. ASSUME NEW w \in Workers, TakeInbound(w) \/ DiscardInbound(w)
      PROVE  FailedInv'
  BY <1>0, <1>2 DEF TakeInbound, Take, DiscardInbound, Discard
<1>3. ASSUME NEW w \in Workers, FindMailbox(w) \/ SaveEvent(w) \/ Restart(w)
      PROVE  FailedInv'
  BY <1>3 DEF FindMailbox, SaveEvent, Restart, queueVars
<1>4. ASSUME NEW w \in Workers, Return(w) PROVE FailedInv'
  BY <1>0, <1>4 DEF Return, Complete, Conclude, queueVars
<1>5. ASSUME NEW w \in Workers, LoseLock(w) \/ Crash(w) PROVE FailedInv'
  BY <1>5 DEF LoseLock, Crash, ExpireLocks
<1>6. CASE StallInbound
  BY <1>0, <1>6 DEF StallInbound, Stall
<1>7. ASSUME NEW m \in Mailboxes, ExpiryChanges(m) PROVE FailedInv'
  BY <1>7 DEF ExpiryChanges, queueVars
<1>8. ASSUME NEW p \in Endpoints, EnvExpires(p) PROVE FailedInv'
  BY <1>8 DEF EnvExpires, queueVars
<1> QED BY <1>1, <1>2, <1>3, <1>4, <1>5, <1>6, <1>7, <1>8 DEF Next, Fetch, Proceed

-----------------------------------------------------------------------------
LEMMA StutterInv == Inv /\ UNCHANGED vars => Inv'
<1> SUFFICES ASSUME Inv, UNCHANGED vars PROVE Inv'
  OBVIOUS
<1> USE DEF vars, handlerVars, taskVars, rowVars, Inv
<1>1. QueueInv'
  BY QueueStutterInv
<1>2. TypeOK'
  BY <1>1 DEF QueueInv, TypeOK
<1>3. TaskInv' /\ AttemptsInv' /\ RowInv'
  BY DEF queueVars, TaskInv, Busy, AttemptsInv, RowInv
<1>4. HandlerInv'
  BY DEF queueVars, HandlerInv, Right, StatusNow
<1>5. LossInv' /\ FailedInv'
  BY DEF queueVars, LossInv, LossNeedsFault, RowsOf, FailedInv
<1> QED BY <1>1, <1>2, <1>3, <1>4, <1>5

(* The invariant holds in every reachable state. *)
THEOREM Invariance == Spec => []Inv
<1>1. Inv /\ [Next]_vars => Inv'
  <2>1. Inv /\ Next => Inv'
    BY TypeOKStep, QueueInvStep, TaskInvStep, AttemptsInvStep, HandlerInvStep,
       RowInvStep, LossInvStep, FailedInvStep DEF Inv
  <2> QED BY <2>1, StutterInv
<1> QED BY <1>1, InitInv, PTL DEF Spec

(* A notification that left no row met a failed call of the database.      *)
THEOREM LossesNeedFaults == Spec => []LossNeedsFault
<1>1. Inv => LossNeedsFault
  BY DEF Inv, LossInv
<1> QED BY <1>1, Invariance, PTL

(* A row's status is the verdict the handler found, which was right then,  *)
(* and the one that was answered, however late or often the job ran.       *)
THEOREM RowsAgreeWithReplies == Spec => []RowAgreesWithReply
<1>1. Inv => RowAgreesWithReply
  <2> SUFFICES ASSUME Inv, NEW e \in events
               PROVE  /\ e.status \in judged[e.job]
                      /\ reply[e.job] # "none" =>
                           (e.status = "ok" <=> reply[e.job] = "success")
    BY DEF RowAgreesWithReply
  <2>1. e.job \in Jobs /\ e.status = verdict[e.job] /\ e.run >= 1
        /\ e.run <= runs[e.job] /\ e.run \in Nat
    BY DEF Inv, TypeOK, Rows, RowInv
  <2>2. state[e.job] # "none"
    BY <2>1 DEF Inv, QueueInv, QueueTypeOK, LimitsKept
  <2> QED BY <2>1, <2>2 DEF Inv, HandlerInv, TypeOK
<1> QED BY <1>1, Invariance, PTL

(* A notification whose sender was answered is in the queue, or its row    *)
(* agrees with the answer, or a failed call or too many stalls took it.    *)
THEOREM AcknowledgedAreKept == Spec => []AcknowledgedIsKept
<1>1. Inv => AcknowledgedIsKept
  <2> SUFFICES ASSUME Inv, NEW j \in Jobs,
                      reply[j] \in {"success", "token expired"}
               PROVE  \/ state[j] # "none" /\ ~Finished(j)
                      \/ \E e \in RowsOf(j) :
                            e.status = "ok" <=> reply[j] = "success"
                      \/ faults[j] > 0
                      \/ stalledCount[j] > MaxStalledCount
    BY DEF AcknowledgedIsKept
  <2>1. state[j] # "none" /\ (verdict[j] = "ok" <=> reply[j] = "success")
    BY DEF Inv, HandlerInv
  <2>2. CASE state[j] = "completed" /\ RowsOf(j) # {}
    <3>1. PICK e \in RowsOf(j) : TRUE
      BY <2>2
    <3>2. e \in events /\ e.job = j
      BY <3>1 DEF RowsOf
    <3>3. e.status = verdict[j]
      BY <3>2 DEF Inv, RowInv
    <3> QED BY <2>1, <3>1, <3>3
  <2>3. CASE state[j] = "completed" /\ RowsOf(j) = {}
    BY <2>3 DEF Inv, LossInv, LossNeedsFault
  <2>4. CASE state[j] = "failed"
    BY <2>4 DEF Inv, FailedInv
  <2> QED BY <2>1, <2>2, <2>3, <2>4 DEF Finished
<1> QED BY <1>1, Invariance, PTL

(* Different rows of a job are of different calls. *)
LEMMA RowsAreOfCalls ==
    ASSUME TypeOK, RowInv, NEW j \in Jobs
    PROVE  /\ IsFiniteSet(RowsOf(j)) /\ Cardinality(RowsOf(j)) \in Nat
           /\ Cardinality(RowsOf(j)) <= runs[j]
<1> DEFINE call == [e \in RowsOf(j) |-> e.run]
<1>1. runs[j] \in Nat
  BY DEF TypeOK, QueueTypeOK
<1>2. IsFiniteSet(1 .. runs[j]) /\ Cardinality(1 .. runs[j]) = runs[j]
  BY <1>1, FS_Interval
<1>3. \A e \in RowsOf(j) :
         /\ e.run \in Nat /\ e.run >= 1 /\ e.run <= runs[j]
         /\ e = [job |-> j, run |-> e.run, status |-> verdict[j]]
  <2> SUFFICES ASSUME NEW e \in RowsOf(j)
               PROVE  /\ e.run \in Nat /\ e.run >= 1 /\ e.run <= runs[j]
                      /\ e = [job |-> j, run |-> e.run, status |-> verdict[j]]
    OBVIOUS
  <2>1. e \in events /\ e.job = j
    BY DEF RowsOf
  <2>2. e.run \in Nat /\ e = [job |-> e.job, run |-> e.run, status |-> e.status]
    BY <2>1 DEF TypeOK, Rows
  <2> QED BY <2>1, <2>2 DEF RowInv
<1>4. \A d, e \in RowsOf(j) : d.run = e.run => d = e
  BY <1>3
<1>5. call \in Injection(RowsOf(j), 1 .. runs[j])
  <2>1. call \in [RowsOf(j) -> 1 .. runs[j]]
    BY <1>1, <1>3
  <2> QED BY <1>4, <2>1 DEF Injection, IsInjective
<1>6. IsFiniteSet(RowsOf(j)) /\ Cardinality(RowsOf(j)) <= runs[j]
  BY <1>2, <1>5, FS_Injection
<1> QED BY <1>6, FS_CardinalityType

(* A job's rows are no more than the calls the stall limit allows, and a   *)
(* second one needs a stall: nothing else makes BullMQ call process again. *)
THEOREM RowsAreBounded == Spec => []RowsBounded
<1>1. Inv => RowsBounded
  <2> SUFFICES ASSUME Inv, NEW j \in Jobs
               PROVE  /\ Cardinality(RowsOf(j)) <= MaxRuns
                      /\ Cardinality(RowsOf(j)) > 1 => stalledCount[j] > 0
    BY DEF RowsBounded
  <2>1. Cardinality(RowsOf(j)) \in Nat /\ Cardinality(RowsOf(j)) <= runs[j]
    BY RowsAreOfCalls DEF Inv
  <2>2. runs[j] \in Nat /\ runs[j] <= MaxRuns
    BY DEF Inv, QueueInv, QueueTypeOK, LimitsKept
  <2>3. runs[j] <= 1 + stalledCount[j]
    BY InboundAssumption DEF Inv, QueueInv, QueueTypeOK, Accounting, LimitsKept,
       Open, Finished, AttemptsInv
  <2>4. MaxRuns \in Nat /\ stalledCount[j] \in Nat
    BY QueueAssumption DEF MaxRuns, Inv, QueueInv, QueueTypeOK
  <2> QED BY <2>1, <2>2, <2>3, <2>4
<1> QED BY <1>1, Invariance, PTL

=============================================================================
