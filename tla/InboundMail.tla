----------------------------- MODULE InboundMail -----------------------------
(***************************************************************************)
(* Receiving notifications: the webhook handlers of WebhooksController     *)
(* look the mailbox up, judge its token and queue a job with the verdict;  *)
(* WorkerService.process turns the job into a row of table event.  No      *)
(* attempts option is given, so a job has one attempt, and process logs    *)
(* whatever is thrown in it: BullMQ sees every run that ends as a success. *)
(***************************************************************************)
EXTENDS JobQueue, FiniteSets

CONSTANTS
    Mailboxes,   \* ids of mailboxes
    Endpoints,   \* the two handlers, /webhook/gmail and /webhook/microsoft
    NoJob,       \* what a worker without a job works on
    MaxFaults    \* bound: database calls that fail, per delivery

(* A delivery of a notification is a request; the job it may add to the    *)
(* queue has its name.                                                     *)
ASSUME InboundAssumption ==
    /\ NoJob \notin Jobs
    /\ MaxAttempts = 1
    /\ MaxFaults \in Nat

VARIABLES
    expiry,     \* per mailbox: no row, or what its tokenExpiresAt is
    envExpiry,  \* per endpoint: GMAIL_TOKEN_EXPIRY or OUTLOOK_TOKEN_EXPIRY
    request,    \* per delivery: its endpoint and mailbox
    handler,    \* where the handler of each delivery is
    verdict,    \* the status it found for the job
    reply,      \* what it answered
    pc,         \* where each worker is in process
    cur,        \* the job it was called with
    run,        \* which call for that job this is
    events,     \* the rows process stored
    announced,  \* the rows it went on to emit
    faults,     \* per delivery: database calls that failed in process
    judged      \* per delivery: the verdicts that were right since it came

handlerVars == <<request, handler, verdict, reply, judged>>
taskVars == <<pc, cur, run>>
rowVars == <<events, announced, faults>>
vars == <<queueVars, expiry, envExpiry, handlerVars, taskVars, rowVars>>

Expiries == {"absent", "unset", "future", "past"}
Statuses == {"ok", "fail"}
Rows == [job : Jobs, run : Nat, status : Statuses]
Requests == [endpoint : Endpoints, mailbox : Mailboxes]

TypeOK ==
    /\ QueueTypeOK
    /\ expiry \in [Mailboxes -> Expiries]
    /\ envExpiry \in [Endpoints -> Expiries \ {"absent"}]
    /\ request \in [Jobs -> Requests]
    /\ handler \in [Jobs -> {"none", "lookup", "enqueue", "reply", "over"}]
    /\ verdict \in [Jobs -> Statuses]
    /\ reply \in [Jobs -> {"none", "success", "token expired", "refused"}]
    /\ pc \in [Workers -> {"idle", "find", "save", "return", "down"}]
    /\ cur \in [Workers -> Jobs \cup {NoJob}]
    /\ run \in [Workers -> Nat]
    /\ events \subseteq Rows
    /\ announced \subseteq events
    /\ faults \in [Jobs -> Nat]
    /\ judged \in [Jobs -> SUBSET Statuses]

Init ==
    /\ QueueInit
    /\ expiry \in [Mailboxes -> Expiries]
    /\ envExpiry \in [Endpoints -> Expiries \ {"absent"}]
    /\ request \in [Jobs -> Requests]
    /\ handler = [j \in Jobs |-> "none"]
    /\ verdict = [j \in Jobs |-> "ok"]
    /\ reply = [j \in Jobs |-> "none"]
    /\ pc = [w \in Workers |-> "idle"]
    /\ cur = [w \in Workers |-> NoJob]
    /\ run = [w \in Workers |-> 0]
    /\ events = {} /\ announced = {}
    /\ faults = [j \in Jobs |-> 0]
    /\ judged = [j \in Jobs |-> {}]

Alive == \E w \in Workers : pc[w] # "down"
RowsOf(j) == {e \in events : e.job = j}

-----------------------------------------------------------------------------
(* The row's own expiry decides; the environment's stands in for a row     *)
(* without one.                                                            *)
IsExpired(own, env) == own = "past" \/ (own = "unset" /\ env = "past")

StatusNow(j) ==
    IF IsExpired(expiry[request[j].mailbox], envExpiry[request[j].endpoint])
    THEN "fail" ELSE "ok"

Right(j) ==
    IF expiry[request[j].mailbox] = "absent" THEN {} ELSE {StatusNow(j)}

Answer(j, where, text) ==
    /\ handler' = [handler EXCEPT ![j] = where]
    /\ reply' = [reply EXCEPT ![j] = text]

(* POST /webhook/...: a wrong secret or a missing mailboxId is refused at  *)
(* once, anything else is looked up.                                       *)
Deliver(j) ==
    /\ handler[j] = "none"
    /\ \/ /\ handler' = [handler EXCEPT ![j] = "lookup"]
          /\ judged' = [judged EXCEPT ![j] = Right(j)]
          /\ UNCHANGED reply
       \/ Answer(j, "over", "refused") /\ UNCHANGED judged
    /\ UNCHANGED <<queueVars, expiry, envExpiry, request, verdict, taskVars,
                   rowVars>>

LookUp(j) ==
    /\ handler[j] = "lookup"
    /\ \/ /\ expiry[request[j].mailbox] # "absent"
          /\ verdict' = [verdict EXCEPT ![j] = StatusNow(j)]
          /\ handler' = [handler EXCEPT ![j] = "enqueue"]
          /\ UNCHANGED reply
       \/ /\ expiry[request[j].mailbox] = "absent"
          /\ Answer(j, "over", "refused")
          /\ UNCHANGED verdict
    /\ UNCHANGED <<queueVars, expiry, envExpiry, request, judged, taskVars,
                   rowVars>>

(* Mutant: the reply does not wait for enqueueInbound. *)
Enqueue_NotAwaited(j) ==
    /\ handler[j] = "enqueue"
    /\ Add(j) \/ UNCHANGED queueVars
    /\ handler' = [handler EXCEPT ![j] = "reply"]
    /\ UNCHANGED <<expiry, envExpiry, request, verdict, reply, judged,
                   taskVars, rowVars>>

(* enqueueInbound: Redis has the job, the handler still awaits the answer. *)
Enqueue(j) ==
    /\ handler[j] = "enqueue"
    /\ Add(j)
    /\ handler' = [handler EXCEPT ![j] = "reply"]
    /\ UNCHANGED <<expiry, envExpiry, request, verdict, reply, judged,
                   taskVars, rowVars>>

(* The handler goes on behind the await; workers may be done by then.      *)
Reply(j) ==
    /\ handler[j] = "reply"
    /\ Answer(j, "over", IF verdict[j] = "ok" THEN "success"
                                              ELSE "token expired")
    /\ UNCHANGED <<queueVars, expiry, envExpiry, request, verdict, judged,
                   taskVars, rowVars>>

(* The request dies with its process or its connection, or the call it     *)
(* awaits fails; a job it was adding may be in Redis nevertheless.         *)
Abort(j) ==
    /\ handler[j] \in {"lookup", "enqueue", "reply"}
    /\ handler' = [handler EXCEPT ![j] = "over"]
    /\ \/ UNCHANGED queueVars
       \/ handler[j] = "enqueue" /\ Add(j)
    /\ UNCHANGED <<expiry, envExpiry, request, verdict, reply, judged,
                   taskVars, rowVars>>

-----------------------------------------------------------------------------
Busy(w) == pc[w] \notin {"idle", "down"}

Goto(w, where) ==
    /\ pc' = [pc EXCEPT ![w] = where]
    /\ UNCHANGED <<cur, run>>

Leave(w, where) ==
    /\ pc' = [pc EXCEPT ![w] = where]
    /\ cur' = [cur EXCEPT ![w] = NoJob]
    /\ run' = [run EXCEPT ![w] = 0]

Fault(j) ==
    /\ faults[j] < MaxFaults
    /\ faults' = [faults EXCEPT ![j] = @ + 1]

TakeInbound(w) ==
    \E j \in Jobs :
        /\ pc[w] = "idle"
        /\ Take(w, j)
        /\ pc' = [pc EXCEPT ![w] = "find"]
        /\ cur' = [cur EXCEPT ![w] = j]
        /\ run' = [run EXCEPT ![w] = runs'[j]]
        /\ UNCHANGED <<expiry, envExpiry, handlerVars, rowVars>>

DiscardInbound(w) ==
    \E j \in Jobs :
        /\ pc[w] = "idle"
        /\ Discard(j)
        /\ UNCHANGED <<expiry, envExpiry, handlerVars, taskVars, rowVars>>

(* Mutant: a mailbox without a usable token is not worth a row. *)
FindMailbox_SkipsExpired(w) ==
    /\ pc[w] = "find"
    /\ Goto(w, IF StatusNow(cur[w]) = "fail" THEN "return" ELSE "save")
    /\ UNCHANGED <<queueVars, expiry, envExpiry, handlerVars, rowVars>>

(* mailboxes.findOne inside the try block: nothing of the row decides. *)
FindMailbox(w) ==
    /\ pc[w] = "find"
    /\ \/ Goto(w, "save") /\ UNCHANGED faults
       \/ Fault(cur[w]) /\ Goto(w, "return")
    /\ UNCHANGED <<queueVars, expiry, envExpiry, handlerVars, events, announced>>

(* Mutant: the verdict is passed again when the row is made. *)
Row_JudgedAgain(w) ==
    [job |-> cur[w], run |-> run[w], status |-> StatusNow(cur[w])]

Row(w) == [job |-> cur[w], run |-> run[w], status |-> verdict[cur[w]]]

(* createNormalized inside the try block; the catch block only logs. *)
SaveEvent(w) ==
    /\ pc[w] = "save"
    /\ \/ /\ events' = events \cup {Row(w)}
          /\ announced' = announced \cup {Row(w)}
          /\ UNCHANGED faults
       \/ /\ Fault(cur[w])
          /\ events' \in {events, events \cup {Row(w)}}
          /\ UNCHANGED announced
    /\ Goto(w, "return")
    /\ UNCHANGED <<queueVars, expiry, envExpiry, handlerVars>>

(* Mutant: a notification that met a failed call is queued once more. *)
Return_Requeues(w) ==
    /\ pc[w] = "return"
    /\ \/ /\ faults[cur[w]] > 0 /\ Holds(w, cur[w])
          /\ state' = [state EXCEPT ![cur[w]] = "waiting"]
          /\ lock' = [lock EXCEPT ![cur[w]] = NoWorker]
          /\ UNCHANGED <<runs, attemptsMade, stalledCount>>
       \/ faults[cur[w]] = 0 /\ Complete(w, cur[w])
    /\ Leave(w, "idle")
    /\ UNCHANGED <<expiry, envExpiry, handlerVars, rowVars>>

Return(w) ==
    /\ pc[w] = "return"
    /\ Complete(w, cur[w])
    /\ Leave(w, "idle")
    /\ UNCHANGED <<expiry, envExpiry, handlerVars, rowVars>>

-----------------------------------------------------------------------------
StallInbound == \E j \in Jobs :
    /\ Alive
    /\ Stall(j)
    /\ UNCHANGED <<expiry, envExpiry, handlerVars, taskVars, rowVars>>

LoseLock(w) ==
    /\ Busy(w)
    /\ Holds(w, cur[w])
    /\ ExpireLocks(w)
    /\ UNCHANGED <<expiry, envExpiry, handlerVars, taskVars, rowVars>>

(* Mutant: the lock of a dead process never expires. *)
Crash_KeepsLock(w) ==
    /\ pc[w] # "down"
    /\ Leave(w, "down")
    /\ UNCHANGED <<queueVars, expiry, envExpiry, handlerVars, rowVars>>

Crash(w) ==
    /\ pc[w] # "down"
    /\ \/ UNCHANGED events
       \/ pc[w] = "save" /\ events' = events \cup {Row(w)}
    /\ ExpireLocks(w)
    /\ Leave(w, "down")
    /\ UNCHANGED <<expiry, envExpiry, handlerVars, announced, faults>>

Restart(w) ==
    /\ pc[w] = "down"
    /\ Goto(w, "idle")
    /\ UNCHANGED <<queueVars, expiry, envExpiry, handlerVars, rowVars>>

(* What is right for the deliveries still being handled, in the next state.*)
Rejudge ==
    judged' = [j \in Jobs |-> IF handler[j] = "lookup"
                              THEN judged[j] \cup Right(j)'
                              ELSE judged[j]]

(* saveTokens and refreshTokenExpiry write tokenExpiresAt, time passes it. *)
ExpiryChanges(m) ==
    \E x \in Expiries \ {"absent", expiry[m]} :
        /\ expiry' = [expiry EXCEPT ![m] = x]
        /\ UNCHANGED <<queueVars, envExpiry, request, handler, verdict, reply,
                       taskVars, rowVars>>
        /\ Rejudge

(* The expiry in the environment passes. *)
EnvExpires(p) ==
    /\ envExpiry[p] = "future"
    /\ envExpiry' = [envExpiry EXCEPT ![p] = "past"]
    /\ UNCHANGED <<queueVars, expiry, request, handler, verdict, reply,
                   taskVars, rowVars>>
    /\ Rejudge

Fetch(w) == TakeInbound(w) \/ DiscardInbound(w)

Proceed(w) ==
    FindMailbox(w) \/ SaveEvent(w) \/ Return(w) \/ Restart(w)

Next ==
    \/ \E j \in Jobs :
          Deliver(j) \/ LookUp(j) \/ Enqueue(j) \/ Reply(j) \/ Abort(j)
    \/ \E w \in Workers : Fetch(w) \/ Proceed(w) \/ LoseLock(w) \/ Crash(w)
    \/ StallInbound
    \/ \E m \in Mailboxes : ExpiryChanges(m)
    \/ \E p \in Endpoints : EnvExpires(p)

Spec == Init /\ [][Next]_vars

(* As in OutboundMail. *)
Fairness ==
    /\ \A w \in Workers : WF_vars(Proceed(w)) /\ SF_vars(Fetch(w))
    /\ SF_vars(StallInbound)

FairSpec == Spec /\ Fairness

-----------------------------------------------------------------------------
(* From the moment the sender of a notification is answered "success" or   *)
(* "token expired", the notification is in the queue, or has left a row    *)
(* that says the same, or was lost to a failed call or to stalls: the      *)
(* sender forgets it, and no step of the handler and the workers may.      *)
AcknowledgedIsKept ==
    \A j \in Jobs :
        reply[j] \in {"success", "token expired"} =>
            \/ state[j] # "none" /\ ~Finished(j)
            \/ \E e \in RowsOf(j) : e.status = "ok" <=> reply[j] = "success"
            \/ faults[j] > 0
            \/ stalledCount[j] > MaxStalledCount

(* A notification whose job completed without a row met a failed call in   *)
(* the one run that reported: nothing else makes process return without    *)
(* having stored it.                                                       *)
LossNeedsFault ==
    \A j \in Jobs :
        state[j] = "completed" /\ RowsOf(j) = {} => faults[j] > 0

(* A run stores at most one row, so a second one needs a stall, and there  *)
(* are never more than the runs the stall limit allows.                    *)
RowsBounded ==
    \A j \in Jobs :
        /\ Cardinality(RowsOf(j)) <= MaxRuns
        /\ Cardinality(RowsOf(j)) > 1 => stalledCount[j] > 0

(* However long the job waited and whatever run stored it, the row carries *)
(* a verdict that was right while the request was being handled, and the   *)
(* one its sender was answered with.                                       *)
RowAgreesWithReply ==
    \A e \in events :
        /\ e.status \in judged[e.job]
        /\ reply[e.job] # "none" =>
             (e.status = "ok" <=> reply[e.job] = "success")

(* Every queued notification is completed or failed for good. *)
Settles == \A j \in Jobs : state[j] = "waiting" ~> Finished(j)

=============================================================================
