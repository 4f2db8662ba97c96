------------------------- MODULE OutboundMailProofs -------------------------
(***************************************************************************)
(* The safety of OutboundMail for every set of jobs, workers and mailboxes,*)
(* every retry and stall limit and any number of failed calls.  Each part  *)
(* of the inductive invariant Inv is preserved by every action, given the  *)
(* parts its lemma names.                                                  *)
(***************************************************************************)
EXTENDS OutboundMail, JobQueueProofs, FiniteSetTheorems

(* The empty system satisfies the invariant. *)
LEMMA InitInv == Init => Inv
<1> SUFFICES ASSUME Init PROVE Inv
  OBVIOUS
<1> USE MailAssumption DEF Init
<1>1. QueueInv
  BY QueueInitInv
<1>2. TypeOK
  BY <1>1 DEF QueueInv, TypeOK, Tokens, Clauses, Rows
<1>3. TaskInv
  BY QueueAssumption DEF QueueInit, TaskInv, Busy
<1>4. RowInv /\ RecordInv /\ UnannouncedNeedsCause
  BY DEF QueueInit, RowInv, RecordInv, CompletedIsRecorded,
         UnannouncedNeedsCause
<1>5. FaultInv
  BY DEF QueueInit, FaultInv, SeenInv, AttemptsNeedFaults, ThrowNeedsFault,
         FailureNeedsFaults
<1>6. CalmInv
  BY DEF QueueInit, CalmInv
<1>7. StatusInv
  BY DEF QueueInit, StatusInv, SeenInv, VerdictInv, StatusJustified
<1>8. ASSUME NEW j \in Jobs PROVE RowsOf(j) = {} /\ Runners(j) = {}
  BY DEF RowsOf, Runners
<1>9. CauseInv
  <2>1. Cardinality({}) = 0
    BY FS_EmptySet
  <2>2. ASSUME NEW j \in Jobs
        PROVE  Cardinality(RowsOf(j)) + Cardinality(Runners(j)) + Due(j)
                 <= 1 + faults[j] + stalledCount[j]
    <3>1. Due(j) = 1 /\ faults[j] = 0 /\ stalledCount[j] = 0
      BY DEF QueueInit, Due
    <3>2. Cardinality(RowsOf(j)) = 0 /\ Cardinality(Runners(j)) = 0
      BY <1>8, <2>1
    <3> QED BY <3>1, <3>2
  <2> QED BY <2>2 DEF CauseInv
<1> QED BY <1>1, <1>2, <1>3, <1>4, <1>5, <1>6, <1>7, <1>9 DEF Inv

(* Whatever becomes of an INSERT, a call it lets return has left a row. *)
LEMMA CreateNormalizedRecords ==
    ASSUME TypeOK, TaskInv, RecordInv,
           NEW w \in Workers, NEW clause \in Clauses, pc[w] = clause,
           NEW failed \in {"catch", "throw"},
           CreateNormalized(w, clause, failed)
    PROVE  RecordInv'
<1>1. \A j \in Jobs : RowsOf(j) \subseteq RowsOf(j)'
  BY DEF CreateNormalized, RowsOf, rowVars
<1>2. state' = state /\ cur' = cur
  BY DEF CreateNormalized, Goto, queueVars
<1>3. ASSUME pc'[w] = "return" PROVE RowsOf(cur[w])' # {}
  <2>1. Row(w, clause) \in events'
    BY <1>3 DEF CreateNormalized, Goto, TypeOK
  <2> QED BY <2>1, <1>2 DEF RowsOf, Row
<1>4. \A v \in Workers \ {w} : pc'[v] = pc[v]
  BY DEF CreateNormalized, Goto, TypeOK
<1>5. ASSUME NEW v \in Workers, pc'[v] = "return", v # w
      PROVE  RowsOf(cur[v])' # {}
  <2>1. cur[v] \in Jobs /\ RowsOf(cur[v]) # {}
    BY <1>4, <1>5 DEF RecordInv, TypeOK, TaskInv, Busy
  <2> QED BY <2>1, <1>1, <1>2 DEF RowsOf
<1> QED BY <1>1, <1>2, <1>3, <1>5 DEF RecordInv, CompletedIsRecorded

(* Type correctness needs to know that a busy worker has a job.            *)
LEMMA TypeOKStep ==
    ASSUME TypeOK, QueueInv, TaskInv, Next
    PROVE  TypeOK'
<1> USE MailAssumption, QueueAssumption
<1>1. ASSUME NEW j \in Jobs, Send(j) PROVE TypeOK'
  BY <1>1 DEF Send, EnqueueSend, Add, taskVars, rowVars, TypeOK,
     QueueTypeOK, Tokens, Clauses, Rows, TaskInv, Busy
<1>2. ASSUME NEW w \in Workers, TakeSend(w) PROVE TypeOK'
  BY <1>2 DEF TakeSend, Take, rowVars, TypeOK, QueueTypeOK, Tokens, Clauses,
     Rows, TaskInv, Busy
<1>3. ASSUME NEW w \in Workers, DiscardSend(w) PROVE TypeOK'
  BY <1>3 DEF DiscardSend, Discard, taskVars, rowVars, TypeOK, QueueTypeOK,
     Tokens, Clauses, Rows, TaskInv, Busy
<1>4. ASSUME NEW w \in Workers, FindMailbox(w) PROVE TypeOK'
  BY <1>4 DEF FindMailbox, Goto, Fault, CanFault, queueVars, rowVars,
     TypeOK, QueueTypeOK, Tokens, Clauses, Rows, TaskInv, Busy
<1>5. ASSUME NEW w \in Workers, TrySave(w) PROVE TypeOK'
  BY <1>5 DEF TrySave, CreateNormalized, Row, HasMailbox, Goto, Fault,
     CanFault, queueVars, rowVars, TypeOK, QueueTypeOK, Tokens, Clauses,
     Rows, TaskInv, Busy
<1>6. ASSUME NEW w \in Workers, CatchSave(w) PROVE TypeOK'
  BY <1>6 DEF CatchSave, CreateNormalized, Row, HasMailbox, Goto, Fault,
     CanFault, queueVars, rowVars, TypeOK, QueueTypeOK, Tokens, Clauses,
     Rows, TaskInv, Busy
<1>7. ASSUME NEW w \in Workers, Return(w) PROVE TypeOK'
  BY <1>7 DEF Return, Complete, Conclude, Holds, Leave, queueVars, rowVars,
     TypeOK, QueueTypeOK, Tokens, Clauses, Rows, TaskInv, Busy
<1>8. ASSUME NEW w \in Workers, Rethrow(w) PROVE TypeOK'
  BY <1>8 DEF Rethrow, Fail, Conclude, Holds, Leave, queueVars, rowVars,
     TypeOK, QueueTypeOK, Tokens, Clauses, Rows, TaskInv, Busy
<1>9. ASSUME NEW w \in Workers, Restart(w) PROVE TypeOK'
  BY <1>9 DEF Restart, Goto, queueVars, rowVars, TypeOK, QueueTypeOK,
     Tokens, Clauses, Rows, TaskInv, Busy
<1>10. ASSUME NEW w \in Workers, LoseLock(w) PROVE TypeOK'
  BY <1>10 DEF LoseLock, ExpireLocks, taskVars, rowVars, TypeOK,
     QueueTypeOK, Tokens, Clauses, Rows, TaskInv, Busy
<1>11. ASSUME NEW w \in Workers, Crash(w) PROVE TypeOK'
  BY <1>11 DEF Crash, ExpireLocks, Leave, Row, HasMailbox, TypeOK,
     QueueTypeOK, Tokens, Clauses, Rows, TaskInv, Busy
<1>12. ASSUME PromoteSend PROVE TypeOK'
  BY <1>12 DEF PromoteSend, Promote, taskVars, rowVars, TypeOK, QueueTypeOK,
     Tokens, Clauses, Rows, TaskInv, Busy
<1>13. ASSUME StallSend PROVE TypeOK'
  BY <1>13 DEF StallSend, Stall, Holds, taskVars, rowVars, TypeOK,
     QueueTypeOK, Tokens, Clauses, Rows, TaskInv, Busy
<1>14. ASSUME NEW m \in Mailboxes, MailboxChanges(m) PROVE TypeOK'
  BY <1>14 DEF MailboxChanges, queueVars, taskVars, rowVars, TypeOK,
     QueueTypeOK, Tokens, Clauses, Rows, TaskInv, Busy
<1> QED BY <1>1, <1>2, <1>3, <1>4, <1>5, <1>6, <1>7, <1>8, <1>9, <1>10,
    <1>11, <1>12, <1>13, <1>14 DEF Next, Fetch, Proceed

(* Every action leaves the queue alone or performs one operation on it.    *)
LEMMA QueueInvStep ==
    ASSUME TypeOK, QueueInv, TaskInv, Next
    PROVE  QueueInv'
<1> USE MailAssumption, QueueAssumption
<1>1. ASSUME NEW j \in Jobs, Send(j) PROVE QueueInv'
  BY <1>1, AddInv DEF Send, EnqueueSend
<1>2. ASSUME NEW w \in Workers, TakeSend(w) PROVE QueueInv'
  BY <1>2, TakeInv DEF TakeSend
<1>3. ASSUME NEW w \in Workers, DiscardSend(w) PROVE QueueInv'
  BY <1>3, DiscardInv DEF DiscardSend
<1>4. ASSUME NEW w \in Workers, FindMailbox(w) PROVE QueueInv'
  BY <1>4, QueueStutterInv DEF FindMailbox
<1>5. ASSUME NEW w \in Workers, TrySave(w) PROVE QueueInv'
  BY <1>5, QueueStutterInv DEF TrySave, CreateNormalized
<1>6. ASSUME NEW w \in Workers, CatchSave(w) PROVE QueueInv'
  BY <1>6, QueueStutterInv DEF CatchSave, CreateNormalized
<1>7. ASSUME NEW w \in Workers, Return(w) PROVE QueueInv'
  BY <1>7, CompleteInv DEF Return, TypeOK, TaskInv, Busy
<1>8. ASSUME NEW w \in Workers, Rethrow(w) PROVE QueueInv'
  BY <1>8, FailInv DEF Rethrow, TypeOK, TaskInv, Busy
<1>9. ASSUME NEW w \in Workers, Restart(w) PROVE QueueInv'
  BY <1>9, QueueStutterInv DEF Restart
<1>10. ASSUME NEW w \in Workers, LoseLock(w) PROVE QueueInv'
  BY <1>10, ExpireLocksInv DEF LoseLock
<1>11. ASSUME NEW w \in Workers, Crash(w) PROVE QueueInv'
  BY <1>11, ExpireLocksInv DEF Crash
<1>12. ASSUME PromoteSend PROVE QueueInv'
  BY <1>12, PromoteInv DEF PromoteSend
<1>13. ASSUME StallSend PROVE QueueInv'
  BY <1>13, StallInv DEF StallSend
<1>14. ASSUME NEW m \in Mailboxes, MailboxChanges(m) PROVE QueueInv'
  BY <1>14, QueueStutterInv DEF MailboxChanges
<1> QED BY <1>1, <1>2, <1>3, <1>4, <1>5, <1>6, <1>7, <1>8, <1>9, <1>10,
    <1>11, <1>12, <1>13, <1>14 DEF Next, Fetch, Proceed

(* A new call gets a number above those of the calls still running.        *)
LEMMA TaskInvStep ==
    ASSUME TypeOK, QueueInv, TaskInv, Next
    PROVE  TaskInv'
<1> USE MailAssumption, QueueAssumption
<1>1. ASSUME NEW j \in Jobs, Send(j) PROVE TaskInv'
  BY <1>1 DEF Send, EnqueueSend, Add, taskVars, rowVars, TypeOK,
     QueueTypeOK, QueueInv, LocksAreActive, TaskInv, Busy
<1>2. ASSUME NEW w \in Workers, TakeSend(w) PROVE TaskInv'
  BY <1>2 DEF TakeSend, Take, rowVars, TypeOK, QueueTypeOK, QueueInv,
     LocksAreActive, TaskInv, Busy
<1>3. ASSUME NEW w \in Workers, DiscardSend(w) PROVE TaskInv'
  BY <1>3 DEF DiscardSend, Discard, taskVars, rowVars, TypeOK, QueueTypeOK,
     QueueInv, LocksAreActive, TaskInv, Busy
<1>4. ASSUME NEW w \in Workers, FindMailbox(w) PROVE TaskInv'
  BY <1>4 DEF FindMailbox, Goto, Fault, CanFault, queueVars, rowVars,
     TypeOK, QueueTypeOK, QueueInv, LocksAreActive, TaskInv, Busy
<1>5. ASSUME NEW w \in Workers, TrySave(w) PROVE TaskInv'
  BY <1>5 DEF TrySave, CreateNormalized, Row, HasMailbox, Goto, Fault,
     CanFault, queueVars, rowVars, TypeOK, QueueTypeOK, QueueInv,
     LocksAreActive, TaskInv, Busy
<1>6. ASSUME NEW w \in Workers, CatchSave(w) PROVE TaskInv'
  BY <1>6 DEF CatchSave, CreateNormalized, Row, HasMailbox, Goto, Fault,
     CanFault, queueVars, rowVars, TypeOK, QueueTypeOK, QueueInv,
     LocksAreActive, TaskInv, Busy
<1>7. ASSUME NEW w \in Workers, Return(w) PROVE TaskInv'
  BY <1>7 DEF Return, Complete, Conclude, Holds, Leave, queueVars, rowVars,
     TypeOK, QueueTypeOK, QueueInv, LocksAreActive, TaskInv, Busy
<1>8. ASSUME NEW w \in Workers, Rethrow(w) PROVE TaskInv'
  BY <1>8 DEF Rethrow, Fail, Conclude, Holds, Leave, queueVars, rowVars,
     TypeOK, QueueTypeOK, QueueInv, LocksAreActive, TaskInv, Busy
<1>9. ASSUME NEW w \in Workers, Restart(w) PROVE TaskInv'
  BY <1>9 DEF Restart, Goto, queueVars, rowVars, TypeOK, QueueTypeOK,
     QueueInv, LocksAreActive, TaskInv, Busy
<1>10. ASSUME NEW w \in Workers, LoseLock(w) PROVE TaskInv'
  BY <1>10 DEF LoseLock, ExpireLocks, taskVars, rowVars, TypeOK,
     QueueTypeOK, QueueInv, LocksAreActive, TaskInv, Busy
<1>11. ASSUME NEW w \in Workers, Crash(w) PROVE TaskInv'
  BY <1>11 DEF Crash, ExpireLocks, Leave, Row, HasMailbox, TypeOK,
     QueueTypeOK, QueueInv, LocksAreActive, TaskInv, Busy
<1>12. ASSUME PromoteSend PROVE TaskInv'
  BY <1>12 DEF PromoteSend, Promote, taskVars, rowVars, TypeOK, QueueTypeOK,
     QueueInv, LocksAreActive, TaskInv, Busy
<1>13. ASSUME StallSend PROVE TaskInv'
  BY <1>13 DEF StallSend, Stall, Holds, taskVars, rowVars, TypeOK,
     QueueTypeOK, QueueInv, LocksAreActive, TaskInv, Busy
<1>14. ASSUME NEW m \in Mailboxes, MailboxChanges(m) PROVE TaskInv'
  BY <1>14 DEF MailboxChanges, queueVars, taskVars, rowVars, TypeOK,
     QueueTypeOK, QueueInv, LocksAreActive, TaskInv, Busy
<1> QED BY <1>1, <1>2, <1>3, <1>4, <1>5, <1>6, <1>7, <1>8, <1>9, <1>10,
    <1>11, <1>12, <1>13, <1>14 DEF Next, Fetch, Proceed

(* No two calls share their number, so no two write the same row.          *)
LEMMA RowInvStep ==
    ASSUME TypeOK, TaskInv, RowInv, Next
    PROVE  RowInv'
<1> USE MailAssumption, QueueAssumption
<1>1. ASSUME NEW j \in Jobs, Send(j) PROVE RowInv'
  BY <1>1 DEF Send, EnqueueSend, Add, taskVars, rowVars, TypeOK,
     QueueTypeOK, Clauses, Rows, TaskInv, Busy, RowInv
<1>2. ASSUME NEW w \in Workers, TakeSend(w) PROVE RowInv'
  BY <1>2 DEF TakeSend, Take, rowVars, TypeOK, QueueTypeOK, Clauses, Rows,
     TaskInv, Busy, RowInv
<1>3. ASSUME NEW w \in Workers, DiscardSend(w) PROVE RowInv'
  BY <1>3 DEF DiscardSend, Discard, taskVars, rowVars, TypeOK, QueueTypeOK,
     Clauses, Rows, TaskInv, Busy, RowInv
<1>4. ASSUME NEW w \in Workers, FindMailbox(w) PROVE RowInv'
  BY <1>4 DEF FindMailbox, Goto, Fault, CanFault, queueVars, rowVars,
     TypeOK, QueueTypeOK, Clauses, Rows, TaskInv, Busy, RowInv
<1>5. ASSUME NEW w \in Workers, TrySave(w) PROVE RowInv'
  BY <1>5 DEF TrySave, CreateNormalized, Row, HasMailbox, Goto, Fault,
     CanFault, queueVars, rowVars, TypeOK, QueueTypeOK, Clauses, Rows,
     TaskInv, Busy, RowInv
<1>6. ASSUME NEW w \in Workers, CatchSave(w) PROVE RowInv'
  BY <1>6 DEF CatchSave, CreateNormalized, Row, HasMailbox, Goto, Fault,
     CanFault, queueVars, rowVars, TypeOK, QueueTypeOK, Clauses, Rows,
     TaskInv, Busy, RowInv
<1>7. ASSUME NEW w \in Workers, Return(w) PROVE RowInv'
  BY <1>7 DEF Return, Complete, Conclude, Holds, Leave, queueVars, rowVars,
     TypeOK, QueueTypeOK, Clauses, Rows, TaskInv, Busy, RowInv
<1>8. ASSUME NEW w \in Workers, Rethrow(w) PROVE RowInv'
  BY <1>8 DEF Rethrow, Fail, Conclude, Holds, Leave, queueVars, rowVars,
     TypeOK, QueueTypeOK, Clauses, Rows, TaskInv, Busy, RowInv
<1>9. ASSUME NEW w \in Workers, Restart(w) PROVE RowInv'
  BY <1>9 DEF Restart, Goto, queueVars, rowVars, TypeOK, QueueTypeOK,
     Clauses, Rows, TaskInv, Busy, RowInv
<1>10. ASSUME NEW w \in Workers, LoseLock(w) PROVE RowInv'
  BY <1>10 DEF LoseLock, ExpireLocks, taskVars, rowVars, TypeOK,
     QueueTypeOK, Clauses, Rows, TaskInv, Busy, RowInv
<1>11. ASSUME NEW w \in Workers, Crash(w) PROVE RowInv'
  BY <1>11 DEF Crash, ExpireLocks, Leave, Row, HasMailbox, TypeOK,
     QueueTypeOK, Clauses, Rows, TaskInv, Busy, RowInv
<1>12. ASSUME PromoteSend PROVE RowInv'
  BY <1>12 DEF PromoteSend, Promote, taskVars, rowVars, TypeOK, QueueTypeOK,
     Clauses, Rows, TaskInv, Busy, RowInv
<1>13. ASSUME StallSend PROVE RowInv'
  BY <1>13 DEF StallSend, Stall, Holds, taskVars, rowVars, TypeOK,
     QueueTypeOK, Clauses, Rows, TaskInv, Busy, RowInv
<1>14. ASSUME NEW m \in Mailboxes, MailboxChanges(m) PROVE RowInv'
  BY <1>14 DEF MailboxChanges, queueVars, taskVars, rowVars, TypeOK,
     QueueTypeOK, Clauses, Rows, TaskInv, Busy, RowInv
<1> QED BY <1>1, <1>2, <1>3, <1>4, <1>5, <1>6, <1>7, <1>8, <1>9, <1>10,
    <1>11, <1>12, <1>13, <1>14 DEF Next, Fetch, Proceed

(* Rows are never removed, and only a call with a row completes.           *)
LEMMA RecordInvStep ==
    ASSUME TypeOK, TaskInv, RecordInv, Next
    PROVE  RecordInv'
<1> USE MailAssumption, QueueAssumption
<1>1. ASSUME NEW j \in Jobs, Send(j) PROVE RecordInv'
  BY <1>1 DEF Send, EnqueueSend, Add, taskVars, rowVars, TypeOK,
     QueueTypeOK, TaskInv, Busy, RecordInv, CompletedIsRecorded, RowsOf
<1>2. ASSUME NEW w \in Workers, TakeSend(w) PROVE RecordInv'
  BY <1>2 DEF TakeSend, Take, rowVars, TypeOK, QueueTypeOK, TaskInv, Busy,
     RecordInv, CompletedIsRecorded, RowsOf
<1>3. ASSUME NEW w \in Workers, DiscardSend(w) PROVE RecordInv'
  BY <1>3 DEF DiscardSend, Discard, taskVars, rowVars, TypeOK, QueueTypeOK,
     TaskInv, Busy, RecordInv, CompletedIsRecorded, RowsOf
<1>4. ASSUME NEW w \in Workers, FindMailbox(w) PROVE RecordInv'
  BY <1>4 DEF FindMailbox, Goto, Fault, CanFault, queueVars, rowVars,
     TypeOK, QueueTypeOK, TaskInv, Busy, RecordInv, CompletedIsRecorded,
     RowsOf
<1>5. ASSUME NEW w \in Workers, TrySave(w) PROVE RecordInv'
  BY <1>5, CreateNormalizedRecords DEF TrySave, Clauses
<1>6. ASSUME NEW w \in Workers, CatchSave(w) PROVE RecordInv'
  BY <1>6, CreateNormalizedRecords DEF CatchSave, Clauses
<1>7. ASSUME NEW w \in Workers, Return(w) PROVE RecordInv'
  BY <1>7 DEF Return, Complete, Conclude, Holds, Leave, queueVars, rowVars,
     TypeOK, QueueTypeOK, TaskInv, Busy, RecordInv, CompletedIsRecorded,
     RowsOf
<1>8. ASSUME NEW w \in Workers, Rethrow(w) PROVE RecordInv'
  BY <1>8 DEF Rethrow, Fail, Conclude, Holds, Leave, queueVars, rowVars,
     TypeOK, QueueTypeOK, TaskInv, Busy, RecordInv, CompletedIsRecorded,
     RowsOf
<1>9. ASSUME NEW w \in Workers, Restart(w) PROVE RecordInv'
  BY <1>9 DEF Restart, Goto, queueVars, rowVars, TypeOK, QueueTypeOK,
     TaskInv, Busy, RecordInv, CompletedIsRecorded, RowsOf
<1>10. ASSUME NEW w \in Workers, LoseLock(w) PROVE RecordInv'
  BY <1>10 DEF LoseLock, ExpireLocks, taskVars, rowVars, TypeOK,
     QueueTypeOK, TaskInv, Busy, RecordInv, CompletedIsRecorded, RowsOf
<1>11. ASSUME NEW w \in Workers, Crash(w) PROVE RecordInv'
  BY <1>11 DEF Crash, ExpireLocks, Leave, Row, HasMailbox, TypeOK,
     QueueTypeOK, TaskInv, Busy, RecordInv, CompletedIsRecorded, RowsOf
<1>12. ASSUME PromoteSend PROVE RecordInv'
  BY <1>12 DEF PromoteSend, Promote, taskVars, rowVars, TypeOK, QueueTypeOK,
     TaskInv, Busy, RecordInv, CompletedIsRecorded, RowsOf
<1>13. ASSUME StallSend PROVE RecordInv'
  BY <1>13 DEF StallSend, Stall, Holds, taskVars, rowVars, TypeOK,
     QueueTypeOK, TaskInv, Busy, RecordInv, CompletedIsRecorded, RowsOf
<1>14. ASSUME NEW m \in Mailboxes, MailboxChanges(m) PROVE RecordInv'
  BY <1>14 DEF MailboxChanges, queueVars, taskVars, rowVars, TypeOK,
     QueueTypeOK, TaskInv, Busy, RecordInv, CompletedIsRecorded, RowsOf
<1> QED BY <1>1, <1>2, <1>3, <1>4, <1>5, <1>6, <1>7, <1>8, <1>9, <1>10,
    <1>11, <1>12, <1>13, <1>14 DEF Next, Fetch, Proceed

(* A call throws only after a failed call of the database, or for want of  *)
(* the mailbox.                                                            *)
LEMMA FaultInvStep ==
    ASSUME TypeOK, QueueInv, TaskInv, FaultInv, Next
    PROVE  FaultInv'
<1> USE MailAssumption, QueueAssumption
<1>1. ASSUME NEW j \in Jobs, Send(j) PROVE FaultInv'
  <2> USE <1>1 DEF Send, EnqueueSend, Add, taskVars, TypeOK, QueueTypeOK, FaultInv
  <2>1. SeenInv'
    BY DEF SeenInv
  <2>2. AttemptsNeedFaults'
    BY DEF AttemptsNeedFaults, QueueInv, Accounting, LimitsKept
  <2>3. ThrowNeedsFault'
    BY DEF ThrowNeedsFault, TaskInv, Busy
  <2>4. FailureNeedsFaults'
    BY DEF FailureNeedsFaults
  <2> QED BY <2>1, <2>2, <2>3, <2>4
<1>2. ASSUME NEW w \in Workers, TakeSend(w) PROVE FaultInv'
  BY <1>2 DEF TakeSend, Take, rowVars, TypeOK, QueueTypeOK, Tokens, TaskInv,
     Busy, FaultInv, SeenInv, AttemptsNeedFaults, ThrowNeedsFault,
     FailureNeedsFaults, QueueInv, LimitsKept, LocksAreActive, Open,
     Finished
<1>3. ASSUME NEW w \in Workers, DiscardSend(w) PROVE FaultInv'
  BY <1>3 DEF DiscardSend, Discard, taskVars, rowVars, TypeOK, QueueTypeOK,
     Tokens, TaskInv, Busy, FaultInv, SeenInv, AttemptsNeedFaults,
     ThrowNeedsFault, FailureNeedsFaults, QueueInv, LimitsKept,
     LocksAreActive, Open, Finished
<1>4. ASSUME NEW w \in Workers, FindMailbox(w) PROVE FaultInv'
  <2> USE <1>4 DEF FindMailbox, Goto, Fault, CanFault, queueVars, TypeOK,
      QueueTypeOK, FaultInv
  <2>1. SeenInv'
    BY DEF SeenInv
  <2>2. AttemptsNeedFaults'
    BY DEF AttemptsNeedFaults, TaskInv, Busy
  <2>3. ThrowNeedsFault'
    BY DEF ThrowNeedsFault, TaskInv, Busy, QueueInv, LocksAreActive,
           AttemptsNeedFaults
  <2>4. FailureNeedsFaults'
    BY DEF FailureNeedsFaults, TaskInv, Busy
  <2> QED BY <2>1, <2>2, <2>3, <2>4
<1>5. ASSUME NEW w \in Workers, TrySave(w) PROVE FaultInv'
  BY <1>5 DEF TrySave, CreateNormalized, Row, HasMailbox, Goto, Fault,
     CanFault, queueVars, rowVars, TypeOK, QueueTypeOK, Tokens, TaskInv,
     Busy, FaultInv, SeenInv, AttemptsNeedFaults, ThrowNeedsFault,
     FailureNeedsFaults, QueueInv, LimitsKept, LocksAreActive, Open,
     Finished
<1>6. ASSUME NEW w \in Workers, CatchSave(w) PROVE FaultInv'
  BY <1>6 DEF CatchSave, CreateNormalized, Row, HasMailbox, Goto, Fault,
     CanFault, queueVars, rowVars, TypeOK, QueueTypeOK, Tokens, TaskInv,
     Busy, FaultInv, SeenInv, AttemptsNeedFaults, ThrowNeedsFault,
     FailureNeedsFaults, QueueInv, LimitsKept, LocksAreActive, Open,
     Finished
<1>7. ASSUME NEW w \in Workers, Return(w) PROVE FaultInv'
  <2> USE <1>7 DEF Return, Complete, Conclude, Holds, Leave, queueVars, TypeOK,
      QueueTypeOK, FaultInv
  <2>1. SeenInv'
    BY DEF SeenInv, TaskInv, Busy
  <2>2. AttemptsNeedFaults'
    BY DEF AttemptsNeedFaults, TaskInv, Busy
  <2>3. ThrowNeedsFault'
    BY DEF ThrowNeedsFault, TaskInv, Busy, QueueInv, LocksAreActive
  <2>4. FailureNeedsFaults'
    BY DEF FailureNeedsFaults, TaskInv, Busy
  <2> QED BY <2>1, <2>2, <2>3, <2>4
<1>8. ASSUME NEW w \in Workers, Rethrow(w) PROVE FaultInv'
  BY <1>8 DEF Rethrow, Fail, Conclude, Holds, Leave, queueVars, rowVars,
     TypeOK, QueueTypeOK, Tokens, TaskInv, Busy, FaultInv, SeenInv,
     AttemptsNeedFaults, ThrowNeedsFault, FailureNeedsFaults, QueueInv,
     LimitsKept, LocksAreActive, Open, Finished
<1>9. ASSUME NEW w \in Workers, Restart(w) PROVE FaultInv'
  BY <1>9 DEF Restart, Goto, queueVars, rowVars, TypeOK, QueueTypeOK,
     Tokens, TaskInv, Busy, FaultInv, SeenInv, AttemptsNeedFaults,
     ThrowNeedsFault, FailureNeedsFaults, QueueInv, LimitsKept,
     LocksAreActive, Open, Finished
<1>10. ASSUME NEW w \in Workers, LoseLock(w) PROVE FaultInv'
  BY <1>10 DEF LoseLock, ExpireLocks, taskVars, rowVars, TypeOK,
     QueueTypeOK, Tokens, TaskInv, Busy, FaultInv, SeenInv,
     AttemptsNeedFaults, ThrowNeedsFault, FailureNeedsFaults, QueueInv,
     LimitsKept, LocksAreActive, Open, Finished
<1>11. ASSUME NEW w \in Workers, Crash(w) PROVE FaultInv'
  BY <1>11 DEF Crash, ExpireLocks, Leave, Row, HasMailbox, TypeOK,
     QueueTypeOK, Tokens, TaskInv, Busy, FaultInv, SeenInv,
     AttemptsNeedFaults, ThrowNeedsFault, FailureNeedsFaults, QueueInv,
     LimitsKept, LocksAreActive, Open, Finished
<1>12. ASSUME PromoteSend PROVE FaultInv'
  BY <1>12 DEF PromoteSend, Promote, taskVars, rowVars, TypeOK, QueueTypeOK,
     Tokens, TaskInv, Busy, FaultInv, SeenInv, AttemptsNeedFaults,
     ThrowNeedsFault, FailureNeedsFaults, QueueInv, LimitsKept,
     LocksAreActive, Open, Finished
<1>13. ASSUME StallSend PROVE FaultInv'
  BY <1>13 DEF StallSend, Stall, Holds, taskVars, rowVars, TypeOK,
     QueueTypeOK, Tokens, TaskInv, Busy, FaultInv, SeenInv,
     AttemptsNeedFaults, ThrowNeedsFault, FailureNeedsFaults, QueueInv,
     LimitsKept, LocksAreActive, Open, Finished
<1>14. ASSUME NEW m \in Mailboxes, MailboxChanges(m) PROVE FaultInv'
  BY <1>14 DEF MailboxChanges, queueVars, taskVars, rowVars, TypeOK,
     QueueTypeOK, Tokens, TaskInv, Busy, FaultInv, SeenInv,
     AttemptsNeedFaults, ThrowNeedsFault, FailureNeedsFaults, QueueInv,
     LimitsKept, LocksAreActive, Open, Finished
<1> QED BY <1>1, <1>2, <1>3, <1>4, <1>5, <1>6, <1>7, <1>8, <1>9, <1>10,
    <1>11, <1>12, <1>13, <1>14 DEF Next, Fetch, Proceed

(* Without a stall a job is in the hands of one worker until it concludes. *)
LEMMA CalmInvStep ==
    ASSUME TypeOK, QueueInv, TaskInv, CalmInv, Next
    PROVE  CalmInv'
<1> USE MailAssumption, QueueAssumption
<1>1. ASSUME NEW j \in Jobs, Send(j) PROVE CalmInv'
  BY <1>1 DEF Send, EnqueueSend, Add, taskVars, rowVars, TypeOK,
     QueueTypeOK, TaskInv, Busy, QueueInv, LocksAreActive, CalmInv
<1>2. ASSUME NEW w \in Workers, TakeSend(w) PROVE CalmInv'
  BY <1>2 DEF TakeSend, Take, rowVars, TypeOK, QueueTypeOK, TaskInv, Busy,
     QueueInv, LocksAreActive, CalmInv
<1>3. ASSUME NEW w \in Workers, DiscardSend(w) PROVE CalmInv'
  BY <1>3 DEF DiscardSend, Discard, taskVars, rowVars, TypeOK, QueueTypeOK,
     TaskInv, Busy, QueueInv, LocksAreActive, CalmInv
<1>4. ASSUME NEW w \in Workers, FindMailbox(w) PROVE CalmInv'
  BY <1>4 DEF FindMailbox, Goto, Fault, CanFault, queueVars, rowVars,
     TypeOK, QueueTypeOK, TaskInv, Busy, QueueInv, LocksAreActive, CalmInv
<1>5. ASSUME NEW w \in Workers, TrySave(w) PROVE CalmInv'
  BY <1>5 DEF TrySave, CreateNormalized, Row, HasMailbox, Goto, Fault,
     CanFault, queueVars, rowVars, TypeOK, QueueTypeOK, TaskInv, Busy,
     QueueInv, LocksAreActive, CalmInv
<1>6. ASSUME NEW w \in Workers, CatchSave(w) PROVE CalmInv'
  BY <1>6 DEF CatchSave, CreateNormalized, Row, HasMailbox, Goto, Fault,
     CanFault, queueVars, rowVars, TypeOK, QueueTypeOK, TaskInv, Busy,
     QueueInv, LocksAreActive, CalmInv
<1>7. ASSUME NEW w \in Workers, Return(w) PROVE CalmInv'
  BY <1>7 DEF Return, Complete, Conclude, Holds, Leave, queueVars, rowVars,
     TypeOK, QueueTypeOK, TaskInv, Busy, QueueInv, LocksAreActive, CalmInv
<1>8. ASSUME NEW w \in Workers, Rethrow(w) PROVE CalmInv'
  BY <1>8 DEF Rethrow, Fail, Conclude, Holds, Leave, queueVars, rowVars,
     TypeOK, QueueTypeOK, TaskInv, Busy, QueueInv, LocksAreActive, CalmInv
<1>9. ASSUME NEW w \in Workers, Restart(w) PROVE CalmInv'
  BY <1>9 DEF Restart, Goto, queueVars, rowVars, TypeOK, QueueTypeOK,
     TaskInv, Busy, QueueInv, LocksAreActive, CalmInv
<1>10. ASSUME NEW w \in Workers, LoseLock(w) PROVE CalmInv'
  BY <1>10 DEF LoseLock, ExpireLocks, taskVars, rowVars, TypeOK,
     QueueTypeOK, TaskInv, Busy, QueueInv, LocksAreActive, CalmInv
<1>11. ASSUME NEW w \in Workers, Crash(w) PROVE CalmInv'
  BY <1>11 DEF Crash, ExpireLocks, Leave, TypeOK, QueueTypeOK, CalmInv
<1>12. ASSUME PromoteSend PROVE CalmInv'
  BY <1>12 DEF PromoteSend, Promote, taskVars, rowVars, TypeOK, QueueTypeOK,
     TaskInv, Busy, QueueInv, LocksAreActive, CalmInv
<1>13. ASSUME StallSend PROVE CalmInv'
  BY <1>13 DEF StallSend, Stall, Holds, taskVars, rowVars, TypeOK,
     QueueTypeOK, TaskInv, Busy, QueueInv, LocksAreActive, CalmInv
<1>14. ASSUME NEW m \in Mailboxes, MailboxChanges(m) PROVE CalmInv'
  BY <1>14 DEF MailboxChanges, queueVars, taskVars, rowVars, TypeOK,
     QueueTypeOK, TaskInv, Busy, QueueInv, LocksAreActive, CalmInv
<1> QED BY <1>1, <1>2, <1>3, <1>4, <1>5, <1>6, <1>7, <1>8, <1>9, <1>10,
    <1>11, <1>12, <1>13, <1>14 DEF Next, Fetch, Proceed

(* What a call read of the mailbox stays among what was seen.              *)
LEMMA StatusInvStep ==
    ASSUME TypeOK, QueueInv, TaskInv, RowInv, StatusInv, Next
    PROVE  StatusInv'
<1> USE MailAssumption, QueueAssumption
<1>1. ASSUME NEW j \in Jobs, Send(j) PROVE StatusInv'
  <2> USE <1>1 DEF Send, EnqueueSend, Add, taskVars, rowVars
  <2>1. runs[j] = 0
    BY DEF QueueInv, LimitsKept
  <2>2. \A e \in events : e.job # j
    BY <2>1 DEF RowInv, TypeOK, QueueTypeOK, Rows
  <2>3. \A w \in Workers : cur[w] # j
    BY DEF TaskInv
  <2> QED
    BY <2>2, <2>3 DEF TypeOK, QueueTypeOK, Tokens, TaskInv, Busy, StatusInv,
       SeenInv, VerdictInv, StatusJustified, Rows
<1>2. ASSUME NEW w \in Workers, TakeSend(w) PROVE StatusInv'
  BY <1>2 DEF TakeSend, Take, rowVars, TypeOK, QueueTypeOK, Tokens, TaskInv,
     Busy, StatusInv, SeenInv, VerdictInv, StatusJustified, Rows, Clauses
<1>3. ASSUME NEW w \in Workers, DiscardSend(w) PROVE StatusInv'
  BY <1>3 DEF DiscardSend, Discard, taskVars, rowVars, TypeOK, QueueTypeOK,
     Tokens, TaskInv, Busy, StatusInv, SeenInv, VerdictInv, StatusJustified,
     Rows, Clauses
<1>4. ASSUME NEW w \in Workers, FindMailbox(w) PROVE StatusInv'
  BY <1>4 DEF FindMailbox, Goto, Fault, CanFault, queueVars, rowVars,
     TypeOK, QueueTypeOK, Tokens, TaskInv, Busy, StatusInv, SeenInv,
     VerdictInv, StatusJustified, Rows, Clauses
<1>5. ASSUME NEW w \in Workers, TrySave(w) PROVE StatusInv'
  BY <1>5 DEF TrySave, CreateNormalized, Row, HasMailbox, Goto, Fault,
     CanFault, queueVars, rowVars, TypeOK, QueueTypeOK, Tokens, TaskInv,
     Busy, StatusInv, SeenInv, VerdictInv, StatusJustified, Rows, Clauses
<1>6. ASSUME NEW w \in Workers, CatchSave(w) PROVE StatusInv'
  BY <1>6 DEF CatchSave, CreateNormalized, Row, HasMailbox, Goto, Fault,
     CanFault, queueVars, rowVars, TypeOK, QueueTypeOK, Tokens, TaskInv,
     Busy, StatusInv, SeenInv, VerdictInv, StatusJustified, Rows, Clauses
<1>7. ASSUME NEW w \in Workers, Return(w) PROVE StatusInv'
  BY <1>7 DEF Return, Complete, Conclude, Holds, Leave, queueVars, rowVars,
     TypeOK, QueueTypeOK, Tokens, TaskInv, Busy, StatusInv, SeenInv,
     VerdictInv, StatusJustified, Rows, Clauses
<1>8. ASSUME NEW w \in Workers, Rethrow(w) PROVE StatusInv'
  BY <1>8 DEF Rethrow, Fail, Conclude, Holds, Leave, queueVars, rowVars,
     TypeOK, QueueTypeOK, Tokens, TaskInv, Busy, StatusInv, SeenInv,
     VerdictInv, StatusJustified, Rows, Clauses
<1>9. ASSUME NEW w \in Workers, Restart(w) PROVE StatusInv'
  BY <1>9 DEF Restart, Goto, queueVars, rowVars, TypeOK, QueueTypeOK,
     Tokens, TaskInv, Busy, StatusInv, SeenInv, VerdictInv, StatusJustified,
     Rows, Clauses
<1>10. ASSUME NEW w \in Workers, LoseLock(w) PROVE StatusInv'
  BY <1>10 DEF LoseLock, ExpireLocks, taskVars, rowVars, TypeOK,
     QueueTypeOK, Tokens, TaskInv, Busy, StatusInv, SeenInv, VerdictInv,
     StatusJustified, Rows, Clauses
<1>11. ASSUME NEW w \in Workers, Crash(w) PROVE StatusInv'
  BY <1>11 DEF Crash, ExpireLocks, Leave, Row, HasMailbox, TypeOK,
     QueueTypeOK, Tokens, TaskInv, Busy, StatusInv, SeenInv, VerdictInv,
     StatusJustified, Rows, Clauses
<1>12. ASSUME PromoteSend PROVE StatusInv'
  BY <1>12 DEF PromoteSend, Promote, taskVars, rowVars, TypeOK, QueueTypeOK,
     Tokens, TaskInv, Busy, StatusInv, SeenInv, VerdictInv, StatusJustified,
     Rows, Clauses
<1>13. ASSUME StallSend PROVE StatusInv'
  BY <1>13 DEF StallSend, Stall, Holds, taskVars, rowVars, TypeOK,
     QueueTypeOK, Tokens, TaskInv, Busy, StatusInv, SeenInv, VerdictInv,
     StatusJustified, Rows, Clauses
<1>14. ASSUME NEW m \in Mailboxes, MailboxChanges(m) PROVE StatusInv'
  BY <1>14 DEF MailboxChanges, queueVars, taskVars, rowVars, TypeOK,
     QueueTypeOK, Tokens, TaskInv, Busy, StatusInv, SeenInv, VerdictInv,
     StatusJustified, Rows, Clauses
<1> QED BY <1>1, <1>2, <1>3, <1>4, <1>5, <1>6, <1>7, <1>8, <1>9, <1>10,
    <1>11, <1>12, <1>13, <1>14 DEF Next, Fetch, Proceed

(* A row without its emit is left by a failed call or by a dead process.   *)
LEMMA UnannouncedNeedsCauseStep ==
    ASSUME TypeOK, QueueInv, TaskInv, CalmInv, UnannouncedNeedsCause, Next
    PROVE  UnannouncedNeedsCause'
<1> USE MailAssumption, QueueAssumption
<1>1. ASSUME NEW j \in Jobs, Send(j) PROVE UnannouncedNeedsCause'
  BY <1>1 DEF Send, EnqueueSend, Add, taskVars, rowVars, TypeOK,
     QueueTypeOK, TaskInv, Busy, QueueInv, LocksAreActive, CalmInv, Holds,
     UnannouncedNeedsCause, Rows, Clauses
<1>2. ASSUME NEW w \in Workers, TakeSend(w) PROVE UnannouncedNeedsCause'
  BY <1>2 DEF TakeSend, Take, rowVars, TypeOK, QueueTypeOK, TaskInv, Busy,
     QueueInv, LocksAreActive, CalmInv, Holds, UnannouncedNeedsCause, Rows,
     Clauses
<1>3. ASSUME NEW w \in Workers, DiscardSend(w) PROVE UnannouncedNeedsCause'
  BY <1>3 DEF DiscardSend, Discard, taskVars, rowVars, TypeOK, QueueTypeOK,
     TaskInv, Busy, QueueInv, LocksAreActive, CalmInv, Holds,
     UnannouncedNeedsCause, Rows, Clauses
<1>4. ASSUME NEW w \in Workers, FindMailbox(w) PROVE UnannouncedNeedsCause'
  BY <1>4 DEF FindMailbox, Goto, Fault, CanFault, queueVars, rowVars,
     TypeOK, QueueTypeOK, TaskInv, Busy, QueueInv, LocksAreActive, CalmInv,
     Holds, UnannouncedNeedsCause, Rows, Clauses
<1>5. ASSUME NEW w \in Workers, TrySave(w) PROVE UnannouncedNeedsCause'
  BY <1>5 DEF TrySave, CreateNormalized, Row, HasMailbox, Goto, Fault,
     CanFault, queueVars, rowVars, TypeOK, QueueTypeOK, TaskInv, Busy,
     QueueInv, LocksAreActive, CalmInv, Holds, UnannouncedNeedsCause, Rows,
     Clauses
<1>6. ASSUME NEW w \in Workers, CatchSave(w) PROVE UnannouncedNeedsCause'
  BY <1>6 DEF CatchSave, CreateNormalized, Row, HasMailbox, Goto, Fault,
     CanFault, queueVars, rowVars, TypeOK, QueueTypeOK, TaskInv, Busy,
     QueueInv, LocksAreActive, CalmInv, Holds, UnannouncedNeedsCause, Rows,
     Clauses
<1>7. ASSUME NEW w \in Workers, Return(w) PROVE UnannouncedNeedsCause'
  BY <1>7 DEF Return, Complete, Conclude, Holds, Leave, queueVars, rowVars,
     TypeOK, QueueTypeOK, TaskInv, Busy, QueueInv, LocksAreActive, CalmInv,
     Holds, UnannouncedNeedsCause, Rows, Clauses
<1>8. ASSUME NEW w \in Workers, Rethrow(w) PROVE UnannouncedNeedsCause'
  BY <1>8 DEF Rethrow, Fail, Conclude, Holds, Leave, queueVars, rowVars,
     TypeOK, QueueTypeOK, TaskInv, Busy, QueueInv, LocksAreActive, CalmInv,
     Holds, UnannouncedNeedsCause, Rows, Clauses
<1>9. ASSUME NEW w \in Workers, Restart(w) PROVE UnannouncedNeedsCause'
  BY <1>9 DEF Restart, Goto, queueVars, rowVars, TypeOK, QueueTypeOK,
     TaskInv, Busy, QueueInv, LocksAreActive, CalmInv, Holds,
     UnannouncedNeedsCause, Rows, Clauses
<1>10. ASSUME NEW w \in Workers, LoseLock(w) PROVE UnannouncedNeedsCause'
  BY <1>10 DEF LoseLock, ExpireLocks, taskVars, rowVars, TypeOK,
     QueueTypeOK, TaskInv, Busy, QueueInv, LocksAreActive, CalmInv, Holds,
     UnannouncedNeedsCause, Rows, Clauses
<1>11. ASSUME NEW w \in Workers, Crash(w) PROVE UnannouncedNeedsCause'
  BY <1>11 DEF Crash, ExpireLocks, Leave, Row, HasMailbox, TypeOK,
     QueueTypeOK, TaskInv, Busy, QueueInv, LocksAreActive, CalmInv, Holds,
     UnannouncedNeedsCause, Rows, Clauses
<1>12. ASSUME PromoteSend PROVE UnannouncedNeedsCause'
  BY <1>12 DEF PromoteSend, Promote, taskVars, rowVars, TypeOK, QueueTypeOK,
     TaskInv, Busy, QueueInv, LocksAreActive, CalmInv, Holds,
     UnannouncedNeedsCause, Rows, Clauses
<1>13. ASSUME StallSend PROVE UnannouncedNeedsCause'
  BY <1>13 DEF StallSend, Stall, Holds, taskVars, rowVars, TypeOK,
     QueueTypeOK, TaskInv, Busy, QueueInv, LocksAreActive, CalmInv, Holds,
     UnannouncedNeedsCause, Rows, Clauses
<1>14. ASSUME NEW m \in Mailboxes, MailboxChanges(m)
      PROVE UnannouncedNeedsCause'
  BY <1>14 DEF MailboxChanges, queueVars, taskVars, rowVars, TypeOK,
     QueueTypeOK, TaskInv, Busy, QueueInv, LocksAreActive, CalmInv, Holds,
     UnannouncedNeedsCause, Rows, Clauses
<1> QED BY <1>1, <1>2, <1>3, <1>4, <1>5, <1>6, <1>7, <1>8, <1>9, <1>10,
    <1>11, <1>12, <1>13, <1>14 DEF Next, Fetch, Proceed

(* The rows of a send are identified by their run and their clause. *)
LEMMA RowsAreCounted ==
    ASSUME TypeOK, QueueInv, RowInv, NEW j \in Jobs
    PROVE  IsFiniteSet(RowsOf(j)) /\ Cardinality(RowsOf(j)) <= 2 * MaxRuns
<1> DEFINE Places == (1 .. MaxRuns) \X Clauses
           place == [e \in RowsOf(j) |-> <<e.run, e.clause>>]
<1>1. MaxRuns \in Nat
  BY QueueAssumption DEF MaxRuns
<1>2. IsFiniteSet(Clauses) /\ Cardinality(Clauses) = 2
  <2>1. IsFiniteSet({"try"}) /\ Cardinality({"try"}) = 1
    BY FS_Singleton
  <2>2. Clauses = {"try"} \cup {"catch"} /\ "catch" \notin {"try"}
    BY DEF Clauses
  <2> QED BY <2>1, <2>2, FS_AddElement
<1>3. IsFiniteSet(1 .. MaxRuns) /\ Cardinality(1 .. MaxRuns) = MaxRuns
  BY <1>1, FS_Interval
<1>4. IsFiniteSet(Places) /\ Cardinality(Places) = MaxRuns * 2
  <2>1. /\ IsFiniteSet(Places)
        /\ Cardinality(Places) = Cardinality(1 .. MaxRuns) * Cardinality(Clauses)
    BY <1>2, <1>3, FS_Product, Zenon
  <2> QED BY <2>1, <1>2, <1>3, Zenon
<1>5. place \in Injection(RowsOf(j), Places)
  <2>1. \A e \in RowsOf(j) : place[e] \in Places
    BY <1>1 DEF TypeOK, QueueTypeOK, Rows, RowsOf, RowInv, QueueInv, LimitsKept
  <2>2. \A e, f \in RowsOf(j) : place[e] = place[f] => e = f
    BY DEF RowInv, RowsOf
  <2> QED BY <2>1, <2>2 DEF Injection, IsInjective
<1>6. IsFiniteSet(RowsOf(j)) /\ Cardinality(RowsOf(j)) <= Cardinality(Places)
  BY <1>4, <1>5, FS_Injection
<1> QED BY <1>1, <1>4, <1>6

(* The calls for one send are identified by their number. *)
LEMMA RunnersAreFinite ==
    ASSUME TypeOK, TaskInv, NEW j \in Jobs
    PROVE  IsFiniteSet(Runners(j))
<1> DEFINE number == [w \in Runners(j) |-> run[w]]
<1>1. runs[j] \in Nat
  BY DEF TypeOK, QueueTypeOK
<1>2. IsFiniteSet(1 .. runs[j])
  BY <1>1, FS_Interval
<1>3. number \in Injection(Runners(j), 1 .. runs[j])
  <2>1. \A w \in Runners(j) : number[w] \in 1 .. runs[j]
    BY MailAssumption DEF Runners, TaskInv, TypeOK, QueueTypeOK
  <2>2. \A v, w \in Runners(j) : number[v] = number[w] => v = w
    BY MailAssumption DEF Runners, TaskInv
  <2> QED BY <2>1, <2>2 DEF Injection, IsInjective
<1> QED BY <1>2, <1>3, FS_Injection

(* Adding an element to a finite set. *)
LEMMA AddedIsCounted ==
    ASSUME NEW S, NEW x, IsFiniteSet(S)
    PROVE  /\ Cardinality(S \cup {x}) \in Nat
           /\ Cardinality(S \cup {x}) <= Cardinality(S) + 1
<1>1. Cardinality(S) \in Nat
  BY FS_CardinalityType
<1>2. CASE x \in S
  <2>1. S \cup {x} = S
    BY <1>2
  <2> QED BY <1>1, <2>1
<1>3. CASE x \notin S
  <2>1. Cardinality(S \cup {x}) = Cardinality(S) + 1
    BY <1>3, FS_AddElement
  <2> QED BY <1>1, <2>1
<1> QED BY <1>2, <1>3

(* Removing an element from a finite set. *)
LEMMA RemovedIsCounted ==
    ASSUME NEW S, NEW x, IsFiniteSet(S)
    PROVE  /\ Cardinality(S \ {x}) \in Nat
           /\ Cardinality(S \ {x}) <= Cardinality(S)
           /\ x \in S => Cardinality(S \ {x}) + 1 = Cardinality(S)
<1>1. Cardinality(S) \in Nat /\ IsFiniteSet(S \ {x})
  BY FS_CardinalityType, FS_RemoveElement
<1>2. Cardinality(S \ {x}) \in Nat
  BY <1>1, FS_CardinalityType
<1>3. CASE x \in S
  <2>1. Cardinality(S \ {x}) = Cardinality(S) - 1
    BY <1>3, FS_RemoveElement
  <2> QED BY <1>1, <1>2, <2>1
<1>4. CASE x \notin S
  <2>1. S \ {x} = S
    BY <1>4
  <2> QED BY <1>1, <1>4, <2>1
<1> QED BY <1>2, <1>3, <1>4

(* What CauseInv counts is finite. *)
LEMMA SetsAreCounted ==
    ASSUME TypeOK, QueueInv, TaskInv, RowInv, NEW j \in Jobs
    PROVE  /\ IsFiniteSet(RowsOf(j)) /\ Cardinality(RowsOf(j)) \in Nat
           /\ IsFiniteSet(Runners(j)) /\ Cardinality(Runners(j)) \in Nat
BY RowsAreCounted, RunnersAreFinite, FS_CardinalityType

(* The INSERT of a call spends what the call or its failure pays for. *)
LEMMA CreateNormalizedPays ==
    ASSUME TypeOK, QueueInv, TaskInv, RowInv, CauseInv,
           NEW w \in Workers, NEW clause \in Clauses, pc[w] = clause,
           NEW failed \in {"catch", "throw"},
           CreateNormalized(w, clause, failed)
    PROVE  CauseInv'
<1> USE MailAssumption DEF TypeOK, QueueTypeOK
<1> SUFFICES ASSUME NEW k, k = cur[w] PROVE CauseInv'
  OBVIOUS
<1>1. k \in Jobs /\ w \in Runners(k)
  BY DEF TaskInv, Busy, Clauses, Runners
<1>2. \A j \in Jobs : Due(j)' = Due(j)
  BY DEF CreateNormalized, queueVars, Due
<1>3. ASSUME NEW j \in Jobs \ {k}
      PROVE  RowsOf(j)' = RowsOf(j) /\ Runners(j)' = Runners(j)
  BY <1>3 DEF CreateNormalized, rowVars, RowsOf, Runners, Row, Goto
<1>4. ASSUME NEW j \in Jobs \ {k}
      PROVE  faults'[j] = faults[j] /\ stalledCount'[j] = stalledCount[j]
  BY <1>1, <1>4 DEF CreateNormalized, Fault, queueVars
<1>5. stalledCount'[k] = stalledCount[k]
  BY DEF CreateNormalized, queueVars
<1>6. \/ /\ RowsOf(k)' = RowsOf(k) \cup {Row(w, clause)}
         /\ Runners(k)' = Runners(k) \ {w}
         /\ faults'[k] = faults[k]
      \/ /\ RowsOf(k)' = RowsOf(k)
         /\ Runners(k)' = Runners(k)
         /\ faults'[k] = faults[k]
      \/ /\ RowsOf(k)' = RowsOf(k) \/ RowsOf(k)' = RowsOf(k) \cup {Row(w, clause)}
         /\ Runners(k)' = Runners(k)
         /\ faults'[k] = faults[k] + 1
  <2>1. CASE /\ events' = events \cup {Row(w, clause)}
             /\ Goto(w, "return") /\ UNCHANGED faults
    BY <1>1, <2>1 DEF RowsOf, Row, Goto, Runners
  <2>2. CASE Goto(w, failed) /\ UNCHANGED <<rowVars, faults>>
    BY <1>1, <2>2 DEF RowsOf, rowVars, Goto, Runners
  <2>3. CASE /\ Fault(k) /\ Goto(w, failed)
             /\ UNCHANGED events \/ events' = events \cup {Row(w, clause)}
    BY <1>1, <2>3 DEF RowsOf, Row, Goto, Runners, Fault
  <2> QED BY <2>1, <2>2, <2>3 DEF CreateNormalized
<1>7. ASSUME NEW j \in Jobs
      PROVE  Cardinality(RowsOf(j)') + Cardinality(Runners(j)') + Due(j)'
               <= 1 + faults'[j] + stalledCount'[j]
  <2>1. CASE j # k
    BY <1>2, <1>3, <1>4, <2>1 DEF CauseInv
  <2>2. CASE j = k
    <3>1. /\ Cardinality(RowsOf(k) \cup {Row(w, clause)}) \in Nat
          /\ Cardinality(RowsOf(k) \cup {Row(w, clause)})
               <= Cardinality(RowsOf(k)) + 1
      BY <1>1, SetsAreCounted, AddedIsCounted
    <3>2. /\ Cardinality(Runners(k) \ {w}) \in Nat
          /\ Cardinality(Runners(k) \ {w}) + 1 = Cardinality(Runners(k))
      BY <1>1, SetsAreCounted, RemovedIsCounted
    <3>3. Cardinality(RowsOf(k)) \in Nat /\ Cardinality(Runners(k)) \in Nat
      BY <1>1, SetsAreCounted
    <3>4. /\ faults[k] \in Nat /\ stalledCount[k] \in Nat
          /\ Due(k)' = Due(k) /\ Due(k) \in {0, 1}
      BY <1>1, <1>2 DEF Due
    <3>5. Cardinality(RowsOf(k)) + Cardinality(Runners(k)) + Due(k)
            <= 1 + faults[k] + stalledCount[k]
      BY <1>1 DEF CauseInv
    <3>6. CASE /\ RowsOf(k)' = RowsOf(k) \cup {Row(w, clause)}
               /\ Runners(k)' = Runners(k) \ {w}
               /\ faults'[k] = faults[k]
      BY <1>5, <2>2, <3>1, <3>2, <3>3, <3>4, <3>5, <3>6
    <3>7. CASE /\ RowsOf(k)' = RowsOf(k) \/ RowsOf(k)' = RowsOf(k) \cup {Row(w, clause)}
               /\ Runners(k)' = Runners(k)
               /\ faults'[k] = faults[k] + 1
      <4>1. /\ Cardinality(RowsOf(k)') \in Nat
            /\ Cardinality(RowsOf(k)') <= Cardinality(RowsOf(k)) + 1
        <5>1. CASE RowsOf(k)' = RowsOf(k)
          BY <3>3, <5>1
        <5>2. CASE RowsOf(k)' = RowsOf(k) \cup {Row(w, clause)}
          BY <3>1, <5>2
        <5> QED BY <3>7, <5>1, <5>2
      <4> QED BY <1>5, <2>2, <3>3, <3>4, <3>5, <3>7, <4>1
    <3>8. CASE /\ RowsOf(k)' = RowsOf(k) /\ Runners(k)' = Runners(k)
               /\ faults'[k] = faults[k]
      BY <1>5, <2>2, <3>3, <3>4, <3>5, <3>8
    <3> QED BY <1>6, <3>6, <3>7, <3>8
  <2> QED BY <2>1, <2>2
<1> QED BY <1>7 DEF CauseInv

(* A call that ends otherwise leaves no row and frees what it had not spent.*)
LEMMA LeavePays ==
    ASSUME TypeOK, QueueInv, TaskInv, RowInv, NEW w \in Workers,
           NEW where \in {"idle", "down"}, Leave(w, where), NEW j \in Jobs
    PROVE  Runners(j)' = Runners(j) \ {w}
BY MailAssumption DEF TypeOK, QueueTypeOK, TaskInv, Leave, Runners

(* No row is left that a failed call, a stall or the first call has not    *)
(* paid for.                                                               *)
LEMMA CauseInvStep ==
    ASSUME TypeOK, QueueInv, TaskInv, RowInv, CauseInv, Next
    PROVE  CauseInv'
<1> USE MailAssumption, QueueAssumption DEF TypeOK, QueueTypeOK
<1> DEFINE Paid(j) ==
             Cardinality(RowsOf(j)') + Cardinality(Runners(j)') + Due(j)'
               <= 1 + faults'[j] + stalledCount'[j]
<1>0. SUFFICES \A j \in Jobs : Paid(j)
  BY DEF CauseInv
<1>1. ASSUME NEW i \in Jobs, Send(i), NEW j \in Jobs PROVE Paid(j)
  BY <1>1, SetsAreCounted
  DEF Send, EnqueueSend, Add, taskVars, rowVars, RowsOf, Runners, Due, CauseInv
<1>2. ASSUME NEW w \in Workers, TakeSend(w), NEW j \in Jobs PROVE Paid(j)
  <2>1. PICK i \in Jobs : /\ Take(w, i)
                          /\ pc' = [pc EXCEPT ![w] = "find"]
                          /\ cur' = [cur EXCEPT ![w] = i]
                          /\ UNCHANGED rowVars /\ UNCHANGED faults
                          /\ pc[w] = "idle"
    BY <1>2 DEF TakeSend
  <2>2. RowsOf(j)' = RowsOf(j) /\ faults'[j] = faults[j]
          /\ stalledCount'[j] = stalledCount[j]
    BY <2>1 DEF rowVars, RowsOf, Take
  <2>3. CASE i = j
    <3>1. Runners(j)' = Runners(j) \cup {w}
      BY <2>1, <2>3 DEF Runners
    <3>2. Due(j) = 1 /\ Due(j)' = 0
      BY <2>1, <2>3 DEF Take, Due
    <3>3. /\ Cardinality(Runners(j) \cup {w}) \in Nat
          /\ Cardinality(Runners(j) \cup {w}) <= Cardinality(Runners(j)) + 1
      BY SetsAreCounted, AddedIsCounted
    <3> QED BY <2>2, <3>1, <3>2, <3>3, SetsAreCounted DEF CauseInv
  <2>4. CASE i # j
    <3>1. Runners(j)' = Runners(j)
      BY <2>1, <2>4 DEF Runners, TaskInv, Busy
    <3>2. Due(j)' = Due(j) /\ Due(j) \in {0, 1}
      BY <2>1, <2>4 DEF Take, Due
    <3> QED BY <2>2, <3>1, <3>2 DEF CauseInv
  <2> QED BY <2>3, <2>4
<1>3. ASSUME NEW w \in Workers, DiscardSend(w), NEW j \in Jobs PROVE Paid(j)
  <2>1. RowsOf(j)' = RowsOf(j) /\ Runners(j)' = Runners(j)
    BY <1>3 DEF DiscardSend, taskVars, rowVars, RowsOf, Runners
  <2>2. /\ Due(j)' <= Due(j) /\ Due(j) \in {0, 1} /\ Due(j)' \in {0, 1}
        /\ faults'[j] = faults[j] /\ stalledCount'[j] = stalledCount[j]
    BY <1>3 DEF DiscardSend, Discard, Due
  <2> QED BY <2>1, <2>2, SetsAreCounted DEF CauseInv
<1>4. ASSUME NEW w \in Workers, FindMailbox(w), NEW j \in Jobs PROVE Paid(j)
  <2>1. RowsOf(j)' = RowsOf(j) /\ Runners(j)' = Runners(j)
    BY <1>4 DEF FindMailbox, Goto, rowVars, RowsOf, Runners
  <2>2. /\ Due(j)' = Due(j) /\ Due(j) \in {0, 1} /\ stalledCount'[j] = stalledCount[j]
        /\ faults'[j] \in Nat /\ faults'[j] >= faults[j]
    BY <1>4 DEF FindMailbox, Fault, queueVars, Due
  <2> QED BY <2>1, <2>2, SetsAreCounted DEF CauseInv
<1>5. ASSUME NEW w \in Workers, TrySave(w), NEW j \in Jobs PROVE Paid(j)
  BY <1>5, CreateNormalizedPays DEF TrySave, Clauses, CauseInv
<1>6. ASSUME NEW w \in Workers, CatchSave(w), NEW j \in Jobs PROVE Paid(j)
  BY <1>6, CreateNormalizedPays DEF CatchSave, Clauses, CauseInv
<1>7. ASSUME NEW w \in Workers, Return(w), NEW j \in Jobs PROVE Paid(j)
  <2>1. RowsOf(j)' = RowsOf(j) /\ Runners(j)' = Runners(j) \ {w}
    BY <1>7, LeavePays DEF Return, rowVars, RowsOf
  <2>2. /\ Due(j)' <= Due(j) /\ Due(j) \in {0, 1} /\ Due(j)' \in {0, 1}
        /\ faults'[j] = faults[j] /\ stalledCount'[j] = stalledCount[j]
    BY <1>7 DEF Return, Complete, Conclude, Holds, queueVars, Due
  <2>3. /\ Cardinality(Runners(j) \ {w}) \in Nat
        /\ Cardinality(Runners(j) \ {w}) <= Cardinality(Runners(j))
        /\ w \in Runners(j) =>
             Cardinality(Runners(j) \ {w}) + 1 = Cardinality(Runners(j))
    BY SetsAreCounted, RemovedIsCounted
  <2> QED BY <2>1, <2>2, <2>3, SetsAreCounted DEF CauseInv
<1>8. ASSUME NEW w \in Workers, Rethrow(w), NEW j \in Jobs PROVE Paid(j)
  <2>1. RowsOf(j)' = RowsOf(j) /\ Runners(j)' = Runners(j) \ {w}
    BY <1>8, LeavePays DEF Rethrow, rowVars, RowsOf
  <2>2. faults'[j] = faults[j] /\ stalledCount'[j] = stalledCount[j]
    BY <1>8 DEF Rethrow, Fail, Conclude, queueVars
  <2>3. /\ Cardinality(Runners(j) \ {w}) \in Nat
        /\ Cardinality(Runners(j) \ {w}) <= Cardinality(Runners(j))
        /\ w \in Runners(j) =>
             Cardinality(Runners(j) \ {w}) + 1 = Cardinality(Runners(j))
    BY SetsAreCounted, RemovedIsCounted
  <2>4. CASE cur[w] = j
    <3>1. w \in Runners(j)
      BY <1>8, <2>4 DEF Rethrow, Runners
    <3>2. Due(j) \in {0, 1} /\ Due(j)' \in {0, 1} /\ Due(j)' <= Due(j) + 1
      BY DEF Due
    <3> QED BY <2>1, <2>2, <2>3, <3>1, <3>2, SetsAreCounted DEF CauseInv
  <2>5. CASE cur[w] # j
    <3>1. Due(j)' = Due(j) /\ Due(j) \in {0, 1}
      BY <1>8, <2>5 DEF Rethrow, Fail, Conclude, queueVars, Due
    <3> QED BY <2>1, <2>2, <2>3, <3>1, SetsAreCounted DEF CauseInv
  <2> QED BY <2>4, <2>5
<1>9. ASSUME NEW w \in Workers, Restart(w), NEW j \in Jobs PROVE Paid(j)
  <2>1. RowsOf(j)' = RowsOf(j) /\ Runners(j)' = Runners(j)
    BY <1>9 DEF Restart, Goto, rowVars, RowsOf, Runners
  <2> QED BY <1>9, <2>1 DEF Restart, queueVars, Due, CauseInv
<1>10. ASSUME NEW w \in Workers, LoseLock(w), NEW j \in Jobs PROVE Paid(j)
  BY <1>10 DEF LoseLock, ExpireLocks, taskVars, rowVars, RowsOf, Runners,
               Due, CauseInv
<1>11. ASSUME NEW w \in Workers, Crash(w), NEW j \in Jobs PROVE Paid(j)
  <2>1. Runners(j)' = Runners(j) \ {w}
    BY <1>11, LeavePays DEF Crash
  <2>2. /\ Due(j)' = Due(j) /\ Due(j) \in {0, 1}
        /\ faults'[j] = faults[j] /\ stalledCount'[j] = stalledCount[j]
    BY <1>11 DEF Crash, ExpireLocks, Due
  <2>3. \/ RowsOf(j)' = RowsOf(j)
        \/ /\ RowsOf(j)' = RowsOf(j) \cup {Row(w, pc[w])}
           /\ w \in Runners(j)
    BY <1>11 DEF Crash, RowsOf, Row, Runners, Clauses
  <2>4. /\ Cardinality(Runners(j) \ {w}) \in Nat
        /\ Cardinality(Runners(j) \ {w}) <= Cardinality(Runners(j))
        /\ w \in Runners(j) =>
             Cardinality(Runners(j) \ {w}) + 1 = Cardinality(Runners(j))
    BY SetsAreCounted, RemovedIsCounted
  <2>5. /\ Cardinality(RowsOf(j) \cup {Row(w, pc[w])}) \in Nat
        /\ Cardinality(RowsOf(j) \cup {Row(w, pc[w])})
             <= Cardinality(RowsOf(j)) + 1
    BY SetsAreCounted, AddedIsCounted
  <2>6. CASE RowsOf(j)' = RowsOf(j)
    BY <2>1, <2>2, <2>4, <2>6, SetsAreCounted DEF CauseInv
  <2>7. CASE /\ RowsOf(j)' = RowsOf(j) \cup {Row(w, pc[w])}
             /\ w \in Runners(j)
    <3>1. Cardinality(Runners(j) \ {w}) + 1 = Cardinality(Runners(j))
      BY <2>4, <2>7
    <3>2. /\ Cardinality(RowsOf(j)') \in Nat
          /\ Cardinality(RowsOf(j)') <= Cardinality(RowsOf(j)) + 1
      BY <2>5, <2>7
    <3>3. Cardinality(Runners(j)') = Cardinality(Runners(j) \ {w})
      BY <2>1
    <3> QED BY <2>2, <2>4, <3>1, <3>2, <3>3, SetsAreCounted DEF CauseInv
  <2> QED BY <2>3, <2>6, <2>7
<1>12. ASSUME PromoteSend, NEW j \in Jobs PROVE Paid(j)
  BY <1>12 DEF PromoteSend, Promote, taskVars, rowVars, RowsOf, Runners,
               Due, CauseInv
<1>13. ASSUME StallSend, NEW j \in Jobs PROVE Paid(j)
  <2>1. RowsOf(j)' = RowsOf(j) /\ Runners(j)' = Runners(j)
    BY <1>13 DEF StallSend, taskVars, rowVars, RowsOf, Runners
  <2>2. /\ faults'[j] = faults[j]
        /\ Due(j) \in {0, 1} /\ Due(j)' \in {0, 1}
        /\ \/ stalledCount'[j] = stalledCount[j] + 1
           \/ stalledCount'[j] = stalledCount[j] /\ Due(j)' = Due(j)
    BY <1>13 DEF StallSend, Stall, Due
  <2> QED BY <2>1, <2>2, SetsAreCounted DEF CauseInv
<1>14. ASSUME NEW m \in Mailboxes, MailboxChanges(m), NEW j \in Jobs
       PROVE  Paid(j)
  BY <1>14 DEF MailboxChanges, queueVars, taskVars, rowVars, RowsOf, Runners,
               Due, CauseInv
<1> QED BY <1>1, <1>2, <1>3, <1>4, <1>5, <1>6, <1>7, <1>8, <1>9, <1>10,
    <1>11, <1>12, <1>13, <1>14 DEF Next, Fetch, Proceed

(* Nothing changes in a step that changes no variable. *)
LEMMA StutterInv == Inv /\ UNCHANGED vars => Inv'
<1> SUFFICES ASSUME Inv, UNCHANGED vars PROVE Inv'
  OBVIOUS
<1> USE DEF vars, taskVars, rowVars, Inv
<1>1. QueueInv'
  BY QueueStutterInv
<1>2. TypeOK' /\ TaskInv'
  BY DEF queueVars, QueueTypeOK, TypeOK, TaskInv, Busy
<1>3. RowInv' /\ RecordInv' /\ UnannouncedNeedsCause'
  BY DEF queueVars, RowInv, RecordInv, CompletedIsRecorded, RowsOf,
         UnannouncedNeedsCause, Holds
<1>4. FaultInv'
  BY DEF queueVars, FaultInv, SeenInv, AttemptsNeedFaults, ThrowNeedsFault,
         FailureNeedsFaults
<1>5. CalmInv' /\ StatusInv'
  BY DEF queueVars, CalmInv, StatusInv, SeenInv, VerdictInv, StatusJustified
<1>6. CauseInv'
  BY DEF queueVars, CauseInv, RowsOf, Runners, Due
<1> QED BY <1>1, <1>2, <1>3, <1>4, <1>5, <1>6

(* The inductive invariant holds throughout every execution. *)
THEOREM Invariance == Spec => []Inv
<1>1. Init => Inv
  BY InitInv
<1>2. Inv /\ [Next]_vars => Inv'
  <2>1. ASSUME Inv, Next PROVE Inv'
    BY <2>1, TypeOKStep, QueueInvStep, TaskInvStep, RowInvStep, RecordInvStep,
       FaultInvStep, CalmInvStep, StatusInvStep, UnannouncedNeedsCauseStep,
       CauseInvStep
       DEF Inv
  <2> QED BY <2>1, StutterInv
<1> QED BY <1>1, <1>2, PTL DEF Spec

-----------------------------------------------------------------------------
(* The variables keep their types, and only stored rows are announced. *)
THEOREM TypeCorrectness == Spec => []TypeOK
<1>1. Inv => TypeOK
  BY DEF Inv
<1> QED BY <1>1, Invariance, PTL

(* A send reported as completed has left a row. *)
THEOREM CompletedSendsAreRecorded == Spec => []CompletedIsRecorded
<1>1. Inv => CompletedIsRecorded
  BY DEF Inv, RecordInv
<1> QED BY <1>1, Invariance, PTL

(* Whatever is retried, one send leaves at most two rows per permitted call.*)
THEOREM RowsAreBounded == Spec => []RowsBounded
<1>1. Inv => RowsBounded
  BY RowsAreCounted DEF RowsBounded, Inv
<1> QED BY <1>1, Invariance, PTL

(* A send to an existing mailbox fails only after as many failed calls as  *)
(* it has attempts, or too many stalls.                                    *)
THEOREM FailuresNeedFaults == Spec => []FailureNeedsFaults
<1>1. Inv => FailureNeedsFaults
  BY DEF Inv, FaultInv
<1> QED BY <1>1, Invariance, PTL

(* Two runs of processSend overlap only after a stall. *)
THEOREM OverlapsNeedStalls == Spec => []OverlapNeedsStall
<1>1. Inv => OverlapNeedsStall
  BY DEF Inv, CalmInv, OverlapNeedsStall, TypeOK, QueueTypeOK
<1> QED BY <1>1, Invariance, PTL

(* Each row of a send beyond the first has a failed call or a stall of its *)
(* own.                                                                    *)
THEOREM RowsHaveTheirCauses == Spec => []RowsHaveCauses
<1>1. ASSUME Inv, NEW j \in Jobs
      PROVE  Cardinality(RowsOf(j)) <= 1 + faults[j] + stalledCount[j]
  <2>1. Cardinality(RowsOf(j)) \in Nat /\ Cardinality(Runners(j)) \in Nat
    BY <1>1, SetsAreCounted DEF Inv
  <2>2. Due(j) \in {0, 1} /\ faults[j] \in Nat /\ stalledCount[j] \in Nat
    BY <1>1 DEF Inv, TypeOK, QueueTypeOK, Due
  <2>3. Cardinality(RowsOf(j)) + Cardinality(Runners(j)) + Due(j)
          <= 1 + faults[j] + stalledCount[j]
    BY <1>1 DEF Inv, CauseInv
  <2> QED BY <2>1, <2>2, <2>3
<1>2. Inv => RowsHaveCauses
  BY <1>1 DEF RowsHaveCauses
<1> QED BY <1>2, Invariance, PTL

(* The status of a row agrees with the mailbox at some time since the send.*)
THEOREM StatusesAreJustified == Spec => []StatusJustified
<1>1. Inv => StatusJustified
  BY DEF Inv, StatusInv
<1> QED BY <1>1, Invariance, PTL

(* A row no dashboard was told of has a failed call, a stall or a dead     *)
(* process to blame.                                                       *)
THEOREM UnannouncedRowsNeedCauses == Spec => []UnannouncedNeedsCause
<1>1. Inv => UnannouncedNeedsCause
  BY DEF Inv
<1> QED BY <1>1, Invariance, PTL

-----------------------------------------------------------------------------
(***************************************************************************)
(* OutboundMail implements SendContract: the inductive invariant gives the *)
(* guards of the contract's actions, one lemma per kind of step.           *)
(***************************************************************************)
(* The row a call stores is new. *)
LEMMA RowIsNew ==
    ASSUME Inv, NEW w \in Workers, pc[w] \in Clauses
    PROVE  Row(w, pc[w]) \notin events /\ cur[w] \in Jobs
BY DEF Inv, TypeOK, TaskInv, Busy, RowInv, Row, Clauses

(* The bound on the rows holds in the next state as well. *)
LEMMA BoundInv == Inv => RowsBounded
BY RowsAreCounted DEF RowsBounded, Inv

(* The same in the next state. *)
LEMMA BoundInvNext == Inv' => RowsBounded'
BY BoundInv, PTL

(* Storing a row is the contract's Record. *)
LEMMA StoreRecords ==
    ASSUME Inv, Inv', NEW w \in Workers, pc[w] \in Clauses,
           events' = events \cup {Row(w, pc[w])},
           state' = state, seen' = seen
    PROVE  Contract!Next
<1> SUFFICES ASSUME NEW r, NEW c, r = Row(w, pc[w]), c = cur[w]
             PROVE  Contract!Next
  OBVIOUS
<1>1. r \notin events /\ c \in Jobs /\ r.job = c
  BY RowIsNew DEF Row
<1>2. /\ RowsOf(c)' = RowsOf(c) \cup {r}
      /\ \A j \in Jobs \ {c} : RowsOf(j)' = RowsOf(j)
  BY <1>1 DEF RowsOf
<1>3. /\ Cardinality(RowsOf(c)') = Cardinality(RowsOf(c)) + 1
      /\ Cardinality(RowsOf(c)) \in Nat
  <2>1. IsFiniteSet(RowsOf(c)) /\ r \notin RowsOf(c)
    BY <1>1, RowsAreCounted DEF RowsOf, Inv
  <2> QED BY <1>2, <2>1, FS_AddElement, FS_CardinalityType
<1>4. Cardinality(RowsOf(c)) < 2 * MaxRuns
  <2>1. Cardinality(RowsOf(c)') <= 2 * MaxRuns /\ MaxRuns \in Nat
    BY <1>1, BoundInvNext, QueueAssumption DEF MaxRuns, RowsBounded
  <2> QED BY <1>3, <2>1
<1>5. r.status = "ok" => "live" \in seen[c]
  BY DEF Row, Inv, StatusInv, VerdictInv, Clauses
<1>6. Fate(c) # "none"
  BY <1>1 DEF Inv, TaskInv, Busy, Clauses, Fate, TypeOK, QueueTypeOK
<1>7. Contract!Record(c, r.status = "ok")
  <2>1. \A j \in Jobs : Fate(j)' = Fate(j)
    BY DEF Fate
  <2>2. [j \in Jobs |-> Cardinality(RowsOf(j))]'
          = [[j \in Jobs |-> Cardinality(RowsOf(j))]
                EXCEPT ![c] = Cardinality(RowsOf(c)) + 1]
    BY <1>1, <1>2, <1>3
  <2>3. {j \in Jobs : \E e \in RowsOf(j) : e.status = "ok"}'
          = IF r.status = "ok"
            THEN {j \in Jobs : \E e \in RowsOf(j) : e.status = "ok"} \cup {c}
            ELSE {j \in Jobs : \E e \in RowsOf(j) : e.status = "ok"}
    BY <1>1, <1>2
  <2> QED BY <1>1, <1>4, <1>5, <1>6, <2>1, <2>2, <2>3 DEF Contract!Record
<1>8. (r.status = "ok") \in BOOLEAN
  OBVIOUS
<1> QED BY <1>1, <1>7, <1>8 DEF Contract!Next
(* A step that changes neither rows nor lists nor what was seen is none of *)
(* the contract's.                                                         *)
LEMMA Unseen ==
    UNCHANGED <<state, events, seen>> => UNCHANGED Contract!vars
BY DEF Contract!vars, Fate, RowsOf

(* A step of the queue moves one job and with it the fate of its send. *)
LEMMA MoveChangesFate ==
    ASSUME TypeOK, NEW j \in Jobs, NEW s, state' = [state EXCEPT ![j] = s]
    PROVE  [i \in Jobs |-> Fate(i)]'
             = [[i \in Jobs |-> Fate(i)] EXCEPT
                  ![j] = IF s \in {"waiting", "active", "delayed"}
                         THEN "accepted" ELSE s]
BY DEF Fate, TypeOK, QueueTypeOK

(* POST /mail/send accepts a send. *)
LEMMA SendAccepts ==
    ASSUME Inv, NEW j \in Jobs, Send(j) PROVE Contract!Next
<1>1. TypeOK /\ state[j] = "none" /\ state' = [state EXCEPT ![j] = "waiting"]
  BY DEF Inv, Send, EnqueueSend, Add
<1>2. events' = events /\ seen' = [seen EXCEPT ![j] = {token[MailboxOf[j]]}]
  BY DEF Send, rowVars
<1>3. seen[j] = {}
  BY <1>1 DEF Inv, StatusInv, SeenInv
<1>4. {i \in Jobs : "live" \in seen[i]}'
        \in {{i \in Jobs : "live" \in seen[i]},
             {i \in Jobs : "live" \in seen[i]} \cup {j}}
  BY <1>1, <1>2, <1>3 DEF TypeOK
<1>5. Contract!Accept(j)
  BY <1>1, <1>2, <1>4, MoveChangesFate DEF Contract!Accept, Fate, RowsOf
<1> QED BY <1>5 DEF Contract!Next

(* A report that counts completes a recorded send, gives it up after the   *)
(* last attempt, or lets it be retried.                                    *)
LEMMA ConcludeDecides ==
    ASSUME Inv, NEW w \in Workers, pc[w] \in {"return", "throw"},
           NEW s \in {"completed", "delayed", "failed"},
           s = "completed" <=> pc[w] = "return",
           Holds(w, cur[w]), Conclude(cur[w], s),
           events' = events, seen' = seen
    PROVE  Contract!Next \/ UNCHANGED Contract!vars
<1> SUFFICES ASSUME NEW c, c = cur[w]
             PROVE  Contract!Next \/ UNCHANGED Contract!vars
  OBVIOUS
<1>1. c \in Jobs /\ state[c] = "active" /\ Fate(c) = "accepted"
  BY DEF Inv, TypeOK, TaskInv, Busy, Holds, Fate
<1>2. /\ state' = [state EXCEPT ![c] = s]
      /\ UNCHANGED [j \in Jobs |-> Cardinality(RowsOf(j))]
      /\ UNCHANGED {j \in Jobs : \E e \in RowsOf(j) : e.status = "ok"}
      /\ UNCHANGED {j \in Jobs : "live" \in seen[j]}
  BY DEF Conclude, RowsOf
<1>3. CASE s = "completed"
  <2>1. Cardinality(RowsOf(c)) > 0
    <3>1. RowsOf(c) # {}
      BY <1>3 DEF Inv, RecordInv
    <3> QED BY <1>1, <3>1, RowsAreCounted, FS_EmptySet, FS_CardinalityType
        DEF Inv
  <2>2. Contract!Conclude(c)
    BY <1>1, <1>2, <1>3, <2>1, MoveChangesFate DEF Contract!Conclude, Inv
  <2> QED BY <1>1, <2>2 DEF Contract!Next
<1>4. CASE s = "failed"
  <2>1. Contract!GiveUp(c)
    BY <1>1, <1>2, <1>4, MoveChangesFate DEF Contract!GiveUp, Inv
  <2> QED BY <1>1, <2>1 DEF Contract!Next
<1>5. CASE s = "delayed"
  BY <1>1, <1>2, <1>5, MoveChangesFate DEF Contract!vars, Inv, Fate
<1> QED BY <1>3, <1>4, <1>5

(* A token that comes alive does so for every open or settled send to its  *)
(* mailbox.                                                                *)
LEMMA TokenLivesOn ==
    ASSUME Inv, NEW m \in Mailboxes, MailboxChanges(m)
    PROVE  Contract!Next
<1>1. PICK t \in {"live", "expired"} :
        seen' = [j \in Jobs |->
                   IF MailboxOf[j] = m /\ state[j] # "none"
                   THEN seen[j] \cup {t} ELSE seen[j]]
  BY DEF MailboxChanges
<1>2. state' = state /\ events' = events
  BY DEF MailboxChanges, queueVars, rowVars
<1> SUFFICES ASSUME NEW S,
                    S = IF t = "live"
                        THEN {j \in Jobs : MailboxOf[j] = m /\ state[j] # "none"}
                        ELSE {}
             PROVE  Contract!Next
  OBVIOUS
<1>3. S \in SUBSET Jobs /\ \A j \in S : Fate(j) # "none"
  BY DEF Fate
<1>4. {j \in Jobs : "live" \in seen[j]}'
        = {j \in Jobs : "live" \in seen[j]} \cup S
  BY <1>1
<1>5. Contract!TokenLives(S)
  BY <1>2, <1>3, <1>4 DEF Contract!TokenLives, Fate, RowsOf
<1> QED BY <1>3, <1>5 DEF Contract!Next

(* The worker that meets a job stalled too often gives its send up. *)
LEMMA DiscardGivesUp ==
    ASSUME Inv, NEW w \in Workers, DiscardSend(w) PROVE Contract!Next
<1>1. PICK j \in Jobs : /\ state[j] = "waiting"
                        /\ state' = [state EXCEPT ![j] = "failed"]
  BY DEF DiscardSend, Discard
<1>2. events' = events /\ seen' = seen
  BY DEF DiscardSend, rowVars
<1>3. Contract!GiveUp(j)
  BY <1>1, <1>2, MoveChangesFate DEF Contract!GiveUp, Inv, Fate, RowsOf
<1> QED BY <1>3 DEF Contract!Next

(* Between two lists of open jobs nothing of the contract happens. *)
LEMMA OpenMoveUnseen ==
    ASSUME TypeOK, NEW j \in Jobs,
           state[j] \in {"waiting", "active", "delayed"},
           NEW s \in {"waiting", "active", "delayed"},
           state' = [state EXCEPT ![j] = s], events' = events, seen' = seen
    PROVE  UNCHANGED Contract!vars
BY MoveChangesFate DEF Contract!vars, Fate, RowsOf

(* An INSERT records the send or leaves no trace. *)
LEMMA CreateNormalizedRefines ==
    ASSUME Inv, Inv', NEW w \in Workers, pc[w] \in Clauses,
           NEW failed, CreateNormalized(w, pc[w], failed)
    PROVE  Contract!Next \/ UNCHANGED Contract!vars
<1>1. state' = state /\ seen' = seen
  BY DEF CreateNormalized, queueVars
<1>2. \/ events' = events
      \/ events' = events \cup {Row(w, pc[w])}
  BY DEF CreateNormalized, rowVars
<1> QED BY <1>1, <1>2, StoreRecords, Unseen

(* Every step is one of the contract's or none of its business. *)
LEMMA NextRefines ==
    ASSUME Inv, Inv', Next PROVE Contract!Next \/ UNCHANGED Contract!vars
<1> USE DEF rowVars, queueVars
<1>1. ASSUME NEW j \in Jobs, Send(j) PROVE Contract!Next
  BY <1>1, SendAccepts
<1>2. ASSUME NEW w \in Workers, TakeSend(w) PROVE UNCHANGED Contract!vars
  BY <1>2, OpenMoveUnseen DEF Inv, TakeSend, Take
<1>3. ASSUME NEW w \in Workers, DiscardSend(w) PROVE Contract!Next
  BY <1>3, DiscardGivesUp
<1>4. ASSUME NEW w \in Workers, FindMailbox(w) \/ Restart(w) \/ LoseLock(w)
      PROVE  UNCHANGED Contract!vars
  BY <1>4, Unseen DEF FindMailbox, Restart, LoseLock, ExpireLocks
<1>5. ASSUME NEW w \in Workers, TrySave(w) \/ CatchSave(w)
      PROVE  Contract!Next \/ UNCHANGED Contract!vars
  BY <1>5, CreateNormalizedRefines DEF TrySave, CatchSave, Clauses
<1>6. ASSUME NEW w \in Workers, Return(w)
      PROVE  Contract!Next \/ UNCHANGED Contract!vars
  BY <1>6, ConcludeDecides, Unseen DEF Return, Complete
<1>7. ASSUME NEW w \in Workers, Rethrow(w)
      PROVE  Contract!Next \/ UNCHANGED Contract!vars
  BY <1>7, ConcludeDecides, Unseen DEF Rethrow, Fail
<1>8. ASSUME NEW w \in Workers, Crash(w)
      PROVE  Contract!Next \/ UNCHANGED Contract!vars
  BY <1>8, StoreRecords, Unseen DEF Crash, ExpireLocks
<1>9. ASSUME PromoteSend \/ StallSend PROVE UNCHANGED Contract!vars
  BY <1>9, OpenMoveUnseen DEF Inv, PromoteSend, Promote, StallSend, Stall,
                       Holds
<1>10. ASSUME NEW m \in Mailboxes, MailboxChanges(m) PROVE Contract!Next
  BY <1>10, TokenLivesOn
<1> QED BY <1>1, <1>2, <1>3, <1>4, <1>5, <1>6, <1>7, <1>8, <1>9, <1>10
        DEF Next, Fetch, Proceed

(* OutboundMail implements SendContract. *)
THEOREM Refinement == Spec => ImplementsContract
<1>1. Init => Contract!Init
  BY FS_EmptySet DEF Init, QueueInit, Contract!Init, Fate, RowsOf
<1>2. Inv /\ Inv' /\ [Next]_vars => [Contract!Next]_(Contract!vars)
  <2>1. UNCHANGED vars => UNCHANGED Contract!vars
    BY Unseen DEF vars, queueVars, rowVars
  <2> QED BY <2>1, NextRefines
<1> QED BY <1>1, <1>2, Invariance, PTL
        DEF Spec, ImplementsContract, Contract!Spec

=============================================================================
