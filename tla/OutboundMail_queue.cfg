SPECIFICATION Spec
CONSTANTS
    j1 = j1
    m1 = m1
    w1 = w1
    w2 = w2
    Jobs = {j1}
    Workers = {w1}
    Mailboxes = {m1}
    MailboxOf <- OneMailbox
    NoWorker = NoWorker
    NoJob = NoJob
    MaxAttempts = 1
    MaxStalledCount = 1
    MaxFaults = 1
INVARIANTS
    ListedAsCompletedIsCompleted
