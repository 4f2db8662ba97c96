SPECIFICATION FairSpec
CONSTANTS
    w1 = w1
    w2 = w2
    Jobs = {j1}
    Workers = {w1, w2}
    Mailboxes = {m1}
    Endpoints = {gmail}
    NoWorker = NoWorker
    NoJob = NoJob
    MaxAttempts = 1
    MaxStalledCount = 1
    MaxFaults = 2
INVARIANTS
    AcknowledgedIsKept
    LossNeedsFault
    RowsBounded
    RowAgreesWithReply
PROPERTIES
    Settles
