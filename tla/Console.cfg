SPECIFICATION Spec
CONSTANTS
    o1 = o1
    o2 = o2
    d1 = d1
    d2 = d2
    f1 = f1
    m1 = m1
    m2 = m2
    c1 = c1
    All = All
    Providers = {"google"}
    Owners = {o1, o2}
    Times <- EdgeTimes
    Dates = {1}
    Zones <- EdgeZones
    Limit = 1
    MaxRows = 2
    MaxQueries = 2
    Domains = {d1, d2}
    Spellings = {1, 2}
    Take = 2
    NoEntry = NoEntry
    MaxClients = 4
    MaxLists = 3
    MaxFaults = 1
    Files = {f1}
    NoFile = NoFile
    MaxDrafts = 2
    MaxPosts = 3
    Mailboxes = {m1, m2}
    Clients = {c1}
    ClientOf <- OneClient
    Lifetimes = {1, 3}
    MaxNow = 3
    Never = Never
    Absent = Absent
CONSTRAINT ZoneMatters
INVARIANTS
    MissingByZone
    DuplicatesCostFaults
    TwiceNeedsLostAnswer
    NothingVanishes
    ShownFileIsSent
    ExpiredIsRefused
