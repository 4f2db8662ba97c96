SPECIFICATION DashboardSpec
CONSTANTS
    f1 = f1
    AnyLog = AnyLog
    Pages = {"logs", "mailboxes", "clients", "other"}
    Kinds = {"email_event", "clientAdded", "mailboxAdded", "mailboxUpdated"}
    Filters = {AnyLog, f1}
    MaxChanges = 2
    MaxIssued = 3
INVARIANTS
    QuietIsCurrent
