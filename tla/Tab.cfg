SPECIFICATION TabSpec
CONSTANTS
    t1 = t1
    k1 = k1
    k2 = k2
    k3 = k3
    None = None
    Tabs = {t1}
    Tokens = {k1, k2, k3}
    MaxEvents = 3
CONSTRAINT FewUnread
INVARIANTS
    SendsWhatItShows
    UnreadOnce
