SPECIFICATION AccountsFairSpec
CONSTANTS
    s1 = s1
    s2 = s2
    c1 = c1
    c2 = c2
    Starts = {s1, s2}
    Changes = {c1, c2}
    Chosen = {"chosen1", "chosen2"}
    Weak = "weak"
    Configured = "configured"
    Random = "random"
INVARIANTS
    UnflaggedIsChosen
PROPERTIES
    CurrentIsChecked
    ResetTakes
    StartsSucceed
CHECK_DEADLOCK FALSE
