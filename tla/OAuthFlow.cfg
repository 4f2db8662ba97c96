SPECIFICATION Spec
CONSTANTS
    d1 = d1
    d2 = d2
    e1 = e1
    e2 = e2
    c1 = c1
    c2 = c2
    Dashboards = {d1}
    Emails = {e1, e2}
    Clients = {c1, c2}
    Providers = {"google", "outlook"}
    Configured = {"google", "outlook"}
    MaxFlows = 2
    MaxSecrets = 2
SYMMETRY FlowSymmetry
INVARIANTS
    LinkedAsAsked
    ConnectedIsLinked
CHECK_DEADLOCK FALSE
