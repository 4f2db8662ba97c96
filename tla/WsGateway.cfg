SPECIFICATION Spec
CONSTANTS
    i1 = i1
    i2 = i2
    b1 = b1
    b2 = b2
    m1 = m1
    m2 = m2
    Instances = {i1, i2}
    Browsers = {b1, b2}
    Nowhere = Nowhere
    Messages = {m1, m2}
    MaxAsked = 1
    MaxLosses = 1
    Notices = {m1}
SYMMETRY GatewaySymmetry
INVARIANTS
    OncePerSending
    SameOrder
    DueIsComing
    CountSettles
