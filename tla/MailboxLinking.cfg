SPECIFICATION Spec
CONSTANTS
    r1 = r1
    r2 = r2
    Requests = {r1, r2}
    Emails = {e1}
    NoEmail = NoEmail
    Providers = {google, outlook}
    NoProvider = NoProvider
    Clients = {c1}
    NoClient = NoClient
    Ids = {1, 2, 3}
    SeedIds = {1}
    Seed = Seed
SYMMETRY RequestSymmetry
INVARIANTS
    TokensMatchAccount
    ClientProviderConsistent
    NoDuplicateMailbox
    ExpiryBelongsToToken
    BoardsAgree
PROPERTIES
    RefreshKeepsTokens
CHECK_DEADLOCK FALSE
