SPECIFICATION IdentitySpec
CONSTANTS
    Gated = TRUE
    Bagl = FALSE
    h1 = h1
    v1 = v1
    v2 = v2
    Headers = {h1}
    Paths <- OnePath
    Vals = {v1}
    ListMax = 2
    ProofMax = 2
    CdataMax = 1
    Providers <- OneProvider
    KeysMax = 3
INVARIANTS
    IdentityTypeOK
    IdentitySignedWasReviewed
    IdentitySignedIsComplete
PROPERTIES
    IdentityFlowsImplementContract
