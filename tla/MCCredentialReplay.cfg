SPECIFICATION CredentialSpec
CONSTANTS
    Gated = TRUE
    Bagl = TRUE
    h1 = h1
    v1 = v1
    v2 = v2
    Headers = {h1}
    Paths <- OnePath
    Vals = {v1}
    ListMax = 1
    ProofMax = 1
    CdataMax = 1
    Providers <- OneProvider
    KeysMax = 0
INVARIANTS
    CredentialSignedIsComplete
