SPECIFICATION CredentialSpec
CONSTANTS
    Gated = TRUE
    Bagl = FALSE
    h1 = h1
    v1 = v1
    v2 = v2
    Headers = {h1}
    Paths <- OnePath
    Vals = {v1}
    ListMax = 2
    ProofMax = 0
    CdataMax = 1
    Providers <- TwoProviders
    KeysMax = 0
INVARIANTS
    AddedProvidersAreShown
