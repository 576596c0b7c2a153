SPECIFICATION CredentialSpec
CONSTANTS
    Gated = FALSE
    Bagl = TRUE
    h1 = h1
    v1 = v1
    v2 = v2
    Headers = {h1}
    Paths <- OnePath
    Vals = {v1, v2}
    ListMax = 2
    ProofMax = 0
    CdataMax = 1
    Providers <- OneProvider
    KeysMax = 0
SYMMETRY Interchangeable
CONSTRAINT ShortHash
PROPERTIES
    KeysWaitForReview
