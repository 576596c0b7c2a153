SPECIFICATION AccountSpec
CONSTANTS
    Gated = TRUE
    Bagl = TRUE
    h1 = h1
    h2 = h2
    v1 = v1
    v2 = v2
    v3 = v3
    Headers = {h1, h2}
    Paths <- OnePath
    Vals = {v1, v2}
    CborMax = 3
    CborChunkMax = 2
    ProofMax = 3
    ProofChunkMax = 2
    LengthMax = 2
    ChunkMax = 2
    NameSize = 2
    PltMax = 4
    PltChunkMax = 2
    PltOps = {"transfer", "addAllowList"}
    PltFields = {"amount", "recipient", "memo"}
    PltVals = {v3}
SYMMETRY Interchangeable
INVARIANTS
    AccountTypeOK
    AccountSignedWasReviewed
    AccountSignedIsComplete
PROPERTIES
    AccountFlowsImplementContract
