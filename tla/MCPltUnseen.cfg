SPECIFICATION AccountSpec
CONSTANTS
    Gated = TRUE
    Bagl = TRUE
    h1 = h1
    h2 = h2
    v1 = v1
    v2 = v2
    v3 = v3
    Headers = {h1}
    Paths <- OnePath
    Vals = {v1}
    CborMax = 1
    CborChunkMax = 1
    ProofMax = 1
    ProofChunkMax = 1
    LengthMax = 1
    ChunkMax = 1
    NameSize = 1
    PltMax = 2
    PltChunkMax = 2
    PltOps = {"pause", "mint"}
    PltFields = {"amount", "recipient", "target", "memo"}
    PltVals = {v3}
INVARIANT
    EveryTokenFieldWasShown
