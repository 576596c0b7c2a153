SPECIFICATION BakerSpec
CONSTANTS
    Gated = TRUE
    Bagl = FALSE
    h1 = h1
    h2 = h2
    v1 = v1
    v2 = v2
    Headers = {h1, h2}
    Paths <- MCPaths
    Vals = {v1, v2}
    Bitmaps <- SomeBitmaps
    UrlMax = 2
    ChunkMax = 3
INVARIANTS
    TypeOK
    SignedWasReviewed
    ReplyOwedIffReviewUp
    SignedIsComplete
    OpenStageWasReviewed
    ReviewInv
PROPERTIES
    HonestHostGetsSignature
    ImplementsContract
