SPECIFICATION SessionSpec
CONSTANTS
    Gated = TRUE
    Bagl = FALSE
    h1 = h1
    v1 = v1
    Headers = {h1}
    Paths <- TwoPaths
    Vals = {v1}
    CborMax = 2
    CborChunkMax = 3
    Purposes = {"recovery"}
INVARIANTS
    SessionTypeOK
    TransferSignedWasReviewed
    TransferSignedIsComplete
    SessionReplyOwedIffReviewUp
    PendingIffKeyReviewUp
PROPERTIES
    ExportedKeysWereConsented
    TransferHostGetsSignature
