SPECIFICATION ScheduleSpec
CONSTANTS
    Gated = TRUE
    Bagl = FALSE
    h1 = h1
    v1 = v1
    v2 = v2
    Headers = {h1}
    Paths <- OnePath
    Vals = {v1, v2}
    CborMax = 2
    CborChunkMax = 2
    CountMax = 3
    PacketMax = 2
INVARIANTS
    ScheduleTypeOK
    ScheduleSignedWasReviewed
    ScheduleReplyOwedIffReviewUp
    ScheduleSignedIsComplete
PROPERTIES
    ScheduleHostGetsSignature
    ScheduleImplementsContract
