SPECIFICATION AlgorithmsSpec
CONSTANTS
    Nodes <- SomeNodes
    Walks <- SomeWalks
INVARIANTS
    DatesAgree
    TextsFitTheirBuffers
    NumbersReadBack
    NoExportablePathSigns
CHECK_DEADLOCK FALSE
