SPECIFICATION BakerSpec
CONSTANTS
    Gated = TRUE
    Bagl = TRUE
    h1 = h1
    h2 = h2
    v1 = v1
    v2 = v2
    Headers = {h1}
    Paths <- MCPaths
    Vals = {v1}
    Bitmaps <- SomeBitmaps
    UrlMax = 2
    ChunkMax = 3
PROPERTIES
    RefusalLeavesDeviceFree
