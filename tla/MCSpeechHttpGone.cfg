SPECIFICATION Spec
CONSTANTS
    Request = {h1, h2}
    MaxDepth = 2
    WsRequest = {}
    Leaver = {h1}
    MayHang = FALSE
    MaxFragments = 1
    MaxChunks = 1
INVARIANTS
    OneAtATime
CHECK_DEADLOCK FALSE
