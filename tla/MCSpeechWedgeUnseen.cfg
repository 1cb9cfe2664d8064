SPECIFICATION Spec
CONSTANTS
    Request = {w1, w2}
    MaxDepth = 2
    WsRequest = {w1, w2}
    Leaver = {w1}
    MayHang = TRUE
    MaxFragments = 1
    MaxChunks = 1
PROPERTIES
    WedgeIsNoticed
CHECK_DEADLOCK FALSE
