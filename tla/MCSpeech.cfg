SPECIFICATION Spec
CONSTANTS
    Request = {h1, w1}
    MaxDepth = 2
    WsRequest = {w1}
    Leaver = {h1, w1}
    MayHang = TRUE
    MaxFragments = 2
    MaxChunks = 1
INVARIANTS
    CleanEndIsComplete
PROPERTIES
    SlotFollowsThread
    IsAdmission
    EverythingEnds
    WedgeIsNoticedIfHeard
CHECK_DEADLOCK FALSE
