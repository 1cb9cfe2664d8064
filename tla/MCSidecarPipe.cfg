SPECIFICATION Spec
CONSTANTS
    Call = {c1, c2}
    Overlap = FALSE
    MaxProc = 3
    MaxFrame = 2
    PipeFrames = 2
INVARIANTS
    OwnFrames
    NeverTruncated
    DeathCostsOneCall
PROPERTIES
    EveryCallEnds
