SPECIFICATION Spec
CONSTANTS
    Worker = {w1, w2}
    Key = {k1, k2}
    Version = {v1, v2}
    RamMax = 2
    DiskMax = 3
    MaxSize = 4
INVARIANTS
    RamBudget
    VersionsApart
PROPERTIES
    PutLeavesRoom
