SPECIFICATION Spec
CONSTANTS
    Request = {r1, r2, r3, r4}
    MaxDepth = 3
INVARIANTS
    TypeOK
    SlotConserved
    NoIdleSlot
    DepthIsExact
PROPERTIES
    ServedInOrder
    LineMovesUp
