SPECIFICATION PathSpec
CONSTANTS
    Word = {w1}
    Copy = {c1, c2}
    Texts <- MCTexts
    MaxChars = 5
    First = 2
    GrowthNum = 3
    GrowthDen = 2
INVARIANTS
    Coherent
    HomeSavedWhole
    SpokenAsWritten
    WithinCap
    WholeWords
    FullFragments
PROPERTIES
    CatchesUp
