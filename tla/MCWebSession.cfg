SPECIFICATION Spec
CONSTANTS
    Line = {l1, l2}
    Socket = {1, 2}
    MaxFrames = 2
INVARIANTS
    AnswersInOrder
    OneVoice
    LostForCause
PROPERTIES
    EveryClickEnds
