SPECIFICATION Spec
CONSTANTS
    Repl = {}
    Script = {s1, s2}
    MaxCrash = 0
    MaxRacing = 1
    SystemctlAnswers = TRUE
INVARIANTS
    NeverMixed
CHECK_DEADLOCK FALSE
