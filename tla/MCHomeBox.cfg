SPECIFICATION Spec
CONSTANTS
    Repl = {r1, r2}
    Script = {s1, s2}
    MaxCrash = 1
    MaxRacing = 2
    SystemctlAnswers = TRUE
INVARIANTS
    OneTenant
    SpawnOnlyWithoutUnit
PROPERTIES
    ReplIsAnswered
    SwitchEnds
    CrashIsRepaired
CHECK_DEADLOCK FALSE
