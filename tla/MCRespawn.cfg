SPECIFICATION Spec
CONSTANTS
    Repl = {}
    Script = {s1}
    MaxCrash = 0
    MaxRacing = 0
    SystemctlAnswers = TRUE
PROPERTIES
    WatchdogIsRepaired
CHECK_DEADLOCK FALSE
