CONSTANTS
    MaxCalls = 3
    MaxSteps = 2
    MaxSessions = 1
    StopOnError = FALSE
    Timeouts = FALSE
    Crashes = FALSE
    Interrupts = TRUE
    LongLines = {}
    DebugLevel = FALSE
SPECIFICATION Spec
INVARIANTS VerdictAgrees
