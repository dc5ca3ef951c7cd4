CONSTANTS
    MaxCalls = 3
    MaxSteps = 2
    MaxSessions = 1
    StopOnError = FALSE
    Timeouts = FALSE
    Crashes = FALSE
    Interrupts = FALSE
    LongLines = {1}
    DebugLevel = FALSE
SPECIFICATION Spec
INVARIANTS StreamInStep
