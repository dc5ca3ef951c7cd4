CONSTANTS
    MaxCalls = 3
    MaxSteps = 1
    MaxSessions = 2
    StopOnError = TRUE
    Timeouts = TRUE
    Crashes = TRUE
    Interrupts = TRUE
    LongLines = {1}
    DebugLevel = TRUE
SPECIFICATION FairSpec
INVARIANTS ReplyAnswersItsCall ShortLinesInStep
PROPERTIES ImplementsContract CallReturns ShutdownEndsSimulation
