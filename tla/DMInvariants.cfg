CONSTANTS
    NumHarts = 2
    Writes <- MCWrites
    HasResetHaltReq = TRUE
    SupportsHartreset = TRUE
    SupportsHasel = FALSE
    ResumeackReset = FALSE
    HaveresetPoweron = FALSE
    StepArming = FALSE
    ResumeOnRelease = FALSE
SPECIFICATION ISpec
INVARIANTS NoDutViolation HartresetFollowsLevel
