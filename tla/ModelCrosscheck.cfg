CONSTANTS
    NumHarts = 2
    Writes <- MCWrites
    HasResetHaltReq = TRUE
    SupportsHartreset = TRUE
    SupportsHasel = FALSE
    ResumeackReset = FALSE
    HaveresetPoweron = TRUE
    HartresetOnMissingHart = FALSE
SPECIFICATION XSpec
INVARIANTS DmResetState
PROPERTIES MutexKept ReleaseReportsReset HaltOnReset UnselectedUndisturbed PredictionsAgree
