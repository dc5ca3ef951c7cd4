CONSTANTS
    Values = {0, 1}
    Unknown = Unknown
    Span = 2
    Wide = TRUE
    Liberties = {}
SPECIFICATION Spec
INVARIANTS NoFalseMismatch MemoryShadowTrue BurstInStep
