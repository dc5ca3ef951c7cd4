CONSTANTS
    Values = {0, 1}
    Unknown = Unknown
    RegNos = {"gpr", "x0", "trigger"}
    X0 = "x0"
    Triggers = {"trigger"}
    Commands <- MCCommands
    AutoWords = {{}, {0}}
    Liberties = {}
SPECIFICATION Spec
INVARIANTS NoFalseMismatch ShadowTrue ClaimTrue
