CONSTANTS
    NumHarts = 2
    Scripts <- RunControlScripts
    Configs <- MCConfigs
    Defects <- MCDefects
    TimingSteps <- MCTimingSteps
    FalseAlarms <- MCFalseAlarms
SPECIFICATION FairSpec
INVARIANTS
    NoFalseFailure
    DefectsCaught
    NothingLeftAsserted
    SelectionInStep
PROPERTY
    SessionEnds
