CONSTANTS
    NumHarts = 1
    Scripts <- HartScripts
    Configs <- MCConfigs
    Defects <- MCDefects
    TimingSteps <- MCTimingSteps
    FalseAlarms <- MCFalseAlarms
SPECIFICATION FairSpec
INVARIANTS
    NoFalseFailure
    DefectsCaught
    CommandsStartClean
    BorrowedRegisters
    TapWalk
    HartHandedBack
    FollowsTheHart
PROPERTY
    SessionEnds
