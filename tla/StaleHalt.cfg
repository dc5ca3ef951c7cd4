CONSTANTS
    NumHarts = 1
    Scripts <- EntryScripts
    Configs <- StaleConfigs
    Defects <- MCDefects
    TimingSteps <- MCTimingSteps
    FalseAlarms <- MCFalseAlarms
SPECIFICATION Spec
PROPERTY
    WaitSeesRehalt
