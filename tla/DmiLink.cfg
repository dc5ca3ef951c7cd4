\* A client may stop calling.
CHECK_DEADLOCK FALSE
CONSTANTS
    MaxBusyPolls = 2
    MaxBusyResets = 1
    BusyDrainScans = 1
    MaxCalls = 3
    CORR_DEPTH = 3
    addr <- MCaddr
    Kinds <- AllKinds
SPECIFICATION CorrelatorFairSpec
INVARIANTS ReadReturnsItsOwn ComparesItsOwn SilentMeansInStep CorrelatorKeepsUp
PROPERTIES SequenceEnds WorkShrinks
