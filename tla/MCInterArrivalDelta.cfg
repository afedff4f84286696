CONSTANTS
    GroupLength = 1
    BurstDelta = 0
    MaxBurst = 3
    OffsetThreshold = 2
    ReorderedReset = 2
    StreamTimeOut = 2
    Period = 5
    Start = 0
    Offsets = {4}
    MaxTime = 6
    MaxInFlight = 2
    MaxSent = 5
SPECIFICATION Spec
PROPERTIES
    DeltasCompareGroups
    RestartNotMeasured
    ForwardDeltas
    ForgetsOnlyAfterHoldUp
CHECK_DEADLOCK FALSE
