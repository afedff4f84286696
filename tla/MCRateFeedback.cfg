CONSTANTS
    Estimates = {50, 200, 1500}
    Targets = {150, 500}
    InitialRate = 500
    MinPacingRate = 100
    MinBitrate = 5
    MaxBitrate = 2000
    PlusInfinity = 1000000
    NumberLimit = 1000
    TimeLimit = 100000
    CallsMayFail = TRUE
    MaxData = 2
    MaxFeedback = 4
SPECIFICATION Spec
INVARIANTS
    TypeOK
    PacingWithinLimit
    LimitFollowsEstimate
PROPERTIES
    LimitConverges
CHECK_DEADLOCK FALSE
