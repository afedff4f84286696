CONSTANTS
    PlusInfinity = 2000000000
    InitialTarget = 500000
    DefaultMinBitrate = 400000
    DefaultMaxBitrate = 700000
    LimitNumPackets = 20
    IncreaseInterval = 2
    DecreaseInterval = 1
    StartPhase = 2
    HistoryPrecision = 1
    MaxConfiguredBitrate = 30000000
    DefaultRtt = 1
    MinReduction = 1
    MaxReduction = 2
    ResponseTime = 1
    InitializationTime = 1
    Second = 1
    Growth <- MCGrowth
    Config <- MCConfig
    UnsetRates = {500000}
    LossReports <- MCLossReports
    RembRates <- MCRembRates
    Rtts = {1}
    Constraints <- MCConstraints
    MaxTime = 5
    MaxMessages = 1
    MaxCalls = 2
SPECIFICATION Spec
INVARIANTS
    TypeOK
    TargetWithinLimits
    EstimatorsAgree
PROPERTIES
    FractionCoversReports
    SteadyDecrease
    SteadyIncrease
    CallerKnowsRates
    LimitsSpec
CHECK_DEADLOCK FALSE
