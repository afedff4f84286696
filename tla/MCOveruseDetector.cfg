CONSTANTS
    PlusInfinity = 1000000
    Trends <- MCTrends
    SendDeltas <- MCSendDeltas
    Waits = {10, 100}
    Gain = 4
    MinNumDeltas = 4
    DeltaCounterMax = 6
    WindowSize = 2
    OveruseTime = 10
    InitialThreshold = 12500
    MinThreshold = 6000
    MaxThreshold = 600000
    MaxAdaptOffset = 15000
    KUp = 87
    KDown = 390
    MaxTimeDelta = 100
    MaxUpdates = 7
SPECIFICATION Spec
INVARIANTS
    TimerFollowsTrend
PROPERTIES
    OveruseIsSustained
    OveruseIsPrompt
CHECK_DEADLOCK FALSE
