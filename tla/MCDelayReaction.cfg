CONSTANTS
    MinBitrate = 5
    MaxConfiguredBitrate = 30000
    PlusInfinity = 1000000
    DefaultRtt = 2
    MinReduction = 1
    MaxReduction = 3
    ResponseTime = 1
    InitializationTime = 1
    Second = 4
    Growth <- MCGrowth
    StreamTimeOut = 3
    Throughputs = {100, 300, 700}
    Deviations = {4, 25}
    StartBitrates = {400}
    MinBitrates = {5, 150}
    Rtts = {0, 4}
    MaxCalls = 0
    MaxTime = 8
    MaxPackets = 1
SPECIFICATION Spec
PROPERTIES
    ReducesWhenUnchanged
CHECK_DEADLOCK FALSE
