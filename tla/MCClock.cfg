CONSTANTS
    Period = 16
    Second = 1
    Infinite = 1000
    PacketBits = 7
    RunSeconds = 5
    Rates = {2, 3, 7}
    InitialRate = 3
    MaxDelay = 3
SPECIFICATION Spec
PROPERTY ClockIncreases
CHECK_DEADLOCK FALSE
