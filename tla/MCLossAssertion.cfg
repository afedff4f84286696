CONSTANTS
    ReceiveDuration = 3
    WaitMargin = 1
    MinWaitDuration = 1
    InOrder = FALSE
    ClockOffset = 1
    StartTime = 1
    MaxTime = 8
    MaxPacketNumber = 4
    MaxInFlight = 2
SPECIFICATION Spec
INVARIANTS
    WaitVectorAssertion
CHECK_DEADLOCK FALSE
