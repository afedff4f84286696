CONSTANTS
    ReceiveDuration = 3
    WaitMargin = 1
    MinWaitDuration = 1
    InOrder = FALSE
    ClockOffset = 1
    StartTime = 1
    MaxTime = 10
    MaxPacketNumber = 4
    MaxInFlight = 2
SPECIFICATION Spec
INVARIANTS
    TimerAssertionsHold
    TimerInv
PROPERTIES
    ReportedWhenDue
CHECK_DEADLOCK FALSE
