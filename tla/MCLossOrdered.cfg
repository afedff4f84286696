CONSTANTS
    ReceiveDuration = 3
    WaitMargin = 1
    MinWaitDuration = 1
    InOrder = TRUE
    ClockOffset = 1
    StartTime = 1
    MaxTime = 11
    MaxPacketNumber = 6
    MaxInFlight = 2
SPECIFICATION Spec
INVARIANTS
    TypeOK
    ReceiverSurvives
    VectorsTrackDeliveries
PROPERTIES
    AccountingSpec
CHECK_DEADLOCK FALSE
