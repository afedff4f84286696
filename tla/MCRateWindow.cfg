\* About the ratio of the two windows, 500 ms and 150 ms.
CONSTANTS
    InitialWindow = 7
    Window = 2
    MaxTime = 15
    MaxPackets = 6
SPECIFICATION Spec
INVARIANTS
    SampleNeverZero
    SampleFitsWindow
    SamplesTakeTime
