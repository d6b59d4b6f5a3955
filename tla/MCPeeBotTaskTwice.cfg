SPECIFICATION Spec
CONSTANTS
    DetectionWindow = 2
    NetDelta = 2
    StabilityWindow = 1
    Tolerance = 1
    Workers = {w1}
    Level <- OneFill
    Window = 6
    Overlap = 2
    BeatPeriod = 2
    MaxRetries = 1
    MaxLag = 0
    MaxBacklog = 1
    MaxFaults = 0
    MaxTime = 8
INVARIANTS NoFillDetectedTwice
CHECK_DEADLOCK FALSE
