SPECIFICATION Spec
CONSTANTS
    DetectionWindow = 2
    NetDelta = 2
    StabilityWindow = 1
    Tolerance = 1
    Workers = {w1, w2}
    Level <- SparseFill
    Window = 4
    Overlap = 2
    BeatPeriod = 2
    MaxRetries = 1
    MaxLag = 1
    MaxBacklog = 2
    MaxFaults = 1
    MaxTime = 5
INVARIANTS TypeOK NoSplitWindow
SYMMETRY WorkerSymmetry
CHECK_DEADLOCK FALSE
