SPECIFICATION SystemSpec
CONSTANTS
    DetectionWindow = 1
    NetDelta = 2
    StabilityWindow = 1
    Tolerance = 1
    Workers = {w1, w2}
    Level <- ShortFill
    Window = 2
    Overlap = 1
    BeatPeriod = 3
    MaxRetries = 1
    MaxLag = 0
    MaxBacklog = 1
    MaxFaults = 1
    MaxTime = 6
    Cooldown = 4
    MaxRun = 1
INVARIANTS SystemTypeOK OwnRepeatsAreTorn DetectionNotLost
PROPERTIES OnlyOvertakenRunsRewind
SYMMETRY WorkerSymmetry
CHECK_DEADLOCK FALSE
