\* Units of 10 seconds, stability window shortened to two of them.
SPECIFICATION FairSpec
CONSTANTS
    DetectionWindow = 3
    NetDelta = 2
    StabilityWindow = 2
    Tolerance = 1
    MaxLen = 4
    MaxTime = 6
    MaxLevel = 3
    Inputs <- MCInputs
INVARIANTS TypeOK ScanInvariant ReportsEarliestFill
PROPERTIES Terminates
CHECK_DEADLOCK FALSE
