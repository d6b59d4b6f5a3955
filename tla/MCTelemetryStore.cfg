SPECIFICATION Spec
CONSTANTS
    LastYear = 2
    YearStart <- Years
    Day = 2
    NoField = NoField
    Target = target
    Other = other
    Channels = {target, other}
    SeedOrder <- Listed
    Values = {0, 1}
    MeasureTimes = {7, 11, 12}
    InjectTimes = {11}
    Clients = {c1}
    Debug = TRUE
    Lags = {0, 1}
    MaxInbox = 2
    MaxFails = 1
    StartTime = 11
    MaxTime = 12
    None = None
INVARIANTS TypeOK TimestampsAreTrue OneRowPerKey StoreCatchesUp
PROPERTIES IngestionComesUp
