SPECIFICATION Spec
CONSTANTS
    Workers = {w1, w2}
    Events = {e1, e2, e3}
    NoEvent = none
    Cooldown = 2
    MaxRetries = 2
    Faults = {}
    MaxTime = 6
INVARIANTS TypeOK CooldownPerWorker RecordsAreTrue
PROPERTIES ImplementsGate
CHECK_DEADLOCK FALSE
