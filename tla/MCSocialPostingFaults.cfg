SPECIFICATION FairSpec
CONSTANTS
    Workers = {w1, w2}
    Events = {e1, e2}
    NoEvent = none
    Cooldown = 2
    MaxRetries = 2
    Faults = {"recordFails", "lostReply", "crash"}
    MaxTime = 4
INVARIANTS OnlyRacesAndTornPostsBreakCooldown
PROPERTIES AttemptsEnd ImplementsGate
CHECK_DEADLOCK FALSE
