SPECIFICATION Spec
CONSTANTS
    Workers = {w1, w2}
    Events = {e1, e2}
    NoEvent = none
    Cooldown = 2
    MaxRetries = 2
    Faults = {}
    MaxTime = 2
INVARIANTS CooldownBetweenPosts
SYMMETRY BothSymmetries
CHECK_DEADLOCK FALSE
