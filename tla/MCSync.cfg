SPECIFICATION Spec
CONSTANTS
    Master = m
    Follower = {f}
    Keep = 1
    MaxHeight = 3
    MaxFaults = 1
INVARIANTS
    OrphansBlocked
    WalkGoesOn
PROPERTY
    CatchesUp
CHECK_DEADLOCK FALSE
