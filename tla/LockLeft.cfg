SPECIFICATION Spec
CONSTANTS
    Procs = {p1, p2}
    NoLock = NoLock
    TTL = 3
    Timely = TRUE
    MaxTime = 5
    MaxWrites = 3
    MaxFaults = 0
    MaxCrashes = 0
INVARIANTS ReleasedIsGone
CHECK_DEADLOCK FALSE
