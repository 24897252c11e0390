SPECIFICATION FairSpec
CONSTANTS
    Procs = {p1, p2}
    NoLock = NoLock
    TTL = 3
    Timely = FALSE
    MaxTime = 4
    MaxWrites = 2
    MaxFaults = 0
    MaxCrashes = 0
PROPERTIES LostRunStops CallsReturn
CHECK_DEADLOCK FALSE
