SPECIFICATION Spec
CONSTANTS
    Procs = {p1, p2}
    NoLock = NoLock
    TTL = 3
    Timely = TRUE
    MaxTime = 5
    MaxWrites = 3
    MaxFaults = 1
    MaxCrashes = 1
SYMMETRY Perms
INVARIANTS MutualExclusion
PROPERTIES NoSteal  ImplementsLease
CHECK_DEADLOCK FALSE
