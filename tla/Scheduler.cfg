CONSTANTS
    n1 = n1
    n2 = n2
    Nodes = {n1, n2}
    NoOne = NoOne
    TTL = 2
    MaxTime = 4
    Every <- MCEvery
    Scenarios <- MCScenarios
SPECIFICATION FairSpec
 
PROPERTIES SlotAccounted  ShutdownCompletes
CHECK_DEADLOCK FALSE
