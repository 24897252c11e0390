CONSTANTS
    n1 = n1
    n2 = n2
    Nodes = {n1, n2}
    NoOne = NoOne
    TTL = 2
    MaxTime = 4
    Every <- MCEvery
    Scenarios <- RestartScenarios
SPECIFICATION Spec
PROPERTY RestartKeepsSlot
CHECK_DEADLOCK FALSE
