CONSTANTS
    None = None
    b1 = b1
    b2 = b2
    Verifiers = {p1, p2}
    Scenes <- MCScenes
SPECIFICATION Spec
INVARIANTS BrokenNeverPasses GoodPasses SandboxDropped
CHECK_DEADLOCK FALSE
