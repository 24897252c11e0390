SPECIFICATION Spec
CONSTANTS
    MaxTime = 12
    Emitters <- MCEmitters
    Targets = {t1, t2}
    Events <- MCEvents
    Subs <- MCSubs
    attempts = 2
    Never = Never
    Requests = {r1, r2}
    Hosts = {h1, h2}
    failureBudget = 1
    lockout = 1
    maxLockout = 3
    forget = 4
    maxShift = 2
    MaxRuns = 4
    Verifiable = {t1}
    runHistory = 2
    maxRunLogLines = 2
    Loggers = {main, heartbeat}
    Keep = 1
    Scenarios <- MCScenarios
INVARIANTS TypeOK DeliveriesSettle OneRunWatched 
PROPERTIES  WaitHolds ButtonReturns
CHECK_DEADLOCK FALSE
