SPECIFICATION Spec
CONSTANTS
    HoursPerDay = 1
    DaysPerWeek = 7
    DaysPerMonth = 28
    MonthsPerYear = 12
    Daemon = daemon
    Writers = {daemon, user}
    NoIndex = NoIndex
    NoManifest = NoManifest
    Rules <- MCRules
    Scenarios <- MCScenarios
    appendAttempts = 2
    MaxRuns = 4
    MaxChecks = 2
INVARIANTS NoHiddenBackup HalfDeletedIsListed
PROPERTIES ListedIsRestorable FloorKept VerifiedKept FrozenWhileFailing ReindexRepairs
CHECK_DEADLOCK FALSE
