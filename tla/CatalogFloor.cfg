SPECIFICATION Spec
CONSTANTS
    HoursPerDay = 1
    DaysPerWeek = 7
    DaysPerMonth = 28
    MonthsPerYear = 12
    Daemon = daemon
    Writers = {daemon, user}
    NoIndex = NoIndex
    NoManifest = NoManifest
    Rules <- MCRules
    Scenarios <- FloorScenarios
    appendAttempts = 2
    MaxRuns = 4
    MaxChecks = 2
PROPERTIES FloorKeptEver
CHECK_DEADLOCK FALSE
