SPECIFICATION Spec
CONSTANTS
    HoursPerDay = 2
    DaysPerWeek = 2
    DaysPerMonth = 3
    MonthsPerYear = 2
    Policies <- MCPolicies
    MaxTime = 7
    MaxRuns = 4
    MaxChecked = 2
INVARIANTS PeriodsCovered NamedDayPromoted
PROPERTIES PruneSettles VerifiedOutlives
CHECK_DEADLOCK FALSE
