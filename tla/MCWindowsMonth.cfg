\* A rule for the second month alone, and more than a year.
SPECIFICATION Spec
CONSTANTS
    HoursPerDay = 2
    DaysPerWeek = 2
    DaysPerMonth = 3
    MonthsPerYear = 2
    DaysPerYear = 6
    MaxIterations = 8
    Windows = {w1}
    Specs <- MonthSpecs
    Monitors <- MCMonitors
    MaxTime = 15
    MaxPuts = 1
    MaxRestarts = 0
INVARIANTS
    OpensOnlyAsRuled
CHECK_DEADLOCK FALSE
