\* A daily rule, and several days.
SPECIFICATION Spec
CONSTANTS
    HoursPerDay = 2
    DaysPerWeek = 2
    DaysPerMonth = 3
    MonthsPerYear = 2
    DaysPerYear = 6
    MaxIterations = 8
    Windows = {w1}
    Specs <- DailySpecs
    Monitors <- MCMonitors
    MaxTime = 9
    MaxPuts = 1
    MaxRestarts = 0
INVARIANTS
    EveryOccurrenceOpens
CHECK_DEADLOCK FALSE
