\* A daily rule, and the same object put twice.
SPECIFICATION Spec
CONSTANTS
    HoursPerDay = 2
    DaysPerWeek = 2
    DaysPerMonth = 3
    MonthsPerYear = 2
    DaysPerYear = 6
    MaxIterations = 8
    Windows = {w1}
    Specs <- DailySpecs
    Monitors <- MCMonitors
    MaxTime = 9
    MaxPuts = 2
    MaxRestarts = 0
PROPERTIES
    OpenForItsDuration
CHECK_DEADLOCK FALSE
