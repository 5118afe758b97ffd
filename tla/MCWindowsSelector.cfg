\* Windows that select by label expressions.
SPECIFICATION Spec
CONSTANTS
    HoursPerDay = 2
    DaysPerWeek = 2
    DaysPerMonth = 3
    MonthsPerYear = 2
    DaysPerYear = 6
    MaxIterations = 8
    Windows = {w1}
    Specs <- SelectorSpecs
    Monitors <- MCMonitors
    MaxTime = 5
    MaxPuts = 1
    MaxRestarts = 0
INVARIANTS
    SuppressedAreSelected
CHECK_DEADLOCK FALSE
