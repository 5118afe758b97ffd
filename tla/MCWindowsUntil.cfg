\* A daily rule that ended on the first day, by an UNTIL in the form of RFC 5545.
SPECIFICATION Spec
CONSTANTS
    HoursPerDay = 2
    DaysPerWeek = 2
    DaysPerMonth = 3
    MonthsPerYear = 2
    DaysPerYear = 6
    MaxIterations = 8
    Windows = {w1}
    Specs <- UntilSpecs
    Monitors <- MCMonitors
    MaxTime = 5
    MaxPuts = 1
    MaxRestarts = 0
INVARIANTS
    OpensOnlyAsRuled
CHECK_DEADLOCK FALSE
