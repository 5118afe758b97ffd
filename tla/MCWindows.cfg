\* Five days: from every hour of the first ones to the next occurrence of each rule.
SPECIFICATION Spec
CONSTANTS
    HoursPerDay = 2
    DaysPerWeek = 2
    DaysPerMonth = 3
    MonthsPerYear = 2
    DaysPerYear = 6
    MaxIterations = 8
    Windows = {w1}
    Specs <- MCSpecs
    Monitors <- MCMonitors
    MaxTime = 9
    MaxPuts = 2
    MaxRestarts = 1
INVARIANTS
    TypeOK
    ActiveIsMeant
    NextIsHonoured
    OneShotIsExact
    MembershipIsExact
CHECK_DEADLOCK FALSE
