\* Every fault, both ends of cancelJob, and a restart.
SPECIFICATION FairSpec
CONSTANTS
    Monitors = {m1, m2}
    Absent = Absent
    CancelOutcomes = {"ok", "error"}
    Faults = {"list", "create", "watch"}
    MaxChanges = 3
    MaxRestarts = 1
INVARIANTS
    TypeOK
    NoDoubleScheduling
    OnlyEnabledChecked
    CacheCatchesUp
    CaughtUpIsScheduled
PROPERTIES
    NeverGoesBack
    FirstIsChecked
CHECK_DEADLOCK FALSE
