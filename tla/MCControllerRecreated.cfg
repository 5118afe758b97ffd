\* Nothing fails but cancelJob, nothing restarts.
SPECIFICATION FairSpec
CONSTANTS
    Monitors = {m1}
    Absent = Absent
    CancelOutcomes = {"error"}
    Faults = {}
    MaxChanges = 2
    MaxRestarts = 0
PROPERTIES
    RecreatedIsChecked
CHECK_DEADLOCK FALSE
