\* Nothing fails, nothing restarts.
SPECIFICATION FairSpec
CONSTANTS
    Monitors = {m1}
    Absent = Absent
    CancelOutcomes = {"error"}
    Faults = {}
    MaxChanges = 3
    MaxRestarts = 0
PROPERTIES
    KeepsChecking
CHECK_DEADLOCK FALSE
