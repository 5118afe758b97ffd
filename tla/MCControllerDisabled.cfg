\* cancelJob refused; the timer of the first check is pending.
SPECIFICATION Spec
CONSTANTS
    Monitors = {m1}
    Absent = Absent
    CancelOutcomes = {"error"}
    Faults = {}
    MaxChanges = 2
    MaxRestarts = 0
PROPERTIES
    DisabledIsNotChecked
CHECK_DEADLOCK FALSE
