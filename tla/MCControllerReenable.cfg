\* cancelJob refused, as Kubernetes refuses its selector.
SPECIFICATION Spec
CONSTANTS
    Monitors = {m1}
    Absent = Absent
    CancelOutcomes = {"error"}
    Faults = {}
    MaxChanges = 3
    MaxRestarts = 0
PROPERTIES
    ReenabledIsRescheduled
CHECK_DEADLOCK FALSE
