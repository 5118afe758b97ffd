\* Every delay fits the timer: what is left is the stale timer of an edit.
SPECIFICATION Spec
CONSTANTS
    Silences = {s1}
    Limit = 6
    MaxTime = 6
    MaxPuts = 2
    MaxRestarts = 0
PROPERTIES
    RemovedWhenExpired
CHECK_DEADLOCK FALSE
