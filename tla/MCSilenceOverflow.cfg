\* One silence, never edited, whose delay may be past the limit of a timer.
SPECIFICATION Spec
CONSTANTS
    Silences = {s1}
    Limit = 2
    MaxTime = 6
    MaxPuts = 1
    MaxRestarts = 0
PROPERTIES
    RemovedWhenExpired
CHECK_DEADLOCK FALSE
