\* Nothing fails: one handler and two checks.
SPECIFICATION Spec
CONSTANTS
    Slots = {1}
    MaxEdits = 1
    MaxChecks = 2
    MaxFaults = 0
    MaxRestarts = 0
PROPERTIES
    ResultsAreKept
CHECK_DEADLOCK FALSE
