\* Two checks of different verdicts, and nothing fails.
SPECIFICATION Spec
CONSTANTS
    Jobs = {j1, j2}
    Verdicts = {"up", "down"}
    Keep = 100
    MaxTouches = 0
    MaxStale = 0
    MaxRestarts = 0
PROPERTIES
    AlertedOnChange
CHECK_DEADLOCK FALSE
