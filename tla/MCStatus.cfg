\* Two handlers may overlap, one API call fails, one restart.
SPECIFICATION FairSpec
CONSTANTS
    Slots = {1, 2}
    MaxEdits = 1
    MaxChecks = 2
    MaxFaults = 1
    MaxRestarts = 1
INVARIANTS
    TypeOK
    ValidatedWasValid
    QuietStatusIsCurrent
PROPERTIES
    FeedbackDiesOut
CHECK_DEADLOCK FALSE
