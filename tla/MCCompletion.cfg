\* One kind of verdict, which nothing here tells apart.
SPECIFICATION FairSpec
CONSTANTS
    Jobs = {j1, j2}
    Verdicts = {"up"}
    Keep = 1
    MaxTouches = 2
    MaxStale = 1
    MaxRestarts = 1
INVARIANTS
    TypeOK
    NoRepeatInWindow
    ExportIsNotOlder
PROPERTIES
    ReceivedIsExported
CHECK_DEADLOCK FALSE
