\* Delays on both sides of the limit, three edits of one name.
SPECIFICATION FairSpec
CONSTANTS
    Silences = {s1}
    Limit = 3
    MaxTime = 6
    MaxPuts = 3
    MaxRestarts = 1
INVARIANTS
    TypeOK
    EntryHasTimer
    UneditedIsActive
PROPERTIES
    CacheEmpties
CHECK_DEADLOCK FALSE
