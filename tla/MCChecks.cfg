\* Three pieces: an answer that comes whole, in parts or with noise between.
\* The deadline is shorter than the timeouts of an http check with all its steps.
SPECIFICATION PodFairSpec
CONSTANTS
    Kinds = {"tcp", "websocket", "steam"}
    MaxPieces = 3
    Targets <- MCTargets
    Answers <- MCAnswers
    Timeout = 2
    Deadline = 5
INVARIANTS
    TypeOK
    NeverStranded
    UpIffAnswered
    PodTypeOK
    VerdictIsEarned
    ClientsAreClosed
    ExitFollowsStore
    LimitedEndsInTime
PROPERTIES
    PodKeepsPromise
CHECK_DEADLOCK FALSE
