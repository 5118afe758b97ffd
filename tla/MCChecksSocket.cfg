\* A tcp check alone; an answer of two pieces at most.
SPECIFICATION PodSpec
CONSTANTS
    Kinds = {"tcp"}
    MaxPieces = 2
    Targets <- SocketTarget
    Answers <- MCAnswers
    Timeout = 2
    Deadline = 5
INVARIANTS
    ExpectedResponseIsTaken
CHECK_DEADLOCK FALSE
