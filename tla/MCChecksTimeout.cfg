\* An http check that asks for a token first, both requests in their time.
SPECIFICATION PodSpec
CONSTANTS
    Kinds = {"tcp"}
    MaxPieces = 1
    Targets <- HttpTarget
    Answers <- MCAnswers
    Timeout = 2
    Deadline = 5
INVARIANTS
    TimeoutIsMax
CHECK_DEADLOCK FALSE
