\* A pod of two containers, with no least number set.
SPECIFICATION PodSpec
CONSTANTS
    Kinds = {"tcp"}
    MaxPieces = 1
    Targets <- PodTarget
    Answers <- MCAnswers
    Timeout = 2
    Deadline = 5
INVARIANTS
    PodsAreWhole
CHECK_DEADLOCK FALSE
