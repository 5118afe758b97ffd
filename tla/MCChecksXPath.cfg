\* One path, /a/b/text(), into the small documents.
SPECIFICATION PodSpec
CONSTANTS
    Kinds = {"tcp"}
    MaxPieces = 1
    Targets <- XmlTarget
    Answers <- MCAnswers
    Timeout = 2
    Deadline = 5
INVARIANTS
    XPathIsHonoured
CHECK_DEADLOCK FALSE
