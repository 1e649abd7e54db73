\* A documented claim the code does not keep.
CONSTANTS
    Requests = {r1}
    Methods <- MCMethods
    Payloads <- MCPayloads
    Scores <- MCScores
    ScannedTexts <- MCTexts
    Threshold = 80
    EscalateTo = "approve"
    HasPolicy = TRUE
    HasProvider = TRUE
    HasApprovals = TRUE
    HasScanner = TRUE
    Lifetime = 1
    MaxTime = 0
SPECIFICATION Spec
CHECK_DEADLOCK FALSE
INVARIANTS
    EveryOutcomeIsRecorded
