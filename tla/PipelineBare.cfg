\* What main.ts builds today: no policy engine and, here, no approvals.
CONSTANTS
    Requests = {r1, r2}
    Methods <- MCMethods
    Payloads <- MCPayloads
    Scores <- MCScores
    ScannedTexts <- MCTexts
    Threshold = 80
    EscalateTo = "approve"
    HasPolicy = FALSE
    HasProvider = TRUE
    HasApprovals = FALSE
    HasScanner = TRUE
    Lifetime = 1
    MaxTime = 0
SPECIFICATION Spec
CHECK_DEADLOCK FALSE
PROPERTIES
    AdmittedIsAnswered
