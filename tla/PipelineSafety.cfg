\* A policy engine, an LLM provider, approvals and a result scanner.
CONSTANTS
    Requests = {r1, r2}
    Methods <- MCMethods
    Payloads <- MCPayloads
    Scores <- MCScores
    ScannedTexts <- MCTexts
    Threshold = 80
    EscalateTo = "approve"
    HasPolicy = TRUE
    HasProvider = TRUE
    HasApprovals = TRUE
    HasScanner = TRUE
    Lifetime = 1
    MaxTime = 1
SYMMETRY RequestSymmetry
SPECIFICATION Spec
CHECK_DEADLOCK FALSE
INVARIANTS
    TypeOK
    NothingUnsanctioned
    OneVerdictEach
    DeferredIsRecordedAndHeld
    AnswersMatchEvidence
PROPERTIES
    ImplementsMediation
