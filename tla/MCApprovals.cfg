CONSTANTS
    Ids = {t1, t2, t3}
    Agents = {anonymous, other}
    Caller = anonymous
    Lifetime = 1
    MaxTime = 2
SYMMETRY IdSymmetry
SPECIFICATION Spec
CHECK_DEADLOCK FALSE
INVARIANTS
    TypeOK
    DecisionsAreAuthorised
PROPERTIES
    DecisionIsFinal
