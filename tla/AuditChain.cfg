\* One process at a time; failing writes, crashes, power failures, damage, and a
\* reader that pages through the log while it grows.
CONSTANTS
    Writers = {g1}
    Records <- MCRecords
    Wanted <- MCWanted
    Limits <- MCLimits
    MaxLimit = 2
    MaxDetail = 1
    MaxDamage = 1
SPECIFICATION Spec
CHECK_DEADLOCK FALSE
INVARIANTS
    TypeOK
    VerifierIsExact
    PagesAreSeamless
PROPERTIES
    CommittedStays
    PagingEnds
