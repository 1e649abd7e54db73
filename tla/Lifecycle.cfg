\* Two upstreams, one with resources, two requests, two signals.
CONSTANTS
    Servers = {s1, s2}
    ResourceServers = {s2}
    Requests = {r1, r2}
    Signals = {sigterm, sigint}
SPECIFICATION Spec
CHECK_DEADLOCK FALSE
INVARIANTS
    TypeOK
    EvidenceNamesTheTarget
    NobodyIsCutOff
    OrderlyExit
PROPERTIES
    StartsAndStops
