\* A tool call for a server that was down at startup is unknown, and nobody dials.
CONSTANTS
    Servers = {s1}
    ResourceServers = {s1}
    Requests = {r1}
    Signals = {sigterm}
SPECIFICATION Spec
CHECK_DEADLOCK FALSE
PROPERTIES
    FailedUpstreamIsRetried
