\* Two match servers, and a login server that the gateway has in its configuration.
SPECIFICATION FairSpec
CONSTANTS
    MatchServers = {a, b}
    LoginServers = {l}
    Configured = {l}
    Matches = {m}
    MaxLink = 1
    MaxFaults = 1
    a = a
    b = b
    l = l
    m = m
INVARIANTS
    TypeOK
    RoutesAreOpen
    OneSessionPerService
    MatchesReachTheirService
PROPERTIES
    RoutesSettle
CHECK_DEADLOCK FALSE
