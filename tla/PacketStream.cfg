SPECIFICATION FairSpec
CONSTANTS
    HeaderSize = 2
    InitialSize = 4
    ReadSize = 3
    BodySizes = {0, 3}
    MaxPackets = 3
    MaxConnections = 2
INVARIANTS
    TypeOK
    PacketsStayWhole
    BufferStaysBounded
PROPERTY PacketsGetHandled
CHECK_DEADLOCK FALSE
