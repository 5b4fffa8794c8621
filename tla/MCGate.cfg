\* The sessions to the CentralServer and a service and three players over the indexes 0 to 2.
SPECIFICATION GateSpec
CONSTANTS
    s1 = s1
    s2 = s2
    s3 = s3
    s4 = s4
    s5 = s5
    Sessions = {s1, s2, s3, s4, s5}
    Types = {"Client", "LoginServer"}
    Client = "Client"
    Services = {s1, s2}
    Retrying = {s1}
    MaxNum = 2
    Duration = 9
    Overtime = 20
    MaxRequests = 2
SYMMETRY Symmetry
INVARIANTS
    TypeOK
    SendsReachTheirSessions
    IndexesAccounted
    RepliesReachTheirAskers
    SilentPlayersLeave
