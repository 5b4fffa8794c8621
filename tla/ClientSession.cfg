\* Every call of the application and every fault.
SPECIFICATION Spec
CONSTANTS
    Calls = {"reconnect", "stop", "shutdown", "forceClose"}
    Faults = {"write", "partial", "fatal"}
    OneShots = {TRUE, FALSE}
    Greetings = {TRUE, FALSE}
    Endpoints = 2
    MaxMessages = 2
    MaxClosings = 2
INVARIANTS
    TypeOK
    MessagesStayInOrder
    ConnectedSessionsRead
CHECK_DEADLOCK FALSE
