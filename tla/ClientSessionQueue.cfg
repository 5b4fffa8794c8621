\* The sessions between servers, of both kinds, on a network that lets them
\* through in the end.
SPECIFICATION FairSpec
CONSTANTS
    Calls = {"forceClose"}
    Faults = {}
    OneShots = {TRUE, FALSE}
    Greetings = {TRUE}
    Endpoints = 2
    MaxMessages = 5
    MaxClosings = 2
INVARIANTS
    OneConnectionAttempt
    OutputMoves
PROPERTIES
    ImplementsQueue
    SessionComesBack
CHECK_DEADLOCK FALSE
