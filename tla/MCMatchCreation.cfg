\* Requests for matches of two types and two fees, one of them stored before.
SPECIFICATION FairSpec
CONSTANTS
    Slots = {"morning", "evening"}
    Fees = {1, 2}
    Stored <- MCStored
    Faults = {"insert", "select"}
    MaxRequests = 3
    StrayMids = {1, 3}
INVARIANTS
    TypeOK
    AnswersAreOwn
    CreatedMatchesOpen
    OpenMatchesAreStored
PROPERTY RequestsGetAnswered
CHECK_DEADLOCK FALSE
