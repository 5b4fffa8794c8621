\* Two matches at the same time, with different fees.
SPECIFICATION Spec
CONSTANTS
    Slots = {"morning", "evening"}
    Fees = {1, 2}
    Stored <- MCStored
    Faults = {}
    MaxRequests = 3
    StrayMids = {1, 3}
INVARIANT MidsAreUnique
CHECK_DEADLOCK FALSE
