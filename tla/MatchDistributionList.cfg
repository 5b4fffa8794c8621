\* Every call with up to three services and four matches.
SPECIFICATION Spec
CONSTANTS
    Matches = {1, 2, 3, 4}
    Sids = {1, 2, 3}
    BusyLoad = 3
INVARIANTS
    ListsRefineSets
    DistributionSettles
CHECK_DEADLOCK FALSE
