\* Match servers that die, and the recovery after a restart of the CS.
SPECIFICATION Spec
CONSTANTS
    m1 = m1
    m2 = m2
    m3 = m3
    Matches = {m1, m2, m3}
    Sids <- MCSids
    BusyLoad = 3
    QuietPeriod = 1
    TimerPeriod = 1
    StartupDelay = 1
    OldSids <- FarSids
    OldLists <- MCOldLists
    MaxCopies = 2
    MaxRepeats = 1
    Reconnects = FALSE
    SlowReports = FALSE
SYMMETRY Symmetry
INVARIANTS
    TypeOK
    Partition
    LoadAccurate
    Balanced
    NoMatchRunsTwice
    PeersHoldTheirLists
