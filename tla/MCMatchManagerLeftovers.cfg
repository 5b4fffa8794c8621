\* Matches that no service got, with services there.
SPECIFICATION Spec
CONSTANTS
    m1 = m1
    m2 = m2
    m3 = m3
    Matches = {m1, m2, m3}
    Sids <- MCSids2
    OldSids <- FarSids
    BusyLoad = 3
    QuietPeriod = 2
    TimerPeriod = 1
    StartupDelay = 2
    OldLists <- MCOldLists
    MaxCopies = 2
    MaxRepeats = 1
    Reconnects = FALSE
    SlowReports = FALSE
INVARIANT
    LeftoversAreTimed
