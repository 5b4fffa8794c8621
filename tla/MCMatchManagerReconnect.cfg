\* Match servers that lose their connection and come back, at any time.
SPECIFICATION FairSpec
CONSTANTS
    m1 = m1
    m2 = m2
    m3 = m3
    Matches = {m1}
    Sids <- MCSids2
    OldSids <- FarSid
    BusyLoad = 1
    QuietPeriod = 2
    TimerPeriod = 1
    StartupDelay = 1
    OldLists <- MCOldLists
    MaxCopies = 3
    MaxRepeats = 1
    Reconnects = TRUE
    SlowReports = TRUE
INVARIANTS
    RegistryAgrees
    ChangesAreTimed
PROPERTIES
    ChangesAreApplied
