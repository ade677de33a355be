SPECIFICATION FairSpec
CONSTANTS
    NaN = NaN
    SourceTimeout = 0
    CommandTimeout = 0
    ScanTimeout = 0
    MaxLinearVelocity = 1
    MaxReverseVelocity = 1
    MaxAngularVelocity = 1
    StopDistance = 1
    RequireScan = FALSE
    Candidates <- PolicyCandidates
    Leases = {}
    Scans <- ClearScan
    Overrides = {}
    ModeRequests <- PolicyModes
    PolicyReports <- PolicyRestarts
    QueueDepth = 1
    MaxTime = 1
    MayExit = TRUE
PROPERTIES
    SupervisorExitStops
