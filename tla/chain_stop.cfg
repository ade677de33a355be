SPECIFICATION FairSpec
CONSTANTS
    NaN = NaN
    SourceTimeout = 0
    CommandTimeout = 0
    ScanTimeout = 0
    MaxLinearVelocity = 1
    MaxReverseVelocity = 1
    MaxAngularVelocity = 1
    StopDistance = 1
    RequireScan = TRUE
    Candidates <- PolicyCandidates
    Leases = {}
    Scans <- ObstacleScans
    Overrides = {TRUE, FALSE}
    ModeRequests <- PolicyModes
    PolicyReports <- PolicyRestarts
    QueueDepth = 2
    MaxTime = 1
    MayExit = TRUE
INVARIANTS
    TypeOK
    SafetyEventsConverge
    SafetyStopHolds
PROPERTIES
    SafeStopReachesWheels
