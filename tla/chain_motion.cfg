SPECIFICATION Spec
CONSTANTS
    NaN = NaN
    SourceTimeout = 0
    CommandTimeout = 1
    ScanTimeout = 1
    MaxLinearVelocity = 1
    MaxReverseVelocity = 1
    MaxAngularVelocity = 1
    StopDistance = 1
    RequireScan = FALSE
    Candidates <- MotionCandidates
    Leases <- MotionLeases
    Scans = {}
    Overrides = {}
    ModeRequests <- MotionModes
    PolicyReports = {}
    QueueDepth = 1
    MaxTime = 3
    MayExit = FALSE
INVARIANTS
    NoStaleMotion
    StopLatency
