SPECIFICATION FairSpec
CONSTANTS
    Workers = 1
    Captures <- SomeCaptures
    Runs <- SomeRuns
    MaxSnapshots = 1
    BusyRetryCount = 1
    MaxRuns = 2
    MaxFrames = 2
    MaxQueued = 1
    Idle = Idle
    Tasks = {t1}
    NoTask = NoTask
    FaultStages = {"contract_validation", "safety_guard"}
    MaxObservations = 2
    MaxRestarts = 1
    MaxSteps = 2
    MaxDuration = 2
    TaskTimeout = 1
INVARIANTS
    SnapshotsFrozen
    StepOnce
PROPERTIES
    RunEnds
    StepsNew
    SessionEnds
