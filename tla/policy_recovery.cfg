SPECIFICATION FairSpec
CONSTANTS
    NaN = NaN
    ImageTimeout = 0
    ObsValidity = 1
    RequireStatus = FALSE
    ObsTimeout = 1
    ActionValidity = 1
    Workers = {w1, w2}
    NoWorker = NoWorker
    Debug = Debug
    ResponseValidity = 1
    Horizon = 2
    TransportTimeout = 1
    Threads = 3
    ObsDepth = 1
    ActionDepth = 1
    Acceptable = {TRUE}
    MaxTime = 3
    MaxObservations = 1
    MaxRuns = 2
INVARIANTS
    AnsweredOnce
PROPERTIES
    ReadyRecovers
    LockReturns
    SilenceStops
