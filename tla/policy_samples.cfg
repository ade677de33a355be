SPECIFICATION Spec
CONSTANTS
    NaN = NaN
    ImageTimeout = 0
    ObsValidity = 1
    RequireStatus = TRUE
    ObsTimeout = 1
    ActionValidity = 1
    Workers = {w1}
    NoWorker = NoWorker
    Debug = Debug
    ResponseValidity = 1
    Horizon = 2
    TransportTimeout = 1
    Threads = 3
    ObsDepth = 1
    ActionDepth = 1
    Acceptable = {TRUE, FALSE}
    MaxTime = 5
    MaxObservations = 2
    MaxRuns = 1
INVARIANTS
    FreshSight
PROPERTIES
    SamplesMoveOn
