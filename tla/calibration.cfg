SPECIFICATION FairSpec
CONSTANTS
    MaxClients = 4
    HttpWorkers = {w1, w2}
    HttpQueueLimit = 1
    MayShutDown = TRUE
    Corners = {c54, c88}
    Squares = {s20}
    Poses = {p1, p2}
    Sizes = {vga}
    MinimumSamples = 1
    Factory = {}
    NoBoard = NoBoard
    NoImage = NoImage
    MaxSecond = 0
    Routes = {"start", "reset", "capture", "compute", "apply"}
INVARIANTS
    ResultCurrent
    FirstCalibrationVerified
PROPERTIES
    ServesClients
