SPECIFICATION Spec
CONSTANTS
    NaN = NaN
    a = a
    b = b
    Controllers <- Pair
    RemoteControllers = {}
    NoController = NoController
    Goals = {g1, g2}
    Main = Main
    MaxSequence = 2
    MaxInFlight = 1
    Deadman = {TRUE}
    OtherModes = {}
    Stops = {}
    MayRenew = FALSE
    MayStop = FALSE
    MayExit = FALSE
SYMMETRY Symmetry
INVARIANTS
    HolderDrives
    LastTwist
PROPERTIES
    NoReplay
