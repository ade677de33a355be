SPECIFICATION FairSpec
CONSTANTS
    NaN = NaN
    a = a
    b = b
    Controllers <- Single
    RemoteControllers = {a}
    NoController = NoController
    Goals = {g1, g2}
    Main = Main
    MaxSequence = 0
    MaxInFlight = 0
    Deadman = {TRUE, FALSE}
    OtherModes <- UnknownMode
    Stops <- StopRaised
    MayRenew = TRUE
    MayStop = TRUE
    MayExit = TRUE
PROPERTIES
    GoalsResolve
    ReservationEnds
