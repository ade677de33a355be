SPECIFICATION FairSpec
CONSTANTS
    camera = camera
    observation = observation
    debug = debug
    Component = {camera, observation, debug}
    Configurations <- ChainOrCycle
    Profiles <- FullProfile
    Installed = {camera, observation, debug}
    Callers = {w1}
    Commands <- CardCommands
    Unsteady = {observation}
    Intrusions = {observation}
    MaxCalls = 2
INVARIANTS
    TypeOK
    NothingLeftBehind
PROPERTIES
    DependencyOrder
    
    StopNotExternal
    RequestsEnd
