\* Main and two clients; a stopped daemon does nothing.
SPECIFICATION FairLoopSpec
CONSTANTS
    c1 = c1
    c2 = c2
    Clients <- MCClients
    Main = Main
    NoKey = NoKey
    None = None
    MaxConns = 3
CHECK_DEADLOCK FALSE
INVARIANTS
    SingleConnection
    KeyInUseIsTheLastSaved
    StoppedIsTrue
PROPERTIES
    SwapCompletes
    StopEndsEverything
