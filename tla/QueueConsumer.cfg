SPECIFICATION ProgramSpec
CONSTANTS
    c1 = c1
    c2 = c2
    c3 = c3
    v1 = v1
    v2 = v2
    Free = Free
    Clients = {c1, c2, c3}
    NumServers = 1
    RpcThreads = 2
    MyServer <- AllServerZero
    ServerOnNode <- OnlyC1
    Vals = {v1, v2}
    DefaultVal = v1
    Capacity = 4
    Consumer = c3
    Home = 0
    Rounds <- TwoPushesEach
CHECK_DEADLOCK FALSE
INVARIANTS
    PopAfterWaitSucceeds
PROPERTIES
    Terminates
