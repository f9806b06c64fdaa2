SPECIFICATION ScanSpec
CONSTANTS
    c1 = c1
    c2 = c2
    Free = Free
    Clients = {c1, c2}
    Scanners = {c1}
    NumServers = 2
    RpcThreads = 1
    MyServer <- OnePerNode
    ServerOnNode <- Everywhere
    Keys = {0, 1, 2, 3}
    Ranges <- OneOrTwo
    Hash <- Homes
    Capacity = 2
    MaxN = 2
INVARIANTS
    ScanInv
    ScanSound
    ScanFindsAll
    StraysAreAlone
PROPERTIES
    Linearizable
