SPECIFICATION FairSpec
CONSTANTS
    c1 = c1
    c2 = c2
    k1 = k1
    k2 = k2
    v1 = v1
    v2 = v2
    Free = Free
    Clients = {c1, c2}
    NumServers = 2
    RpcThreads = 1
    MyServer <- OnePerNode
    ServerOnNode <- OnlyC1
    Keys = {k1, k2}
    Vals = {v1, v2}
    DefaultVal = v1
    Hash <- SharedHome
    Capacity = 1
INVARIANTS
    IndInv
    OneHome
    MissIsAbsence
PROPERTIES
    Linearizable
    CallsDrain
