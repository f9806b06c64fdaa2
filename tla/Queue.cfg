SPECIFICATION Spec
CONSTANTS
    c1 = c1
    c2 = c2
    c3 = c3
    v1 = v1
    v2 = v2
    Free = Free
    Clients = {c1, c2, c3}
    NumServers = 1
    RpcThreads = 1
    MyServer <- AllServerZero
    ServerOnNode <- AllButC3
    Vals = {v1, v2}
    DefaultVal = v1
    Capacity = 2
INVARIANTS
    IndInv
PROPERTIES
    Linearizable
