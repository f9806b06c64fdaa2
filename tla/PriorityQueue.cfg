SPECIFICATION Spec
CONSTANTS
    c1 = c1
    c2 = c2
    c3 = c3
    Free = Free
    Clients = {c1, c2, c3}
    NumServers = 1
    RpcThreads = 1
    MyServer <- AllServerZero
    ServerOnNode <- AllButC3
    Vals = {0, 1, 2}
    DefaultVal = 0
    Capacity = 2
INVARIANTS
    IndInv
PROPERTIES
    Linearizable
