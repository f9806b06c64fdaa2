SPECIFICATION Spec
CONSTANTS
    c1 = c1
    c2 = c2
    c3 = c3
    Free = Free
    Clients = {c1, c2, c3}
    NumServers = 2
    RpcThreads = 1
    MyServer <- TwoOnNode
    ServerOnNode <- AllButC3
    MaxCalls = 2
CHECK_DEADLOCK FALSE
INVARIANTS
    IndInv
    NumbersInOrder
    LaterCallsGetGreaterNumbers
