SPECIFICATION Spec
CONSTANTS
    c1 = c1
    c2 = c2
    v1 = v1
    v2 = v2
    Free = Free
    Clients = {c1, c2}
    Scanners = {c1}
    NumServers = 3
    RpcThreads = 1
    MyServer <- OneAndZero
    ServerOnNode <- OnlyC1
    Keys = {0, 1, 2}
    Vals = {v1, v2}
    DefaultVal = v1
    Hash <- Homes
    Ranges <- OneOrTwo
    Capacity = 2
INVARIANTS
    ShardInv
    ScanForgetsOnlyStart
    StraysAreAlone
PROPERTIES
    Linearizable
