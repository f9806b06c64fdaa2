SPECIFICATION Spec
CONSTANTS
    s0 = s0
    s1 = s1
    c1 = c1
    c2 = c2
    Free = Free
    Dead = Dead
    None = None
    Servers <- MCServers
    Clients = {c1, c2}
    MyServer <- MCMyServer
    ServerOnNode <- MCServerOnNode
    Programs <- MCPrograms
    Inodes <- MCInodes
INVARIANTS
    IndInv
    NobodyFails
    HandlersFindState
    ClientsMeetServer
    NoStaleLock
PROPERTY
    Recovers
CHECK_DEADLOCK FALSE
