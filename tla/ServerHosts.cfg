SPECIFICATION DeploymentSpec
CONSTANTS
    Hashes <- MCHashes
    ServerCounts <- MCServerCounts
    Ports <- MCPorts
    KeyRange = {0, 1, 2, 3, 4, 5, 6}
    Hosts = {"a", "b"}
    MaxLines = 2
    MaxCount = 2
    MaxStatements = 4
INVARIANT HostsMeet
