\* Three nodes on two machines boot, register and crash in any order.
CONSTANTS
    n1 = n1
    n2 = n2
    n3 = n3
    secret = secret
    other = other
    lengthy = lengthy
    OpenNetwork = OpenNetwork
    Peer = {n1, n2, n3}
    Mode <- MCMode
    Address <- MCAddress
    LocalAddress <- MCLocalAddress
    Reaches <- MCReaches
    PeersFlag <- MCPeersFlag
    NetworkPassword <- MCNetworkPassword
    Compared <- MCCompared
    Faults = {"crash"}
    MaxIncarnation = 2
SPECIFICATION FairRegistrySpec
INVARIANTS
    RegistryInv
    NoDuplicatePeers
    KnownPeersAdmitted
PROPERTIES
    RegistryOnlyGrows
    LateJoinerBecomesKnown
\* Every node may have stopped for good.
CHECK_DEADLOCK FALSE
