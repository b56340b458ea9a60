\* Two downloads of one name save to the same file.
CONSTANTS
    p1 = p1
    p2 = p2
    p3 = p3
    f1 = f1
    b1 = b1
    b2 = b2
    b3 = b3
    None = None
    OpenNetwork = OpenNetwork
    Peer = {p1, p2}
    Mode <- OverHTTP
    Address <- OneName
    LocalAddress <- MCLocalAddress
    Reaches <- MCReaches
    PeersFlag <- AllPeers
    NetworkPassword <- MCNetworkPassword
    Compared <- MCCompared
    WorkDir <- OneDirectory
    Faults = {}
    MaxIncarnation = 1
    FileName = {f1}
    Block = {b1, b2, b3}
    Digest <- MCDigest
    Sum256 <- MCSum256
    Content <- TwoLengths
    Upload = {1, 2}
    Download = {1, 2}
SPECIFICATION MCSpec
INVARIANTS
    DiskHoldsOneVersion
\* Every request may have been answered.
CHECK_DEADLOCK FALSE
