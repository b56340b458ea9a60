\* One browse among three nodes that may crash and of which one starts late,
\* while a file is uploaded and downloaded.
CONSTANTS
    p1 = p1
    p2 = p2
    p3 = p3
    f1 = f1
    b1 = b1
    b2 = b2
    b3 = b3
    None = None
    OpenNetwork = OpenNetwork
    Peer = {p1, p2, p3}
    Mode <- OverHTTP
    Address <- TwoNames
    LocalAddress <- MCLocalAddress
    Reaches <- MCReaches
    PeersFlag <- LateFlag
    NetworkPassword <- MCNetworkPassword
    Compared <- MCCompared
    WorkDir <- OneDirectory
    Faults = {"crash"}
    MaxIncarnation = 1
    FileName = {f1}
    Block = {b1, b2, b3}
    Digest <- MCDigest
    Sum256 <- MCSum256
    Content <- OneVersion
    Upload = {1}
    Download = {1}
    BrowseRequest = {1}
SPECIFICATION MCBrowseSpec
INVARIANTS
    AvailabilityIsReal
    BrowseComplete
PROPERTIES
    BrowseEnds
\* Every request may have been answered.
CHECK_DEADLOCK FALSE
