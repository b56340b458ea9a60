\* One version (or an empty file), two downloads that may feed each other, and
\* crashes.
CONSTANTS
    p1 = p1
    p2 = p2
    p3 = p3
    f1 = f1
    b1 = b1
    b2 = b2
    b3 = b3
    None = None
    OpenNetwork = OpenNetwork
    Peer = {p1, p2, p3}
    Mode <- OverHTTP
    Address <- OneName
    LocalAddress <- MCLocalAddress
    Reaches <- MCReaches
    PeersFlag <- AllPeers
    NetworkPassword <- MCNetworkPassword
    Compared <- MCCompared
    WorkDir <- OneDirectory
    Faults = {"crash"}
    MaxIncarnation = 1
    FileName = {f1}
    Block = {b1, b2, b3}
    Digest <- MCDigest
    Sum256 <- MCSum256
    Content <- OneOrEmpty
    Upload = {1}
    Download = {1, 2}
SPECIFICATION MCFairSpec
INVARIANTS
    AdvertisedIsServable
PROPERTIES
    DownloadFailsForCause
    DownloadEnds
    SingleVersionSucceeds
\* Every request may have been answered.
CHECK_DEADLOCK FALSE
