\* Two uploads of one name, with different contents, on any of three nodes of which
\* one has two addresses, and one download; damaged answers and crashes.
CONSTANTS
    p1 = p1
    p2 = p2
    p3 = p3
    f1 = f1
    b1 = b1
    b2 = b2
    b3 = b3
    None = None
    OpenNetwork = OpenNetwork
    Peer = {p1, p2, p3}
    Mode <- OverHTTP
    Address <- TwoNames
    LocalAddress <- MCLocalAddress
    Reaches <- MCReaches
    PeersFlag <- SecondName
    NetworkPassword <- MCNetworkPassword
    Compared <- MCCompared
    WorkDir <- OneDirectory
    Faults = {"corrupt", "crash"}
    MaxIncarnation = 1
    FileName = {f1}
    Block = {b1, b2, b3}
    Digest <- MCDigest
    Sum256 <- MCSum256
    Content <- TwoVersions
    Upload = {u1, u2}
    Download = {1}
SPECIFICATION MCSpec
SYMMETRY UploadSymmetry
INVARIANTS
    LoadBalanced
    SelfProbedForCause
    DownloadCorrect
    PrimaryKeepsVersion
    ChunksAccounted
    StoreIsContentAddressed
PROPERTIES
    NothingIsUnshared
\* Every request may have been answered.
CHECK_DEADLOCK FALSE
