\* Two nodes from their start, with every fault and a restart: the inductive
\* invariant of ServiceProofs, which contains the one of SwarmProofs, and the
\* promise of FileService.
CONSTANTS
    p1 = p1
    p2 = p2
    p3 = p3
    f1 = f1
    b1 = b1
    b2 = b2
    b3 = b3
    None = None
    OpenNetwork = OpenNetwork
    Peer = {p1, p2}
    Mode <- OverTCP
    Address <- TwoNames
    LocalAddress <- MCLocalAddress
    Reaches <- MCReaches
    PeersFlag <- JoinFlag
    NetworkPassword <- MCNetworkPassword
    Compared <- MCCompared
    WorkDir <- OneDirectory
    Faults = {"loss", "corrupt", "crash", "save"}
    MaxIncarnation = 2
    FileName = {f1}
    Block = {b1, b2, b3}
    Digest <- MCDigest
    Sum256 <- MCSum256
    Content <- TwoVersions
    Upload = {1}
    Download = {1}
SPECIFICATION Spec
INVARIANTS
    CauseInv
PROPERTIES
    ServiceImplemented
\* Every request may have been answered.
CHECK_DEADLOCK FALSE
