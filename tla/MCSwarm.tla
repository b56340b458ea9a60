------------------------------ MODULE MCSwarm -------------------------------
(***************************************************************************)
(* Instances of Swarm for TLC.  Most runs start when every node has booted *)
(* and registered (a state the Registry runs reach), so that the states    *)
(* explored are those of uploads and downloads.                            *)
(***************************************************************************)
EXTENDS Swarm

CONSTANTS p1, p2, p3, f1, b1, b2, b3

\* Digests are named after their blocks.
MCDigest == {<<"sum", x>> : x \in Block}
MCSum256 == [x \in Block |-> <<"sum", x>>]

\* The same password everywhere: none.
MCNetworkPassword == [p \in Peer |-> OpenNetwork]
MCCompared == OpenNetwork :> OpenNetwork

OverHTTP == [p \in Peer |-> "http"]
OverTCP == [p \in Peer |-> "tcp"]

\* All nodes are started in one directory of one machine, whose name on the
\* network is a second name of p2.
OneDirectory == [p \in Peer |-> p1]
Local == {"localhost"} \X Transport \X Peer
OneName == Local
TwoNames == Local \cup {"lan"} \X Range(Mode) \X {p2}
MCLocalAddress == [t \in Transport |-> [p \in Peer |-> <<"localhost", t, p>>]]
MCReaches ==
    [q \in Peer |-> [a \in Address |->
        [transport |-> IF a[2] \in {"http", Mode[a[3]]} THEN a[2] ELSE "none",
         peer      |-> a[3]]]]
OnLan(p) == <<"lan", Mode[p], p>>

\* Every node is started with the list of all nodes, itself included.
AllPeers == [p \in Peer |-> SetToSeq({P2PAddress(q) : q \in Peer})]

\* p2 has a second name: p1 lists it twice, and it lists itself under it as p3
\* does under its own.
SecondName ==
    p1 :> <<P2PAddress(p2), OnLan(p2), P2PAddress(p3)>>
    @@ p2 :> <<P2PAddress(p1), P2PAddress(p3), OnLan(p2)>>
    @@ p3 :> <<P2PAddress(p1), P2PAddress(p2), P2PAddress(p3)>>

\* p1 joins p2.
JoinFlag == p1 :> <<OnLan(p2)>> @@ p2 :> <<>>

\* All nodes are up, have run their discovery loop and have registered.
AllUp ==
    /\ running = Peer
    /\ incarnation = [p \in Peer |-> 1]
    /\ boot = [p \in Peer |-> <<>>]
    /\ listening = [p \in Peer |-> {"http", Mode[p]}]
    /\ registry = PeersFlag
    /\ registering = {}

NoFiles ==
    /\ sharedFiles = [p \in Peer |-> [n \in FileName |-> None]]
    /\ chunkData = [p \in Peer |-> [g \in Digest |-> None]]
    /\ disk = [p \in Peer |-> [n \in FileName |-> None]]
    /\ upload = [u \in Upload |-> IdleUpload]
    /\ download = [d \in Download |-> IdleDownload]
    /\ uploaded = [n \in FileName |-> {}]
    /\ raced = FALSE

MCInit == AllUp /\ NoFiles

MCSpec == MCInit /\ [][Next]_vars
MCFairSpec == MCSpec /\ Fairness

\* Which of two upload requests is which makes no difference.
UploadSymmetry == Permutations(Upload)

\* Files of two blocks.
OneVersion == {<<b1, b2>>}
OneOrEmpty == {<<b1, b2>>, <<>>}
\* A second version that shares a block with the first, in another place.
TwoVersions == {<<b1, b2, b1>>, <<b2, b3>>}
\* Two versions of different length.
TwoLengths == {<<b1, b2>>, <<b3>>}
=============================================================================
