------------------------------ MODULE MCBrowse ------------------------------
(***************************************************************************)
(* An instance of Browse for TLC: p1 and p2 are up and registered with     *)
(* each other, p1 knows p2 under two names, and p3 may join p1 while users *)
(* browse.                                                                 *)
(***************************************************************************)
EXTENDS Browse, MCSwarm

LateFlag == p1 :> <<P2PAddress(p1), P2PAddress(p2), OnLan(p2)>>
         @@ p2 :> <<P2PAddress(p1), P2PAddress(p2)>>
         @@ p3 :> <<P2PAddress(p1)>>

MCBrowseInit ==
    /\ running = {p1, p2}
    /\ incarnation = [p \in Peer |-> IF p = p3 THEN 0 ELSE 1]
    /\ boot = [p \in Peer |-> <<>>]
    /\ listening = [p \in Peer |-> IF p = p3 THEN {} ELSE {"http"}]
    /\ registry = [p \in Peer |-> IF p = p3 THEN <<>> ELSE PeersFlag[p]]
    /\ registering = {}
    /\ NoFiles
    /\ browse = [w \in BrowseRequest |-> IdleBrowse]

MCBrowseSpec == MCBrowseInit /\ [][BrowseNext]_browseVars /\ BrowseFairness
=============================================================================
