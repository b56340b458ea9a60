------------------------------ MODULE Registry ------------------------------
(***************************************************************************)
(* Who knows whom: the process-wide list of peer addresses                 *)
(* (registry/registry.go), filled from the -peers flag when a node starts  *)
(* (main.go, "Peer Discovery") and by the registration requests of other   *)
(* nodes (handler/api.go, handler/tcp_listener.go), which are admitted by  *)
(* the network password (auth/network.go).                                 *)
(*                                                                         *)
(* A node is one process.  It serves its web interface and the HTTP peer   *)
(* interface on one port; with -transport tcp it also serves peers on a    *)
(* second port, and that listener is started before peer discovery while   *)
(* the HTTP server is started after it.  It calls peers over one transport *)
(* only.                                                                   *)
(*                                                                         *)
(* An address is a string that the code compares and dials, not a node:    *)
(* one node has several (localhost:8080, 127.0.0.1:8080, its name on the   *)
(* network), and "localhost" means another node on each machine.           *)
(*                                                                         *)
(* A definition introduced as a variant is not part of the model: it is    *)
(* the definition after it with one plausible fault, and stands in for it  *)
(* when a property is tested against that fault (README, "Variants").      *)
(***************************************************************************)
EXTENDS Naturals, SequencesExt

CONSTANTS
    Peer,            \* the nodes
    Mode,            \* each node's -transport flag
    Address,         \* the strings that nodes are listed and announced under
    LocalAddress,    \* "localhost:" and the port of each node, by transport
    Reaches,         \* what a node that dials an address gets hold of
    PeersFlag,       \* the addresses on each node's command line
    NetworkPassword, \* each node's -network-password
    OpenNetwork,     \* the empty password: registration is open
    Compared,        \* the part of a password that bcrypt looks at
    Faults,          \* what may go wrong in a run of the system
    MaxIncarnation   \* how often a node may be started

Transport == {"http", "tcp"}
\* A port of a node's machine, and the transport spoken there, if any.
Endpoint == [transport : Transport \cup {"none"}, peer : Peer]
FaultKind == {"loss", "corrupt", "crash", "save"}

ASSUME ModeAssumption == Mode \in [Peer -> Transport]
ASSUME AddressAssumption ==
    /\ LocalAddress \in [Transport -> [Peer -> Address]]
    /\ Reaches \in [Peer -> [Address -> Endpoint]]
\* On its own machine a node is what its localhost addresses stand for, and no
\* other address of localhost leads to it.
ASSUME LoopbackAssumption ==
    /\ \A p \in Peer : \A t \in {"http", Mode[p]} :
          Reaches[p][LocalAddress[t][p]] = [transport |-> t, peer |-> p]
    /\ \A p, q \in Peer, t, u \in Transport :
          Reaches[p][LocalAddress[u][q]] = [transport |-> t, peer |-> p]
             => LocalAddress[u][q] = LocalAddress[t][p]
ASSUME PeersFlagAssumption == PeersFlag \in [Peer -> Seq(Address)]
\* bcrypt looks at the first 72 bytes, and refuses to hash a longer password.
ASSUME PasswordAssumption ==
    /\ DOMAIN NetworkPassword = Peer
    /\ Range(NetworkPassword) \subseteq DOMAIN Compared
ASSUME FaultsAssumption == Faults \subseteq FaultKind
ASSUME MaxIncarnationAssumption == MaxIncarnation \in Nat

VARIABLES
    running,      \* the nodes whose process is up
    incarnation,  \* how often each node was started
    boot,         \* what is left of the discovery loop of main
    listening,    \* the ports a node accepts connections on, by transport
    registry,     \* registry.Peers
    registering   \* RegisterWithPeer goroutines that have not finished

registryVars == <<running, incarnation, boot, listening, registry, registering>>

\* The address a node knows itself by when it browses and downloads.
HTTPAddress(p) == LocalAddress["http"][p]

\* The address a node announces, selfAddr of main.
P2PAddress(p) == LocalAddress[Mode[p]][p]

Registration == [peer : Peer, from : Address, to : Address]

\* The node that answers when p dials a.
NodeAt(p, a) == Reaches[p][a].peer

\* Node p finds a listener of its transport behind the address.  The HTTP peer
\* interface is up on every node, the TCP listener in TCP mode only.
Serves(p, a) ==
    LET e == Reaches[p][a]
    IN  e.transport = Mode[p] /\ e.transport \in listening[e.peer]

\* NewNetworkAuth: a password that is too long to be hashed leaves the network
\* as open as none at all.
Guarded(q) ==
    /\ NetworkPassword[q] # OpenNetwork
    /\ Compared[NetworkPassword[q]] = NetworkPassword[q]

Validates(q, password) == Guarded(q) => Compared[password] = NetworkPassword[q]

\* registry.AddPeer.  Variants: no check for duplicates; the newest peer first.
AddPeerUnchecked(known, a) == Append(known, a)
AddPeerFirst(known, a) == IF a \in Range(known) THEN known ELSE <<a>> \o known
AddPeer(known, a) == IF a \in Range(known) THEN known ELSE Append(known, a)

-----------------------------------------------------------------------------
RegistryInit ==
    /\ running = {}
    /\ incarnation = [p \in Peer |-> 0]
    /\ boot = [p \in Peer |-> <<>>]
    /\ listening = [p \in Peer |-> {}]
    /\ registry = [p \in Peer |-> <<>>]
    /\ registering = {}

\* A node is started; everything it knows comes from its flags.
Boot(p) ==
    /\ p \notin running
    /\ incarnation[p] < MaxIncarnation
    /\ running' = running \cup {p}
    /\ incarnation' = [incarnation EXCEPT ![p] = @ + 1]
    /\ boot' = [boot EXCEPT ![p] = PeersFlag[p]]
    /\ UNCHANGED <<listening, registry, registering>>

\* The goroutine that runs TCPListener.Start reaches net.Listen.
ListenTCP(p) ==
    /\ p \in running
    /\ Mode[p] = "tcp"
    /\ "tcp" \notin listening[p]
    /\ listening' = [listening EXCEPT ![p] = @ \cup {"tcp"}]
    /\ UNCHANGED <<running, incarnation, boot, registry, registering>>

\* Variant: a node announces its web address whatever the transport.
DiscoverPeerAsWeb(p) ==
    /\ p \in running
    /\ boot[p] # <<>>
    /\ registry' = [registry EXCEPT ![p] = AddPeer(@, Head(boot[p]))]
    /\ registering' = registering \cup
         {[peer |-> p, from |-> HTTPAddress(p), to |-> Head(boot[p])]}
    /\ boot' = [boot EXCEPT ![p] = Tail(@)]
    /\ UNCHANGED <<running, incarnation, listening>>

\* One turn of the discovery loop: remember the address and start the
\* goroutine that registers this node there.
DiscoverPeer(p) ==
    /\ p \in running
    /\ boot[p] # <<>>
    /\ registry' = [registry EXCEPT ![p] = AddPeer(@, Head(boot[p]))]
    /\ registering' = registering \cup
         {[peer |-> p, from |-> P2PAddress(p), to |-> Head(boot[p])]}
    /\ boot' = [boot EXCEPT ![p] = Tail(@)]
    /\ UNCHANGED <<running, incarnation, listening>>

\* Variant: the web interface is served before discovery.
ListenHTTPFirst(p) ==
    /\ p \in running
    /\ "http" \notin listening[p]
    /\ listening' = [listening EXCEPT ![p] = @ \cup {"http"}]
    /\ UNCHANGED <<running, incarnation, boot, registry, registering>>

\* main reaches ListenAndServe only after the discovery loop.
ListenHTTP(p) ==
    /\ p \in running
    /\ boot[p] = <<>>
    /\ "http" \notin listening[p]
    /\ listening' = [listening EXCEPT ![p] = @ \cup {"http"}]
    /\ UNCHANGED <<running, incarnation, boot, registry, registering>>

\* Variant: the password is not looked at.
RegisterAnyPeer(r) ==
    /\ r \in registering
    /\ Serves(r.peer, r.to)
    /\ registry' = [registry EXCEPT ![NodeAt(r.peer, r.to)] = AddPeer(@, r.from)]
    /\ registering' = registering \ {r}
    /\ UNCHANGED <<running, incarnation, boot, listening>>

\* The registration handler of the node at r.to admits the address r.from,
\* whatever it means to that node.
RegisterPeer(r) ==
    /\ r \in registering
    /\ Serves(r.peer, r.to)
    /\ Validates(NodeAt(r.peer, r.to), NetworkPassword[r.peer])
    /\ registry' = [registry EXCEPT ![NodeAt(r.peer, r.to)] = AddPeer(@, r.from)]
    /\ registering' = registering \ {r}
    /\ UNCHANGED <<running, incarnation, boot, listening>>

\* The attempt fails: nobody listens, the password is refused, the caller
\* stopped before it connected, or the request is lost.  The caller logs a
\* warning and never tries again.
RegisterFails(r) ==
    /\ r \in registering
    /\ \/ ~Serves(r.peer, r.to)
       \/ ~Validates(NodeAt(r.peer, r.to), NetworkPassword[r.peer])
       \/ r.peer \notin running
       \/ "loss" \in Faults
    /\ registering' = registering \ {r}
    /\ UNCHANGED <<running, incarnation, boot, listening, registry>>

\* A process ends; the registry lives in memory only.  Requests it sent may
\* still be on their way.
Stop(p) ==
    /\ p \in running
    /\ running' = running \ {p}
    /\ boot' = [boot EXCEPT ![p] = <<>>]
    /\ listening' = [listening EXCEPT ![p] = {}]
    /\ registry' = [registry EXCEPT ![p] = <<>>]
    /\ UNCHANGED <<incarnation, registering>>

Crash(p) == "crash" \in Faults /\ Stop(p)

SettleRegistration(r) == RegisterPeer(r) \/ RegisterFails(r)

Discovery ==
    \/ \E p \in Peer : Boot(p) \/ ListenTCP(p) \/ DiscoverPeer(p) \/ ListenHTTP(p)
    \/ \E r \in registering : SettleRegistration(r)

RegistryNext == Discovery \/ \E p \in Peer : Crash(p)

RegistrySpec == RegistryInit /\ [][RegistryNext]_registryVars

\* A started process runs main to its end and every registration attempt
\* ends, because both transports put a timeout on it (http_transport.go,
\* tcp_transport.go).  Nothing forces a stopped node to start.
RegistryFairness ==
    /\ \A p \in Peer :
          /\ WF_registryVars(ListenTCP(p))
          /\ WF_registryVars(DiscoverPeer(p))
          /\ WF_registryVars(ListenHTTP(p))
    /\ \A p \in Peer : \A a \in Range(PeersFlag[p]) :
          WF_registryVars(SettleRegistration(
              [peer |-> p, from |-> P2PAddress(p), to |-> a]))

FairRegistrySpec == RegistrySpec /\ RegistryFairness
-----------------------------------------------------------------------------
(***************************************************************************)
(* Properties.                                                             *)
(***************************************************************************)
RegistryTypeOK ==
    /\ running \in SUBSET Peer
    /\ incarnation \in [Peer -> 0 .. MaxIncarnation]
    /\ boot \in [Peer -> Seq(Address)]
    /\ listening \in [Peer -> SUBSET Transport]
    /\ registry \in [Peer -> Seq(Address)]
    /\ registering \in SUBSET Registration

Distinct(s) == \A i, j \in DOMAIN s : s[i] = s[j] => i = j

\* No address is listed twice, whichever of the discovery loop and the
\* registration handlers enter it and however often the node restarts
\* (registry.go:17, "simple check to avoid duplicates").
NoDuplicatePeers == \A p \in Peer : Distinct(registry[p])

\* Node p has an address of q, at which it can call it, on its command line.
Lists(p, q) ==
    \E a \in Range(PeersFlag[p]) :
        Reaches[p][a] = [transport |-> Mode[p], peer |-> q]

\* Every address a node knows is on its own command line, or was announced by a
\* node that lists it and holds its network password (RegisterPeerHandler); a
\* network whose password could not be hashed is open (network.go:26).  The
\* address need not lead back to the node that announced it (main.go:73).
KnownPeersAdmitted ==
    \A q \in Peer : \A a \in Range(registry[q]) :
        \/ a \in Range(PeersFlag[q])
        \/ \E p \in Peer :
              /\ a = P2PAddress(p)
              /\ Lists(p, q)
              /\ Validates(q, NetworkPassword[p])

\* By the time the web interface answers, every address of the command line
\* is in the registry, so browse and download consult all of them: main
\* starts the HTTP server after the discovery loop.
UserSeesFlaggedPeers ==
    \A p \in Peer : "http" \in listening[p]
                    => Range(PeersFlag[p]) \subseteq Range(registry[p])

\* While a process lives its registry only grows at the end: a peer that was
\* told "registered" is not dropped, nor is the order round robin relies on
\* disturbed.
RegistryOnlyGrows ==
    [][\A p \in Peer : p \in running /\ p \in running'
                       => IsPrefix(registry[p], registry'[p])]_registryVars

\* Node q has an address at which it can call p.
Knows(q, p) ==
    \E a \in Range(registry[q]) :
        Reaches[q][a] = [transport |-> Mode[q], peer |-> p]

\* What p announces leads q to p: so it is for two nodes of one machine and one
\* transport, and not for nodes of two machines, as every node announces
\* "localhost" (main.go:71).
Announced(p, q) == Reaches[q][P2PAddress(p)] = [transport |-> Mode[q], peer |-> p]

\* Node p has still to turn to the address a, where a node serves it that will
\* admit it.
Joining(p, a) ==
    /\ p \in running /\ a \in Range(boot[p])
    /\ Serves(p, a)
    /\ Validates(NodeAt(p, a), NetworkPassword[p])

\* A node that starts while a node it lists serves already, becomes known to
\* it, if its announcement names it there and unless one of the two stops
\* first.  (When the other comes up later the attempt is over; nothing in the
\* code makes up for that.)
LateJoinerBecomesKnown ==
    \A p \in Peer : \A a \in Range(PeersFlag[p]) :
        (Joining(p, a) /\ Announced(p, NodeAt(p, a)))
        ~> (Knows(NodeAt(p, a), p) \/ ~Serves(p, a) \/ p \notin running)

-----------------------------------------------------------------------------
(***************************************************************************)
(* What the invariants rest on.                                            *)
(***************************************************************************)

\* What the discovery loop has not reached is on the command line, and what it
\* has reached is in the registry.
BootingFromFlags ==
    \A p \in Peer :
        /\ Range(boot[p]) \subseteq Range(PeersFlag[p])
        /\ p \in running =>
              Range(PeersFlag[p]) \subseteq Range(registry[p]) \cup Range(boot[p])
        /\ "http" \in listening[p] => p \in running /\ boot[p] = <<>>

\* A node registers itself, under its own address, where its flag says.
RegistrationsFromFlags ==
    \A r \in registering :
        /\ r.from = P2PAddress(r.peer)
        /\ r.to \in Range(PeersFlag[r.peer])

\* The inductive invariant of the proofs in RegistryProofs.
RegistryInv ==
    /\ RegistryTypeOK
    /\ NoDuplicatePeers
    /\ KnownPeersAdmitted
    /\ UserSeesFlaggedPeers
    /\ BootingFromFlags
    /\ RegistrationsFromFlags
=============================================================================
