--------------------------- MODULE RegistryProofs ---------------------------
(***************************************************************************)
(* RegistryInv is an inductive invariant of Registry: proofs for any       *)
(* number of nodes, any command lines and passwords, and every set of      *)
(* faults.                                                                 *)
(***************************************************************************)
EXTENDS Registry, TLAPS

\* registry.AddPeer turns a list of addresses into a list of addresses.
LEMMA AddPeerType ==
    ASSUME NEW known \in Seq(Address), NEW x \in Address
    PROVE  AddPeer(known, x) \in Seq(Address)
BY DEF AddPeer

\* selfAddr of main is an address, and so is the one a node skips.
LEMMA AddressType ==
    ASSUME NEW p \in Peer
    PROVE  P2PAddress(p) \in Address /\ HTTPAddress(p) \in Address
<1>1. Mode[p] \in Transport /\ "http" \in Transport
  BY ModeAssumption DEF Transport
<1> QED
  BY <1>1, AddressAssumption DEF P2PAddress, HTTPAddress

\* Behind every address is a port of some node's machine.
LEMMA NodeAtType ==
    ASSUME NEW p \in Peer, NEW a \in Address
    PROVE  NodeAt(p, a) \in Peer
<1>1. Reaches[p][a] \in Endpoint
  BY AddressAssumption
<1> QED
  BY <1>1 DEF NodeAt, Endpoint

\* A node that is found at an address speaks the caller's transport there.
LEMMA ServesReaches ==
    ASSUME NEW p \in Peer, NEW a \in Address, Serves(p, a)
    PROVE  /\ Reaches[p][a] = [transport |-> Mode[p], peer |-> NodeAt(p, a)]
           /\ Mode[p] \in listening[NodeAt(p, a)]
<1>1. Reaches[p][a] \in Endpoint
  BY AddressAssumption
<1> QED
  BY <1>1 DEF Serves, NodeAt, Endpoint

\* Starting a node, its listeners, the discovery loop of main and the
\* registration handlers keep the types of the registry.
LEMMA DiscoveryTypes ==
    ASSUME RegistryTypeOK, Discovery
    PROVE  RegistryTypeOK'
<1> USE DEF RegistryTypeOK
<1>1. ASSUME NEW p \in Peer, Boot(p) PROVE RegistryTypeOK'
  <2>1. incarnation' \in [Peer -> 0 .. MaxIncarnation]
    <3>1. incarnation[p] \in 0 .. MaxIncarnation /\ incarnation[p] < MaxIncarnation
      BY <1>1 DEF Boot
    <3>2. incarnation[p] + 1 \in 0 .. MaxIncarnation
      BY <3>1, MaxIncarnationAssumption
    <3> QED
      BY <1>1, <3>2 DEF Boot
  <2>2. PeersFlag[p] \in Seq(Address)
    BY PeersFlagAssumption
  <2> QED
    BY <1>1, <2>1, <2>2 DEF Boot
<1>2. ASSUME NEW p \in Peer, ListenTCP(p) PROVE RegistryTypeOK'
  BY <1>2 DEF ListenTCP, Transport
<1>3. ASSUME NEW p \in Peer, DiscoverPeer(p) PROVE RegistryTypeOK'
  <2>1. Head(boot[p]) \in Address /\ Tail(boot[p]) \in Seq(Address)
    BY <1>3 DEF DiscoverPeer
  <2>2. registry' \in [Peer -> Seq(Address)]
    BY <1>3, <2>1, AddPeerType DEF DiscoverPeer
  <2>3. registering' \in SUBSET Registration
    BY <1>3, <2>1, AddressType DEF DiscoverPeer, Registration
  <2> QED
    BY <1>3, <2>1, <2>2, <2>3 DEF DiscoverPeer
<1>4. ASSUME NEW p \in Peer, ListenHTTP(p) PROVE RegistryTypeOK'
  BY <1>4 DEF ListenHTTP, Transport
<1>5. ASSUME NEW r \in registering, RegisterPeer(r) PROVE RegistryTypeOK'
  <2>1. r.from \in Address /\ r.to \in Address /\ r.peer \in Peer
    BY <1>5 DEF Registration
  <2>2. registry' \in [Peer -> Seq(Address)]
    BY <1>5, <2>1, AddPeerType DEF RegisterPeer
  <2> QED
    BY <1>5, <2>2 DEF RegisterPeer
<1>6. ASSUME NEW r \in registering, RegisterFails(r) PROVE RegistryTypeOK'
  BY <1>6 DEF RegisterFails
<1> QED
  BY <1>1, <1>2, <1>3, <1>4, <1>5, <1>6 DEF Discovery, SettleRegistration

\* The end of a process keeps the types of the registry.
LEMMA StopTypes ==
    ASSUME RegistryTypeOK, NEW p \in Peer, Stop(p)
    PROVE  RegistryTypeOK'
BY DEF RegistryTypeOK, Stop
-----------------------------------------------------------------------------
(***************************************************************************)
(* registry.AddPeer.                                                       *)
(***************************************************************************)

\* The addresses of a list with one more, and without its first.
LEMMA RangeOfList ==
    ASSUME NEW s \in Seq(Address)
    PROVE  /\ \A a \in Address : Range(Append(s, a)) = Range(s) \cup {a}
           /\ s # <<>> => /\ Head(s) \in Range(s)
                          /\ Range(s) = Range(Tail(s)) \cup {Head(s)}
<1>1. ASSUME NEW a \in Address
      PROVE  Range(Append(s, a)) = Range(s) \cup {a}
  <2>1. /\ DOMAIN s = 1 .. Len(s) /\ DOMAIN Append(s, a) = 1 .. Len(s) + 1
        /\ Len(s) \in Nat
        /\ \A i \in 1 .. Len(s) : Append(s, a)[i] = s[i]
        /\ Append(s, a)[Len(s) + 1] = a
    OBVIOUS
  <2>2. Range(s) \subseteq Range(Append(s, a)) /\ a \in Range(Append(s, a))
    BY <2>1 DEF Range
  <2>3. ASSUME NEW i \in 1 .. Len(s) + 1
        PROVE  Append(s, a)[i] \in Range(s) \cup {a}
    BY <2>1 DEF Range
  <2> QED
    BY <2>1, <2>2, <2>3 DEF Range
<1>2. ASSUME s # <<>>
      PROVE  /\ Head(s) \in Range(s)
             /\ Range(s) = Range(Tail(s)) \cup {Head(s)}
  <2>1. /\ Len(s) \in Nat \ {0} /\ Head(s) = s[1] /\ DOMAIN s = 1 .. Len(s)
        /\ DOMAIN Tail(s) = 1 .. Len(s) - 1
        /\ \A i \in 1 .. Len(s) - 1 : Tail(s)[i] = s[i + 1]
    BY <1>2
  <2>2. Head(s) \in Range(s)
    BY <2>1 DEF Range
  <2>3. Range(Tail(s)) \subseteq Range(s)
    BY <2>1 DEF Range
  <2>4. ASSUME NEW i \in 1 .. Len(s)
        PROVE  s[i] \in Range(Tail(s)) \cup {Head(s)}
    <3>1. CASE i = 1
      BY <2>1, <3>1
    <3>2. CASE i # 1
      <4>1. i - 1 \in 1 .. Len(s) - 1 /\ Tail(s)[i - 1] = s[i]
        BY <2>1, <3>2
      <4> QED
        BY <2>1, <4>1 DEF Range
    <3> QED
      BY <3>1, <3>2
  <2> QED
    BY <2>1, <2>2, <2>3, <2>4 DEF Range
<1> QED
  BY <1>1, <1>2

\* An address is entered once, at the end.
LEMMA AddPeerFacts ==
    ASSUME NEW known \in Seq(Address), NEW a \in Address
    PROVE  /\ AddPeer(known, a) \in Seq(Address)
           /\ Range(AddPeer(known, a)) = Range(known) \cup {a}
           /\ Distinct(known) => Distinct(AddPeer(known, a))
           /\ IsPrefix(known, AddPeer(known, a))
<1>1. CASE a \in Range(known)
  <2>1. AddPeer(known, a) = known
    BY <1>1 DEF AddPeer
  <2> QED
    BY <1>1, <2>1 DEF IsPrefix
<1>2. CASE a \notin Range(known)
  <2>1. AddPeer(known, a) = Append(known, a)
    BY <1>2 DEF AddPeer
  <2>2. Distinct(known) => Distinct(Append(known, a))
    BY <1>2 DEF Distinct, Range
  <2>3. IsPrefix(known, Append(known, a))
    BY DEF IsPrefix
  <2> QED
    BY <2>1, <2>2, <2>3, RangeOfList
<1> QED
  BY <1>1, <1>2

\* The same in terms of the registry of a node: it knows the address and what
\* it knew before, and the other nodes know what they knew.
LEMMA EntersPeer ==
    ASSUME RegistryInv, NEW q \in Peer, NEW a \in Address,
           registry' = [registry EXCEPT ![q] = AddPeer(@, a)]
    PROVE  /\ \A p \in Peer : Range(registry'[p]) =
                  IF p = q THEN Range(registry[p]) \cup {a} ELSE Range(registry[p])
           /\ \A p \in Peer : IsPrefix(registry[p], registry'[p])
           /\ NoDuplicatePeers'
<1>1. registry \in [Peer -> Seq(Address)] /\ NoDuplicatePeers
  BY DEF RegistryInv, RegistryTypeOK
<1>2. \A p \in Peer : registry'[p] = IF p = q THEN AddPeer(registry[p], a) ELSE registry[p]
  BY <1>1
<1>3. \A p \in Peer : IsPrefix(registry[p], registry[p])
  BY <1>1 DEF IsPrefix
<1>4. \A p \in Peer : Distinct(registry[p])
  BY <1>1 DEF NoDuplicatePeers
<1>5. \A p \in Peer : Distinct(registry'[p])
  BY <1>1, <1>2, <1>4, AddPeerFacts
<1> QED
  BY <1>1, <1>2, <1>3, <1>5, AddPeerFacts DEF NoDuplicatePeers

-----------------------------------------------------------------------------
(***************************************************************************)
(* The steps.                                                              *)
(***************************************************************************)

\* A new process starts with its whole command line before it.
LEMMA BootInv ==
    ASSUME RegistryInv, NEW p \in Peer, Boot(p)
    PROVE  RegistryInv'
<1>1. RegistryTypeOK'
  BY DiscoveryTypes DEF RegistryInv, Discovery
<1>2. boot \in [Peer -> Seq(Address)] /\ "http" \notin listening[p]
  BY DEF RegistryInv, RegistryTypeOK, BootingFromFlags, Boot
<1>3. BootingFromFlags'
  BY <1>2 DEF RegistryInv, BootingFromFlags, Boot
<1>4. NoDuplicatePeers' /\ KnownPeersAdmitted' /\ UserSeesFlaggedPeers' /\ RegistrationsFromFlags'
  BY DEF Boot, RegistryInv, NoDuplicatePeers, KnownPeersAdmitted, UserSeesFlaggedPeers,
         RegistrationsFromFlags
<1> QED
  BY <1>1, <1>3, <1>4 DEF RegistryInv

\* A turn of the discovery loop moves an address from what is left of the
\* command line to the registry.
LEMMA DiscoverPeerInv ==
    ASSUME RegistryInv, NEW p \in Peer, DiscoverPeer(p)
    PROVE  RegistryInv'
<1> DEFINE a == Head(boot[p])
<1>1. RegistryTypeOK'
  BY DiscoveryTypes DEF RegistryInv, Discovery
<1>2. /\ a \in Address /\ a \in Range(boot[p])
      /\ Range(boot[p]) = Range(Tail(boot[p])) \cup {a}
      /\ boot \in [Peer -> Seq(Address)]
  <2>1. boot[p] \in Seq(Address) /\ boot[p] # <<>>
    BY DEF RegistryInv, RegistryTypeOK, DiscoverPeer
  <2> QED
    BY <2>1, RangeOfList DEF RegistryInv, RegistryTypeOK
<1>3. /\ registry' = [registry EXCEPT ![p] = AddPeer(@, a)]
      /\ boot' = [boot EXCEPT ![p] = Tail(@)]
      /\ registering' = registering \cup
            {[peer |-> p, from |-> P2PAddress(p), to |-> a]}
      /\ UNCHANGED <<running, incarnation, listening>>
      /\ boot[p] # <<>>
  BY DEF DiscoverPeer
<1>4. /\ \A q \in Peer : Range(registry'[q]) =
            IF q = p THEN Range(registry[q]) \cup {a} ELSE Range(registry[q])
      /\ NoDuplicatePeers'
  BY <1>2, <1>3, EntersPeer
<1>5. /\ \A q \in Peer : q # p => boot'[q] = boot[q]
      /\ boot'[p] = Tail(boot[p])
  BY <1>2, <1>3
<1>6. a \in Range(PeersFlag[p])
  BY <1>2 DEF RegistryInv, BootingFromFlags
<1>7. KnownPeersAdmitted'
  <2>1. ASSUME NEW q \in Peer, NEW b \in Range(registry'[q])
        PROVE  b \in Range(registry[q]) \/ (q = p /\ b = a)
    BY <1>4, <2>1
  <2> QED
    BY <1>6, <2>1 DEF RegistryInv, KnownPeersAdmitted
<1>8. BootingFromFlags' /\ UserSeesFlaggedPeers'
  <2>1. "http" \notin listening[p]
    BY <1>3 DEF RegistryInv, BootingFromFlags
  <2>2. /\ Range(boot'[p]) \subseteq Range(PeersFlag[p])
        /\ p \in running => Range(PeersFlag[p]) \subseteq Range(registry'[p]) \cup Range(boot'[p])
    <3>1. /\ Range(boot[p]) \subseteq Range(PeersFlag[p])
          /\ p \in running => Range(PeersFlag[p]) \subseteq Range(registry[p]) \cup Range(boot[p])
      BY DEF RegistryInv, BootingFromFlags
    <3>2. Range(registry'[p]) = Range(registry[p]) \cup {a}
      BY <1>4
    <3>3. Range(boot[p]) = Range(boot'[p]) \cup {a}
      BY <1>2, <1>5
    <3> QED
      BY <3>1, <3>2, <3>3
  <2>3. ASSUME NEW q \in Peer, q # p
        PROVE  /\ Range(boot'[q]) \subseteq Range(PeersFlag[q])
               /\ q \in running =>
                     Range(PeersFlag[q]) \subseteq Range(registry'[q]) \cup Range(boot'[q])
               /\ "http" \in listening[q] => q \in running /\ boot'[q] = <<>>
    BY <1>4, <1>5, <2>3 DEF RegistryInv, BootingFromFlags
  <2>4. BootingFromFlags'
    BY <1>3, <2>1, <2>2, <2>3 DEF BootingFromFlags
  <2>5. UserSeesFlaggedPeers'
    BY <1>3, <1>4, <2>1 DEF RegistryInv, UserSeesFlaggedPeers
  <2> QED
    BY <2>4, <2>5
<1>9. RegistrationsFromFlags'
  BY <1>3, <1>6 DEF RegistryInv, RegistrationsFromFlags, P2PAddress
<1> QED
  BY <1>1, <1>4, <1>7, <1>8, <1>9 DEF RegistryInv

\* The listeners come up; the web interface when the loop has ended.
LEMMA ListenInv ==
    ASSUME RegistryInv, NEW p \in Peer, ListenTCP(p) \/ ListenHTTP(p)
    PROVE  RegistryInv'
<1>1. RegistryTypeOK'
  BY DiscoveryTypes DEF RegistryInv, Discovery
<1>2. /\ UNCHANGED <<running, incarnation, boot, registry, registering>>
      /\ \A q \in Peer : "http" \in listening'[q] =>
            "http" \in listening[q] \/ (q = p /\ p \in running /\ boot[p] = <<>>)
  BY DEF ListenTCP, ListenHTTP, RegistryInv, RegistryTypeOK
<1>3. NoDuplicatePeers' /\ KnownPeersAdmitted' /\ RegistrationsFromFlags' /\ BootingFromFlags'
  BY <1>2 DEF RegistryInv, NoDuplicatePeers, KnownPeersAdmitted, RegistrationsFromFlags,
              BootingFromFlags
<1>4. UserSeesFlaggedPeers'
  <2>1. Range(<<>>) = {}
    BY DEF Range
  <2> QED
    BY <1>2, <2>1 DEF RegistryInv, UserSeesFlaggedPeers, BootingFromFlags
<1> QED
  BY <1>1, <1>3, <1>4 DEF RegistryInv

\* The registration handlers admit a node that has the password and names them
\* on its command line; a refused or lost request changes no registry.
LEMMA SettleRegistrationInv ==
    ASSUME RegistryInv, NEW r \in registering, SettleRegistration(r)
    PROVE  RegistryInv'
<1> DEFINE q == NodeAt(r.peer, r.to)
<1>1. RegistryTypeOK'
  BY DiscoveryTypes DEF RegistryInv, Discovery
<1>2. r.from \in Address /\ r.to \in Address /\ r.peer \in Peer /\ q \in Peer
  <2>1. r.from \in Address /\ r.to \in Address /\ r.peer \in Peer
    BY DEF RegistryInv, RegistryTypeOK, Registration
  <2> QED
    BY <2>1, NodeAtType
<1>3. registering' \subseteq registering /\ UNCHANGED <<running, boot, listening>>
  BY DEF SettleRegistration, RegisterPeer, RegisterFails
<1>4. CASE RegisterFails(r)
  BY <1>1, <1>3, <1>4
     DEF RegisterFails, RegistryInv, NoDuplicatePeers, KnownPeersAdmitted,
         UserSeesFlaggedPeers, BootingFromFlags, RegistrationsFromFlags
<1>5. CASE RegisterPeer(r)
  <2>1. registry' = [registry EXCEPT ![q] = AddPeer(@, r.from)]
    BY <1>5 DEF RegisterPeer
  <2>2. /\ \A p \in Peer : Range(registry'[p]) =
              IF p = q THEN Range(registry[p]) \cup {r.from} ELSE Range(registry[p])
        /\ NoDuplicatePeers'
    BY <1>2, <2>1, EntersPeer
  <2>3. /\ r.from = P2PAddress(r.peer)
        /\ Lists(r.peer, q)
        /\ Validates(q, NetworkPassword[r.peer])
    <3>1. /\ Reaches[r.peer][r.to] = [transport |-> Mode[r.peer], peer |-> q]
      BY <1>2, <1>5, ServesReaches DEF RegisterPeer
    <3>2. r.from = P2PAddress(r.peer) /\ r.to \in Range(PeersFlag[r.peer])
      BY DEF RegistryInv, RegistrationsFromFlags
    <3> QED
      BY <1>5, <3>1, <3>2 DEF RegisterPeer, Lists
  <2>4. KnownPeersAdmitted'
    BY <1>2, <2>2, <2>3 DEF RegistryInv, KnownPeersAdmitted
  <2>5. UserSeesFlaggedPeers' /\ BootingFromFlags' /\ RegistrationsFromFlags'
    BY <1>3, <2>2
       DEF RegistryInv, UserSeesFlaggedPeers, BootingFromFlags, RegistrationsFromFlags
  <2> QED
    BY <1>1, <2>2, <2>4, <2>5 DEF RegistryInv
<1> QED
  BY <1>4, <1>5 DEF SettleRegistration

\* A process that ends takes its registry with it; its registrations may still
\* arrive.
LEMMA StopInv ==
    ASSUME RegistryInv, NEW p \in Peer, Stop(p)
    PROVE  RegistryInv'
<1>1. RegistryTypeOK'
  BY StopTypes DEF RegistryInv
<1>2. /\ Range(<<>>) = {} /\ DOMAIN <<>> = {}
  BY DEF Range
<1>3. /\ \A q \in Peer : q # p => /\ registry'[q] = registry[q] /\ boot'[q] = boot[q]
                                   /\ listening'[q] = listening[q]
      /\ registry'[p] = <<>> /\ boot'[p] = <<>> /\ listening'[p] = {}
      /\ registering' = registering /\ running' = running \ {p}
  BY DEF Stop, RegistryInv, RegistryTypeOK
<1>4. NoDuplicatePeers' /\ KnownPeersAdmitted' /\ UserSeesFlaggedPeers'
  BY <1>2, <1>3 DEF RegistryInv, NoDuplicatePeers, Distinct, KnownPeersAdmitted,
                    UserSeesFlaggedPeers
<1>5. BootingFromFlags' /\ RegistrationsFromFlags'
  BY <1>2, <1>3 DEF RegistryInv, BootingFromFlags, RegistrationsFromFlags
<1> QED
  BY <1>1, <1>4, <1>5 DEF RegistryInv

-----------------------------------------------------------------------------
\* No node runs yet.
LEMMA RegistryInitInv ==
    ASSUME RegistryInit
    PROVE  RegistryInv
<1>1. RegistryTypeOK
  BY MaxIncarnationAssumption DEF RegistryInit, RegistryTypeOK
<1>2. Range(<<>>) = {} /\ DOMAIN <<>> = {}
  BY DEF Range
<1> QED
  BY <1>1, <1>2
     DEF RegistryInit, RegistryInv, NoDuplicatePeers, Distinct, KnownPeersAdmitted,
         UserSeesFlaggedPeers, BootingFromFlags, RegistrationsFromFlags

\* Every step of discovery preserves RegistryInv.
LEMMA DiscoveryInv ==
    ASSUME RegistryInv, Discovery
    PROVE  RegistryInv'
BY BootInv, DiscoverPeerInv, ListenInv, SettleRegistrationInv DEF Discovery

\* RegistryInv holds in every state of the registries.
THEOREM RegistryInvHolds == RegistrySpec => []RegistryInv
<1>1. RegistryInit => RegistryInv
  BY RegistryInitInv
<1>2. RegistryInv /\ [RegistryNext]_registryVars => RegistryInv'
  <2>1. ASSUME RegistryInv, RegistryNext
        PROVE  RegistryInv'
    BY <2>1, DiscoveryInv, StopInv DEF RegistryNext, Crash
  <2>2. ASSUME RegistryInv, UNCHANGED registryVars
        PROVE  RegistryInv'
    BY <2>2 DEF registryVars, RegistryInv, RegistryTypeOK, NoDuplicatePeers, Distinct,
                KnownPeersAdmitted, UserSeesFlaggedPeers, BootingFromFlags,
                RegistrationsFromFlags
  <2> QED
    BY <2>1, <2>2
<1> QED
  BY <1>1, <1>2, PTL DEF RegistrySpec

\* No registry ever lists an address twice.
THEOREM PeersAreDistinct == RegistrySpec => []NoDuplicatePeers
<1>1. RegistryInv => NoDuplicatePeers
  BY DEF RegistryInv
<1> QED
  BY <1>1, RegistryInvHolds, PTL

\* Every address in a registry is on the node's command line or was announced by
\* a node that lists it and was admitted, with its password or because it could
\* not hash one.
THEOREM PeersAreAdmitted == RegistrySpec => []KnownPeersAdmitted
<1>1. RegistryInv => KnownPeersAdmitted
  BY DEF RegistryInv
<1> QED
  BY <1>1, RegistryInvHolds, PTL

\* Users find all addresses of the command line in the registry.
THEOREM UsersSeeAllFlags == RegistrySpec => []UserSeesFlaggedPeers
<1>1. RegistryInv => UserSeesFlaggedPeers
  BY DEF RegistryInv
<1> QED
  BY <1>1, RegistryInvHolds, PTL

\* While a process lives its registry is only extended at its end.
THEOREM RegistriesOnlyGrow == RegistrySpec => RegistryOnlyGrows
<1> DEFINE Grows == \A p \in Peer : p \in running /\ p \in running'
                                   => IsPrefix(registry[p], registry'[p])
<1>1. ASSUME RegistryInv, [RegistryNext]_registryVars
      PROVE  Grows
  <2>1. \A p \in Peer : IsPrefix(registry[p], registry[p])
    BY <1>1 DEF RegistryInv, RegistryTypeOK, IsPrefix
  <2>2. CASE UNCHANGED registryVars
    BY <2>1, <2>2 DEF registryVars
  <2>3. ASSUME NEW q \in Peer, Boot(q) \/ ListenTCP(q) \/ ListenHTTP(q)
        PROVE  Grows
    BY <2>1, <2>3 DEF Boot, ListenTCP, ListenHTTP
  <2>4. ASSUME NEW q \in Peer, DiscoverPeer(q)
        PROVE  Grows
    <3>1. Head(boot[q]) \in Address
      BY <1>1, <2>4 DEF RegistryInv, RegistryTypeOK, DiscoverPeer
    <3> QED
      BY <1>1, <2>4, <3>1, EntersPeer DEF DiscoverPeer
  <2>5. ASSUME NEW r \in registering, SettleRegistration(r)
        PROVE  Grows
    <3>1. r.from \in Address /\ NodeAt(r.peer, r.to) \in Peer
      BY <1>1, NodeAtType DEF RegistryInv, RegistryTypeOK, Registration
    <3> QED
      BY <1>1, <2>1, <2>5, <3>1, EntersPeer
         DEF SettleRegistration, RegisterPeer, RegisterFails
  <2>6. ASSUME NEW q \in Peer, Crash(q)
        PROVE  Grows
    BY <1>1, <2>1, <2>6 DEF Crash, Stop, RegistryInv, RegistryTypeOK
  <2> QED
    BY <1>1, <2>2, <2>3, <2>4, <2>5, <2>6 DEF RegistryNext, Discovery
<1> QED
  BY <1>1, RegistryInvHolds, PTL DEF RegistrySpec, RegistryOnlyGrows
=============================================================================
