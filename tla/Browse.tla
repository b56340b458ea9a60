------------------------------- MODULE Browse -------------------------------
(***************************************************************************)
(* Browsing: BrowseFilesHandler (handler/distribute.go) asks the peers its *)
(* node knows, one after another, for the lists of their files             *)
(* (FileListHandler, TCPListener.handleFileList), while the files of the   *)
(* swarm are uploaded and downloaded and nodes stop.  A browse reads the   *)
(* swarm and changes nothing in it.                                        *)
(*                                                                         *)
(* A definition introduced as a variant is not part of the model: it is    *)
(* the definition after it with one plausible fault, and stands in for it  *)
(* when a property is tested against that fault (README, "Variants").      *)
(***************************************************************************)
EXTENDS Swarm

CONSTANT BrowseRequest

\* Peers are counted.
ASSUME PeersFinite == IsFiniteSet(Peer)

VARIABLE browse    \* the progress of each request to browse

browseVars == <<vars, browse>>

IdleBrowse ==
    [pc |-> "idle", peer |-> None, toAsk |-> <<>>, listed |-> {},
     count |-> [n \in FileName |-> 0],           \* PeersCount of seenFiles
     first |-> [n \in FileName |-> None],        \* PeerAddress of seenFiles
     offered |-> [n \in FileName |-> {}],        \* history: where it was at first
     disturbed |-> FALSE]                        \* history: a peer or a list was lost

FailedBrowse == [IdleBrowse EXCEPT !.pc = "failed"]

BrowseActive == {"ask", "tally"}

Browsing(w, br) == browse' = [browse EXCEPT ![w] = br]

\* The loop is at this address; a turn of it ends with the next.
Asked(w) == Head(browse[w].toAsk)
AtPeer(w) == browse[w].pc = "ask" /\ browse[w].toAsk # <<>>
AskedNode(w) == NodeAt(browse[w].peer, Asked(w))
Answers(w) == Serves(browse[w].peer, Asked(w))
NoAnswer(w) == CallFails(browse[w].peer, Asked(w))
Turned(br) == [br EXCEPT !.pc = "ask", !.toAsk = Tail(@), !.listed = {}]

\* The names in the file list of a node.
FileList(q) == {n \in FileName : sharedFiles[q][n] # None}
AddingNames(q) == {upload[u].name : u \in Adding(q)}

\* The known addresses, but its own, at which p is offered a file of the name n.
Offered(p, n) ==
    {a \in Range(registry[p]) \ {HTTPAddress(p)} : HasFile(p, a, n)}

-----------------------------------------------------------------------------
BrowseInit == SwarmInit /\ browse = [w \in BrowseRequest |-> IdleBrowse]

\* The registry is copied.
BrowseBegin(w, p) ==
    /\ browse[w].pc = "idle"
    /\ "http" \in listening[p]
    /\ Browsing(w, [IdleBrowse EXCEPT !.pc = "ask", !.peer = p, !.toAsk = registry[p],
                       !.offered = [n \in FileName |-> Offered(p, n)]])

\* Variant: the node asks itself as well.
NotSelf(w) == FALSE
IsSelf(w) == Asked(w) = HTTPAddress(browse[w].peer)

SkipSelf(w) == AtPeer(w) /\ IsSelf(w) /\ Browsing(w, Turned(browse[w]))

FetchFileList(w) ==
    /\ AtPeer(w)
    /\ ~IsSelf(w)
    /\ Answers(w)
    /\ Browsing(w, [browse[w] EXCEPT !.pc = "tally",
                                     !.listed = FileList(AskedNode(w))])

\* The handler walks through the map while an upload writes it: entries may be
\* missed.
FetchFileListRaces(w) ==
    /\ AtPeer(w)
    /\ ~IsSelf(w)
    /\ Answers(w)
    /\ Adding(AskedNode(w)) # {}
    /\ \E S \in SUBSET (FileList(AskedNode(w)) \cup AddingNames(AskedNode(w))) :
          Browsing(w, [browse[w] EXCEPT !.pc = "tally", !.listed = S,
                                        !.disturbed = TRUE])

\* Variants: the browse ends at the first peer that does not answer, or waits
\* for it.
FetchFileListBreaks(w) ==
    /\ AtPeer(w)
    /\ ~IsSelf(w)
    /\ NoAnswer(w)
    /\ Browsing(w, [browse[w] EXCEPT !.toAsk = <<>>])
FetchFileListWaits(w) ==
    /\ AtPeer(w)
    /\ Answers(w)
    /\ NoAnswer(w)
    /\ Browsing(w, [Turned(browse[w]) EXCEPT !.disturbed = TRUE])

\* No list arrives; the peer is left out.
FetchFileListFails(w) ==
    /\ AtPeer(w)
    /\ ~IsSelf(w)
    /\ NoAnswer(w)
    /\ Browsing(w, [Turned(browse[w]) EXCEPT !.disturbed = @ \/ Answers(w)])

\* FetchPeerInfo has returned a name or an error, which is only displayed, and
\* the list is counted.
Tally(w) ==
    /\ browse[w].pc = "tally"
    /\ LET br == browse[w] IN
       Browsing(w, [Turned(br) EXCEPT
          !.count = [n \in FileName |-> IF n \in br.listed THEN @[n] + 1 ELSE @[n]],
          !.first = [n \in FileName |-> IF n \in br.listed /\ @[n] = None
                                        THEN Asked(w) ELSE @[n]]])

BrowseEnd(w) ==
    /\ browse[w].pc = "ask"
    /\ browse[w].toAsk = <<>>
    /\ Browsing(w, [browse[w] EXCEPT !.pc = "done"])

BrowseStep(w) ==
    \/ SkipSelf(w)
    \/ FetchFileList(w) \/ FetchFileListRaces(w) \/ FetchFileListFails(w)
    \/ Tally(w) \/ BrowseEnd(w)

\* The requests of a node end with it; others notice that a peer is gone.
BrowseCrash(p) ==
    /\ CrashPeer(p)
    /\ browse' = [w \in BrowseRequest |->
                    IF browse[w].peer = p /\ browse[w].pc \in BrowseActive
                    THEN FailedBrowse
                    ELSE [browse[w] EXCEPT !.disturbed = TRUE]]

BrowseNext ==
    \/ Discovery /\ UNCHANGED <<fileVars, browse>>
    \/ FileStep /\ UNCHANGED <<registryVars, browse>>
    \/ \E p \in Peer : BrowseCrash(p)
    \/ \E w \in BrowseRequest :
          /\ BrowseStep(w) \/ \E p \in Peer : BrowseBegin(w, p)
          /\ UNCHANGED vars

BrowseSpec == BrowseInit /\ [][BrowseNext]_browseVars

\* A request that was accepted is carried on, and calls end (Swarm!Fairness).
BrowseFairness == \A w \in BrowseRequest : WF_browseVars(BrowseStep(w) /\ UNCHANGED vars)
-----------------------------------------------------------------------------
(***************************************************************************)
(* Properties.                                                             *)
(***************************************************************************)
\* The known addresses of other nodes lead to one node each.
Unaliased(p) ==
    \A a, b \in Range(registry[p]) \ {HTTPAddress(p)} :
        NodeAt(p, a) # p /\ (NodeAt(p, a) = NodeAt(p, b) => a = b)

OtherSharers(p, n) == {q \in Peer \ {p} : n \in FileList(q)}

\* The number shown for a file (distribute.go:65) is not more than the number of
\* known addresses at which one of that name is to be had, and the one the page
\* sends a download to is among them, although the lists are gathered one after
\* the other while files come and the registry grows.  It counts other nodes, no
\* more than there are, if the user listed each under one name and not this one.
AvailabilityIsReal ==
    \A w \in BrowseRequest, n \in FileName :
        LET br == browse[w] IN
        br.pc = "done" /\ ~br.disturbed =>
            /\ br.count[n] <= Cardinality(Offered(br.peer, n))
            /\ Unaliased(br.peer) =>
                  br.count[n] <= Cardinality(OtherSharers(br.peer, n))
            /\ br.first[n] # None => br.first[n] \in Offered(br.peer, n)

\* Every known address that offered a file when the browse began is counted, also
\* when others do not answer (distribute.go:53).
BrowseComplete ==
    \A w \in BrowseRequest, n \in FileName :
        browse[w].pc = "done" /\ ~browse[w].disturbed =>
            Cardinality(browse[w].offered[n]) <= browse[w].count[n]

\* A browse ends although it waits for every known peer in turn
\* (distribute.go:46).
BrowseEnds ==
    \A w \in BrowseRequest :
        (browse[w].pc \in BrowseActive) ~> (browse[w].pc \in {"done", "failed"})

\* A browse has begun, has a list to count, has one address less to ask, or has
\* ended.
BrowseAdvanced(br, new) ==
    \/ br.pc = "idle" /\ new.pc = "ask"
    \/ br.pc = "ask" /\ new.pc = "tally" /\ new.toAsk = br.toAsk
    \/ /\ br.pc \in BrowseActive /\ new.pc = "ask"
       /\ br.toAsk # <<>> /\ new.toAsk = Tail(br.toAsk)
    \/ br.pc \in BrowseActive /\ new.pc \in {"done", "failed"}

\* The loop of BrowseFilesHandler asks each address of its copy of the registry
\* once, whatever becomes of the peers; nothing makes it ask again.
BrowseAdvances ==
    [][\A w \in BrowseRequest :
          \/ browse'[w].pc = browse[w].pc /\ browse'[w].toAsk = browse[w].toAsk
          \/ BrowseAdvanced(browse[w], browse'[w])]_browseVars

-----------------------------------------------------------------------------
(***************************************************************************)
(* What the invariants rest on.                                            *)
(***************************************************************************)
BrowsePC == BrowseActive \cup {"idle", "done", "failed"}

BrowseRecord ==
    [pc : BrowsePC, peer : Maybe(Peer), toAsk : Seq(Address),
     listed : SUBSET FileName, count : [FileName -> Nat],
     first : [FileName -> Maybe(Address)], offered : [FileName -> SUBSET Address],
     disturbed : BOOLEAN]

BrowseTypeOK == browse \in [BrowseRequest -> BrowseRecord]

\* A browse under way asks each known address once, but its own.
BrowsePlaces ==
    \A w \in BrowseRequest :
        /\ browse[w].pc \in BrowseActive \cup {"done"} => browse[w].peer \in Peer
        /\ browse[w].pc \in BrowseActive =>
              Range(browse[w].toAsk) \subseteq Range(registry[browse[w].peer])
        /\ Distinct(browse[w].toAsk)
        /\ browse[w].pc = "tally" => browse[w].toAsk # <<>> /\ ~IsSelf(w)
        /\ browse[w].pc \in {"idle", "done", "failed"} => browse[w].toAsk = <<>>

\* The addresses a browse has still to ask or to count.
Left(w) == Range(browse[w].toAsk)

Heard(w) == browse[w].pc \in BrowseActive \cup {"done"} /\ ~browse[w].disturbed

\* The addresses where a file was offered at first, that were counted and where
\* it is now, leaving out those still to be asked, are in this order.
TallyBetween ==
    \A w \in BrowseRequest, n \in FileName : Heard(w) =>
        /\ Cardinality(browse[w].offered[n] \ Left(w)) <= browse[w].count[n]
        /\ browse[w].count[n] <= Cardinality(Offered(browse[w].peer, n) \ Left(w))

\* What a browse has heard stays true, and the list at hand is what the node
\* asked shares.
HeardIsShared ==
    \A w \in BrowseRequest, n \in FileName : Heard(w) =>
        /\ browse[w].offered[n] \subseteq Offered(browse[w].peer, n)
        /\ browse[w].first[n] # None =>
              browse[w].first[n] \in Offered(browse[w].peer, n)
        /\ browse[w].pc = "tally" =>
              /\ n \in browse[w].listed => Asked(w) \in Offered(browse[w].peer, n)
              /\ Asked(w) \in browse[w].offered[n] => n \in browse[w].listed

\* The inductive invariant of the proofs in ServiceProofs.
BrowseInv ==
    /\ SafetyInv
    /\ RegistryInv
    /\ BrowseTypeOK
    /\ BrowsePlaces
    /\ TallyBetween
    /\ HeardIsShared
=============================================================================
