--------------------------- MODULE ServiceProofs ----------------------------
(***************************************************************************)
(* What users of the swarm get, for any number of nodes, files, chunks and *)
(* requests and for every set of faults: proofs about Swarm that build on  *)
(* SafetyInv and on the invariant of the registry, and about Browse.       *)
(*                                                                         *)
(* Nothing a living process shares is lost (NothingUnshared); that is what *)
(* the other results rest on: the primary peer keeps the version it was    *)
(* asked for, and what a browse has heard stays true.  The sources of a    *)
(* download are distinct because registries list nobody twice, so that the *)
(* round robin over them is even.                                          *)
(***************************************************************************)
EXTENDS Browse, SwarmProofs

-----------------------------------------------------------------------------
(***************************************************************************)
(* The registry within the swarm.                                          *)
(***************************************************************************)

\* Files are shared without touching the registry, and a node that crashes
\* leaves the registries as Stop does.
LEMMA SwarmRegistryInv ==
    ASSUME RegistryInv, [Next]_vars
    PROVE  RegistryInv'
<1>1. CASE Discovery
  BY <1>1, DiscoveryInv
<1>2. CASE UNCHANGED registryVars
  BY <1>2 DEF registryVars, RegistryInv, RegistryTypeOK, NoDuplicatePeers, Distinct,
              KnownPeersAdmitted, UserSeesFlaggedPeers, BootingFromFlags,
              RegistrationsFromFlags
<1>3. ASSUME NEW p \in Peer, CrashPeer(p) PROVE RegistryInv'
  BY <1>3, StopInv DEF CrashPeer
<1> QED
  BY <1>1, <1>2, <1>3 DEF Next, vars

\* The registries keep their invariant while files are uploaded and downloaded,
\* and when a data race on the shared files ends a process.
THEOREM SwarmKeepsRegistry == Spec => []RegistryInv
<1>1. SwarmInit => RegistryInv
  BY RegistryInitInv DEF SwarmInit
<1> QED
  BY <1>1, SwarmRegistryInv, PTL DEF Spec

\* Discovery opens listeners and closes none (main.go, TCPListener.Start).
LEMMA ListenersOpen ==
    ASSUME RegistryTypeOK, Discovery \/ UNCHANGED registryVars
    PROVE  \A q \in Peer : listening[q] \subseteq listening'[q]
<1>1. listening \in [Peer -> SUBSET Transport]
  BY DEF RegistryTypeOK
<1>2. ASSUME NEW p \in Peer, Boot(p) \/ ListenTCP(p) \/ DiscoverPeer(p) \/ ListenHTTP(p)
      PROVE  \A q \in Peer : listening[q] \subseteq listening'[q]
  BY <1>1, <1>2 DEF Boot, ListenTCP, DiscoverPeer, ListenHTTP
<1>3. ASSUME NEW r \in registering, SettleRegistration(r)
      PROVE  listening' = listening
  BY <1>3 DEF SettleRegistration, RegisterPeer, RegisterFails
<1> QED
  BY <1>2, <1>3 DEF Discovery, registryVars

-----------------------------------------------------------------------------
(***************************************************************************)
(* Nothing a living process shares is lost.                                *)
(***************************************************************************)
\* Node p shares and stores at least what it did, each chunk unchanged.
Keeps(p) ==
    /\ \A n \in FileName : sharedFiles[p][n] # None => sharedFiles'[p][n] # None
    /\ \A g \in Digest : chunkData[p][g] # None
                         => chunkData'[p][g] = chunkData[p][g]

\* Storing a block under its own digest overwrites nothing but the same block:
\* no two blocks share a digest (upload.go:64-66, downloader.go:189-204).
LEMMA StoringKeepsChunks ==
    ASSUME SafetyInv, NEW p \in Peer, NEW b \in Block,
           chunkData' = [chunkData EXCEPT ![p][Sum256[b]] = b]
    PROVE  \A q \in Peer, g \in Digest :
               chunkData[q][g] # None => chunkData'[q][g] = chunkData[q][g]
<1>1. /\ chunkData \in [Peer -> [Digest -> Maybe(Block)]]
      /\ StoreIsContentAddressed
  BY DEF SafetyInv, TypeOK
<1>2. Sum256[b] \in Digest
  BY DigestAssumption
<1>3. chunkData[p][Sum256[b]] # None => chunkData[p][Sum256[b]] = b
  BY <1>1, <1>2, CollisionFree DEF StoreIsContentAddressed, Maybe
<1> QED
  BY <1>1, <1>2, <1>3

\* An entry of the map is only ever replaced by another: by metadata, or, when
\* the write races with others, by what a racing write leaves behind.
LEMMA SharingKeepsFiles ==
    ASSUME SafetyInv, NEW p \in Peer, NEW n \in FileName, NEW m \in Meta,
           NEW others \in SUBSET Meta, NEW x \in {m} \cup RacyWrites(p, n, m, others),
           sharedFiles' = [sharedFiles EXCEPT ![p][n] = x]
    PROVE  \A q \in Peer, k \in FileName :
               sharedFiles[q][k] # None => sharedFiles'[q][k] # None
<1>1. sharedFiles \in [Peer -> [FileName -> Maybe(Meta)]]
  BY DEF SafetyInv, TypeOK
<1>2. Current(p, n) \in Meta
  BY <1>1, CurrentType
<1>3. x \in Meta \/ x = sharedFiles[p][n]
  <2>1. \A o \in others \cup {Current(p, n)} : Mixed(o, m) \subseteq Meta
    BY <1>2, MixedType
  <2> QED
    BY <1>2, <2>1 DEF RacyWrites
<1> QED
  BY <1>1, <1>3, NoneAssumption

\* The steps of an upload keep what every node shares.
LEMMA UploadKeeps ==
    ASSUME SafetyInv, NEW u \in Upload,
           \/ \E p \in Peer, n \in FileName, c \in Content : UploadBegin(u, p, n, c)
           \/ UploadStep(u)
    PROVE  \A q \in Peer : Keeps(q)
<1> DEFINE up == upload[u]
<1>1. /\ \A v \in Upload : upload[v] \in UploadRecord
      /\ \A v \in Upload : MetaOf(upload[v].content) \in Meta
      /\ \A d \in Download : download[d].meta \in Meta
  <2>1. \A v \in Upload : upload[v] \in UploadRecord /\ upload[v].content \in Seq(Block)
    BY DEF SafetyInv, TypeOK, UploadRecord
  <2>2. \A d \in Download : download[d].meta \in Meta
    BY DEF SafetyInv, TypeOK, DownloadRecord
  <2> QED
    BY <2>1, <2>2, MetaOfType
<1>2. CASE \E p \in Peer, n \in FileName, c \in Content : UploadBegin(u, p, n, c)
  BY <1>2 DEF UploadBegin, Keeps
<1>3. CASE UploadStore(u)
  <2>1. /\ up.peer \in Peer /\ up.content \in Seq(Block)
        /\ up.next \in DOMAIN up.content
    BY <1>1, <1>3 DEF UploadStore, SafetyInv, UploadsTyped, UploadRecord
  <2>2. up.content[up.next] \in Block
    BY <2>1
  <2>3. chunkData' = [chunkData EXCEPT ![up.peer][Sum256[up.content[up.next]]] =
                          up.content[up.next]]
    BY <1>3 DEF UploadStore
  <2>4. \A q \in Peer, g \in Digest :
            chunkData[q][g] # None => chunkData'[q][g] = chunkData[q][g]
    BY <2>1, <2>2, <2>3, StoringKeepsChunks
  <2> QED
    BY <1>3, <2>4 DEF UploadStore, Keeps
<1>4. CASE UploadAdd(u) \/ UploadAddRaces(u)
  <2>1. up.peer \in Peer /\ up.name \in FileName
    BY <1>4 DEF UploadAdd, UploadAddRaces, SafetyInv, UploadsTyped
  <2>2. \E others \in SUBSET Meta :
            \E x \in {MetaOf(up.content)}
                        \cup RacyWrites(up.peer, up.name, MetaOf(up.content), others) :
                sharedFiles' = [sharedFiles EXCEPT ![up.peer][up.name] = x]
    <3>1. CASE UploadAdd(u)
      BY <3>1 DEF UploadAdd
    <3>2. CASE UploadAddRaces(u)
      <4> DEFINE uploads == {v \in Adding(up.peer) \ {u} : upload[v].name = up.name}
                 downloads == {d \in Registering(up.peer) : download[d].name = up.name}
                 others == {MetaOf(upload[v].content) : v \in uploads}
                              \cup {download[d].meta : d \in downloads}
      <4>1. others \in SUBSET Meta
        BY <1>1 DEF Adding, Registering
      <4>2. \E x \in RacyWrites(up.peer, up.name, MetaOf(up.content), others) :
                sharedFiles' = [sharedFiles EXCEPT ![up.peer][up.name] = x]
        BY <3>2 DEF UploadAddRaces
      <4> QED
        BY <4>1, <4>2
    <3> QED
      BY <1>4, <3>1, <3>2
  <2>3. \A q \in Peer, k \in FileName :
            sharedFiles[q][k] # None => sharedFiles'[q][k] # None
    BY <1>1, <2>1, <2>2, SharingKeepsFiles
  <2> QED
    BY <1>4, <2>3 DEF UploadAdd, UploadAddRaces, Keeps
<1> QED
  BY <1>2, <1>3, <1>4 DEF UploadStep

\* So do the steps of a download.
LEMMA DownloadKeeps ==
    ASSUME SafetyInv, NEW d \in Download,
           \/ \E p \in Peer, n \in FileName, a \in Address : DownloadBegin(d, p, n, a)
           \/ DownloadStep(d)
    PROVE  \A q \in Peer : Keeps(q)
<1> DEFINE dl == download[d]
<1>1. TypesInv /\ LegalDownload(dl) /\ dl.meta \in Meta
  BY SafetyInvSplit, DownloadIsLegal DEF LegalDownload, DownloadRecord
<1>2. ASSUME UNCHANGED <<sharedFiles, chunkData>> PROVE \A q \in Peer : Keeps(q)
  BY <1>2 DEF Keeps
<1>3. CASE \E p \in Peer, n \in FileName, a \in Address : DownloadBegin(d, p, n, a)
  BY <1>2, <1>3 DEF DownloadBegin
<1>4. CASE \/ FetchMeta(d) \/ FetchMetaRaces(d) \/ FetchMetaFails(d)
           \/ FindPeers(d) \/ ProbePeer(d) \/ LaunchChunks(d) \/ CollectResults(d)
           \/ SaveOpen(d) \/ SaveWrite(d) \/ SaveFails(d)
  BY <1>2, <1>4 DEF FetchMeta, FetchMetaRaces, FetchMetaFails, FindPeers, ProbePeer,
                    LaunchChunks, CollectResults, SaveOpen, SaveWrite, SaveFails
<1>5. ASSUME NEW i \in dl.pending, FetchChunk(d, i) \/ FetchChunkFails(d, i)
      PROVE  \A q \in Peer : Keeps(q)
  BY <1>2, <1>5 DEF FetchChunk, FetchChunkFails
<1>6. ASSUME NEW r \in dl.replies, DownloadChunk(d, r)
      PROVE  \A q \in Peer : Keeps(q)
  <2> DEFINE g == dl.meta.chunks[r.index]
  <2>1. dl.peer \in Peer /\ r.data \in Block
    BY <1>1, FetchingLegal DEF LegalDownload, DownloadRecord, ChunkReply
  <2>2. CASE Sum256[r.data] = g
    <3>1. chunkData' = [chunkData EXCEPT ![dl.peer][Sum256[r.data]] = r.data]
      BY <1>6, <2>2 DEF DownloadChunk, Verified
    <3>2. \A q \in Peer, h \in Digest :
              chunkData[q][h] # None => chunkData'[q][h] = chunkData[q][h]
      BY <2>1, <3>1, StoringKeepsChunks
    <3> QED
      BY <1>6, <3>2 DEF DownloadChunk, Keeps
  <2>3. CASE Sum256[r.data] # g
    BY <1>2, <1>6, <2>3 DEF DownloadChunk, Verified
  <2> QED
    BY <2>2, <2>3
<1>7. CASE RegisterDownload(d) \/ RegisterDownloadRaces(d)
  <2>1. dl.peer \in Peer /\ dl.name \in FileName
    BY <1>1, <1>7 DEF RegisterDownload, RegisterDownloadRaces, LegalDownload,
                      DownloadTyped, Active, DownloadPC
  <2>2. \E others \in SUBSET Meta :
            \E x \in {dl.meta} \cup RacyWrites(dl.peer, dl.name, dl.meta, others) :
                sharedFiles' = [sharedFiles EXCEPT ![dl.peer][dl.name] = x]
    <3>1. CASE RegisterDownload(d)
      BY <3>1 DEF RegisterDownload
    <3>2. CASE RegisterDownloadRaces(d)
      <4> DEFINE uploads == {u \in Adding(dl.peer) : upload[u].name = dl.name}
                 others == {MetaOf(upload[u].content) : u \in uploads}
      <4>1. others \in SUBSET Meta
        <5>1. \A u \in Upload : upload[u].content \in Seq(Block)
          BY DEF SafetyInv, TypeOK, UploadRecord
        <5> QED
          BY <5>1, MetaOfType DEF Adding
      <4>2. \E x \in RacyWrites(dl.peer, dl.name, dl.meta, others) :
                sharedFiles' = [sharedFiles EXCEPT ![dl.peer][dl.name] = x]
        BY <3>2 DEF RegisterDownloadRaces
      <4> QED
        BY <4>1, <4>2
    <3> QED
      BY <1>7, <3>1, <3>2
  <2>3. \A q \in Peer, k \in FileName :
            sharedFiles[q][k] # None => sharedFiles'[q][k] # None
    BY <1>1, <2>1, <2>2, SharingKeepsFiles
  <2> QED
    BY <1>7, <2>3 DEF RegisterDownload, RegisterDownloadRaces, Keeps
<1> QED
  BY <1>3, <1>4, <1>5, <1>6, <1>7 DEF DownloadStep

\* Uploads and downloads keep what every node shares.
LEMMA FileStepKeeps ==
    ASSUME SafetyInv, FileStep
    PROVE  \A q \in Peer : Keeps(q)
BY UploadKeeps, DownloadKeeps DEF FileStep

\* In any step, so does every node whose process is up after it.
LEMMA NextKeeps ==
    ASSUME SafetyInv, [Next]_vars, NEW q \in Peer, q \in running'
    PROVE  Keeps(q)
<1>1. CASE UNCHANGED fileVars
  BY <1>1 DEF fileVars, Keeps
<1>2. CASE FileStep
  BY <1>2, FileStepKeeps
<1>3. ASSUME NEW p \in Peer, CrashPeer(p) PROVE Keeps(q)
  <2>1. q # p
    BY <1>3 DEF CrashPeer, Stop
  <2>2. sharedFiles'[q] = sharedFiles[q] /\ chunkData'[q] = chunkData[q]
    BY <1>3, <2>1 DEF CrashPeer, SafetyInv, TypeOK
  <2> QED
    BY <2>2 DEF Keeps
<1> QED
  BY <1>1, <1>2, <1>3 DEF Next, vars

\* No upload, download or race makes a living process forget a file or a chunk,
\* or store another block for it.
THEOREM NothingUnshared == Spec => NothingIsUnshared
<1>1. ASSUME SafetyInv, [Next]_vars
      PROVE  \A p \in Peer : p \in running' =>
                /\ \A n \in FileName : sharedFiles[p][n] # None
                                       => sharedFiles'[p][n] # None
                /\ \A g \in Digest : chunkData[p][g] # None
                                     => chunkData'[p][g] = chunkData[p][g]
  BY <1>1, NextKeeps DEF Keeps
<1> QED
  BY <1>1, SafetyInvHolds, PTL DEF Spec, NothingIsUnshared

-----------------------------------------------------------------------------
(***************************************************************************)
(* The sources of a download.                                              *)
(***************************************************************************)
\* What is in a registry was listable there (main.go, RegisterPeerHandler).
LEMMA KnownAreListable ==
    ASSUME RegistryInv, NEW p \in Peer
    PROVE  Range(registry[p]) \subseteq Listable(p)
BY DEF RegistryInv, KnownPeersAdmitted, Listable

\* SourcesDistinct for one download.
DistinctSources(dl) ==
    LET probed == {dl.avail[k] : k \in DOMAIN dl.avail \ {1}}
    IN  /\ dl.avail # <<>> => dl.peer \in Peer
        /\ Distinct(dl.avail)
        /\ \A a \in probed :
              /\ a \in Listable(dl.peer) /\ a \notin {HTTPAddress(dl.peer), dl.primary}
              /\ Reaches[dl.peer][a].transport = Mode[dl.peer]
        /\ dl.pc \in {"probe", "fetch"} => dl.avail[1] = dl.primary
        /\ dl.pc = "probe" =>
              /\ Distinct(dl.toProbe)
              /\ Range(dl.toProbe) \subseteq Listable(dl.peer) \ probed

\* The invariant is that every download has distinct sources.
LEMMA SourcesOfEach ==
    SourcesDistinct <=> \A d \in Download : DistinctSources(download[d])
BY DEF SourcesDistinct, DistinctSources, Skipped

\* A download that has no metadata to work from.
Rests(dl) == dl.avail = <<>> /\ dl.pc \notin {"peers", "probe", "fetch"}

SameSources(dl, new) ==
    /\ new.peer = dl.peer /\ new.primary = dl.primary
    /\ new.avail = dl.avail /\ new.toProbe = dl.toProbe

SameVersion(dl, new) ==
    /\ new.peer = dl.peer /\ new.name = dl.name /\ new.primary = dl.primary
    /\ new.epoch = dl.epoch /\ new.meta = dl.meta

\* Where a download goes without looking for sources.
Onward(pc, newPc) ==
    \/ newPc = pc
    \/ pc = "probe" /\ newPc = "fetch"
    \/ newPc \in {"register", "open", "write"}

\* A download ends, obtains metadata, looks for sources, or goes on with the
\* sources and the version it has (Downloader.Download and DownloadHandler).
LEMMA DownloadMoves ==
    ASSUME TypesInv, NEW d \in Download,
           \/ \E p \in Peer, n \in FileName, a \in Address : DownloadBegin(d, p, n, a)
           \/ DownloadStep(d)
    PROVE  \E new : /\ Becomes(d, new)
                    /\ \/ Rests(new)
                       \/ /\ FetchMeta(d) \/ FetchMetaRaces(d)
                          /\ new.pc = "peers" /\ SameSources(download[d], new)
                       \/ FindPeers(d) /\ SameVersion(download[d], new)
                       \/ ProbePeer(d) /\ SameVersion(download[d], new)
                       \/ /\ SameSources(download[d], new)
                          /\ SameVersion(download[d], new)
                          /\ Onward(download[d].pc, new.pc)
<1> DEFINE dl == download[d]
           Goal == \E new : /\ Becomes(d, new)
                            /\ \/ Rests(new)
                               \/ /\ FetchMeta(d) \/ FetchMetaRaces(d)
                                  /\ new.pc = "peers" /\ SameSources(dl, new)
                               \/ FindPeers(d) /\ SameVersion(dl, new)
                               \/ ProbePeer(d) /\ SameVersion(dl, new)
                               \/ /\ SameSources(dl, new) /\ SameVersion(dl, new)
                                  /\ Onward(dl.pc, new.pc)
<1> SUFFICES Goal
  OBVIOUS
<1>1. dl \in DownloadRecord
  BY DEF TypesInv, TypeOK
<1>2. ASSUME Fail(d) PROVE Goal
  <2>1. Becomes(d, Failed) /\ Rests(Failed)
    BY <1>2 DEF Fail, Failed, IdleDownload, Rests
  <2> QED
    BY <2>1
<1>3. ASSUME NEW m, MetaArrives(d, m), FetchMeta(d) \/ FetchMetaRaces(d) PROVE Goal
  <2> DEFINE new == [dl EXCEPT !.pc = "peers", !.meta = m,
                               !.epoch = incarnation]
  <2>1. new.pc = "peers" /\ SameSources(dl, new)
    BY <1>1 DEF SameSources, DownloadRecord
  <2>2. Fail(d) \/ Becomes(d, new)
    BY <1>3 DEF MetaArrives
  <2> HIDE DEF new
  <2> QED
    BY <1>2, <1>3, <2>1, <2>2
<1>4. ASSUME NEW new, Becomes(d, new), SameSources(dl, new), SameVersion(dl, new),
             Onward(dl.pc, new.pc)
      PROVE  Goal
  BY <1>4
<1>5. CASE \E p \in Peer, n \in FileName, a \in Address : DownloadBegin(d, p, n, a)
  <2>1. PICK p \in Peer, n \in FileName, a \in Address : DownloadBegin(d, p, n, a)
    BY <1>5
  <2> DEFINE new == [IdleDownload EXCEPT !.pc = "meta", !.peer = p,
                                         !.name = n, !.primary = a]
  <2>2. Becomes(d, new) /\ Rests(new)
    BY <2>1 DEF DownloadBegin, IdleDownload, Rests
  <2> QED
    BY <2>2
<1>6. CASE FetchMeta(d)
  BY <1>3, <1>6 DEF FetchMeta
<1>7. CASE FetchMetaRaces(d)
  BY <1>2, <1>3, <1>7 DEF FetchMetaRaces
<1>8. CASE FetchMetaFails(d)
  BY <1>2, <1>8 DEF FetchMetaFails
<1>9. CASE FindPeers(d)
  <2> DEFINE new == [dl EXCEPT !.pc = "probe", !.avail = <<dl.primary>>,
                               !.toProbe = registry[dl.peer]]
  <2>1. Becomes(d, new) /\ SameVersion(dl, new)
    BY <1>1, <1>9 DEF FindPeers, SameVersion, DownloadRecord
  <2> HIDE DEF new
  <2> QED
    BY <1>9, <2>1
<1>10. CASE ProbePeer(d)
  <2> DEFINE a == Head(dl.toProbe)
             added == [dl EXCEPT !.toProbe = Tail(@), !.avail = Append(@, a)]
             skipped == [dl EXCEPT !.toProbe = Tail(@)]
  <2>1. SameVersion(dl, added) /\ SameVersion(dl, skipped)
    BY <1>1 DEF SameVersion, DownloadRecord
  <2>2. Becomes(d, added) \/ Becomes(d, skipped)
    BY <1>10 DEF ProbePeer
  <2> HIDE DEF added, skipped
  <2> QED
    BY <1>10, <2>1, <2>2
<1>11. CASE LaunchChunks(d)
  <2> DEFINE new == [dl EXCEPT !.pc = "fetch", !.pending = DOMAIN dl.meta.chunks]
  <2>1. Becomes(d, new) /\ dl.pc = "probe"
    BY <1>11 DEF LaunchChunks
  <2>2. SameSources(dl, new) /\ SameVersion(dl, new) /\ new.pc = "fetch"
    BY <1>1 DEF SameSources, SameVersion, DownloadRecord
  <2> HIDE DEF new
  <2> QED
    BY <1>4, <2>1, <2>2 DEF Onward
<1>12. ASSUME NEW i \in dl.pending, FetchChunk(d, i) \/ FetchChunkFails(d, i)
       PROVE  Goal
  <2>1. ASSUME NEW pending, NEW replies, NEW results,
               Becomes(d, [dl EXCEPT !.pending = pending, !.replies = replies,
                                     !.results = results])
        PROVE  Goal
    <3> DEFINE new == [dl EXCEPT !.pending = pending, !.replies = replies,
                                 !.results = results]
    <3>1. SameSources(dl, new) /\ SameVersion(dl, new) /\ new.pc = dl.pc
      BY <1>1 DEF SameSources, SameVersion, DownloadRecord
    <3> HIDE DEF new
    <3> QED
      BY <1>4, <2>1, <3>1 DEF Onward, new
  <2>2. CASE FetchChunk(d, i)
    <3>1. PICK r : Becomes(d, [dl EXCEPT !.pending = @ \ {i},
                                         !.replies = @ \cup {[index |-> i, data |-> r]}])
      BY <2>2 DEF FetchChunk
    <3>2. [dl EXCEPT !.pending = @ \ {i},
                     !.replies = @ \cup {[index |-> i, data |-> r]}]
          = [dl EXCEPT !.pending = dl.pending \ {i},
                       !.replies = dl.replies \cup {[index |-> i, data |-> r]},
                       !.results = dl.results]
      BY <1>1 DEF DownloadRecord
    <3> QED
      BY <2>1, <3>1, <3>2
  <2>3. CASE FetchChunkFails(d, i)
    <3>1. Becomes(d, [dl EXCEPT !.pending = @ \ {i}, !.results = Sent(@, i, None)])
      BY <2>3 DEF FetchChunkFails
    <3>2. [dl EXCEPT !.pending = @ \ {i}, !.results = Sent(@, i, None)]
          = [dl EXCEPT !.pending = dl.pending \ {i}, !.replies = dl.replies,
                       !.results = Sent(dl.results, i, None)]
      BY <1>1 DEF DownloadRecord
    <3> QED
      BY <2>1, <3>1, <3>2
  <2> QED
    BY <1>12, <2>2, <2>3
<1>13. ASSUME NEW r \in dl.replies, DownloadChunk(d, r)
       PROVE  Goal
  <2> DEFINE good == Verified(r.data, dl.meta.chunks[r.index])
             sent == Sent(dl.results, r.index, IF good THEN r.data ELSE None)
             new == [dl EXCEPT !.replies = @ \ {r}, !.results = sent]
  <2>1. Becomes(d, new)
    BY <1>13 DEF DownloadChunk
  <2>2. SameSources(dl, new) /\ SameVersion(dl, new) /\ new.pc = dl.pc
    BY <1>1 DEF SameSources, SameVersion, DownloadRecord
  <2> HIDE DEF new
  <2> QED
    BY <1>4, <2>1, <2>2 DEF Onward
<1>14. ASSUME NEW pc \in {"register", "open", "write"}, NEW data,
              Becomes(d, [dl EXCEPT !.pc = pc, !.data = data])
       PROVE  Goal
  <2> DEFINE new == [dl EXCEPT !.pc = pc, !.data = data]
  <2>1. SameSources(dl, new) /\ SameVersion(dl, new) /\ new.pc = pc
    BY <1>1 DEF SameSources, SameVersion, DownloadRecord
  <2> HIDE DEF new
  <2> QED
    BY <1>4, <1>14, <2>1 DEF Onward, new
<1>15. CASE CollectResults(d)
  BY <1>2, <1>14, <1>15 DEF CollectResults
<1>16. CASE RegisterDownload(d) \/ RegisterDownloadRaces(d)
  <2>1. Becomes(d, [dl EXCEPT !.pc = "open"])
    BY <1>16 DEF RegisterDownload, RegisterDownloadRaces
  <2>2. [dl EXCEPT !.pc = "open"] = [dl EXCEPT !.pc = "open", !.data = dl.data]
    BY <1>1 DEF DownloadRecord
  <2> QED
    BY <1>14, <2>1, <2>2
<1>17. CASE SaveOpen(d)
  <2>1. Becomes(d, [dl EXCEPT !.pc = "write"])
    BY <1>17 DEF SaveOpen
  <2>2. [dl EXCEPT !.pc = "write"] = [dl EXCEPT !.pc = "write", !.data = dl.data]
    BY <1>1 DEF DownloadRecord
  <2> QED
    BY <1>14, <2>1, <2>2
<1>18. CASE SaveWrite(d)
  <2>1. Becomes(d, Succeeded(dl)) /\ Rests(Succeeded(dl))
    BY <1>18 DEF SaveWrite, Succeeded, IdleDownload, Rests
  <2> QED
    BY <2>1
<1>19. CASE SaveFails(d)
  BY <1>2, <1>19 DEF SaveFails
<1> HIDE DEF Goal, dl
<1>20. CASE DownloadStep(d)
  BY <1>6, <1>7, <1>8, <1>9, <1>10, <1>11, <1>12, <1>13, <1>15, <1>16, <1>17,
     <1>18, <1>19, <1>20 DEF DownloadStep, dl
<1> QED
  BY <1>5, <1>20

\* A download that goes on with the sources it has still has distinct ones.
LEMMA SourcesStayDistinct ==
    ASSUME NEW dl, NEW new, DistinctSources(dl), SameSources(dl, new),
           Onward(dl.pc, new.pc) \/ new.pc = "peers"
    PROVE  DistinctSources(new)
BY DEF DistinctSources, SameSources, Onward

\* What the loop of findPeersWithFile has left after a turn.
LEMMA DistinctTail ==
    ASSUME NEW s \in Seq(Address), s # <<>>, Distinct(s)
    PROVE  /\ Distinct(Tail(s)) /\ Range(Tail(s)) \subseteq Range(s)
           /\ Head(s) \in Range(s) /\ Head(s) \notin Range(Tail(s))
<1>1. /\ DOMAIN s = 1 .. Len(s) /\ Len(s) \in Nat \ {0} /\ Head(s) = s[1]
      /\ DOMAIN Tail(s) = 1 .. Len(s) - 1
      /\ \A i \in 1 .. Len(s) - 1 : Tail(s)[i] = s[i + 1]
  OBVIOUS
<1>2. Distinct(Tail(s))
  BY <1>1 DEF Distinct
<1>3. Head(s) \notin Range(Tail(s))
  BY <1>1 DEF Distinct, Range
<1> QED
  BY <1>2, <1>3, RangeOfList

\* A probe adds the peer it asked at most once, and never the primary peer or
\* the address passed over (downloader.go:58-71).
LEMMA ProbeKeepsDistinct ==
    ASSUME TypesInv, NEW d \in Download, DistinctSources(download[d]), ProbePeer(d)
    PROVE  DistinctSources(download'[d])
<1> DEFINE dl == download[d]
           a == Head(dl.toProbe)
           rest == Tail(dl.toProbe)
           skipped == [dl EXCEPT !.toProbe = rest]
           added == [dl EXCEPT !.toProbe = rest, !.avail = Append(@, a)]
<1>1. /\ dl \in DownloadRecord /\ dl.pc = "probe" /\ dl.toProbe # <<>>
      /\ dl.toProbe \in Seq(Address) /\ dl.avail \in Seq(Address) /\ dl.avail # <<>>
  BY DownloadIsLegal DEF ProbePeer, LegalDownload, DownloadTyped, DownloadRecord
<1>2. Distinct(dl.toProbe)
  BY <1>1 DEF DistinctSources
<1>3. /\ Distinct(rest) /\ Range(rest) \subseteq Range(dl.toProbe)
      /\ a \in Range(dl.toProbe) /\ a \notin Range(rest) /\ a \in Address
  BY <1>1, <1>2, DistinctTail
<1>4. \/ download' = [download EXCEPT ![d] = skipped]
      \/ /\ download' = [download EXCEPT ![d] = added]
         /\ a \notin Skipped(d) /\ Serves(dl.peer, a)
  BY DEF ProbePeer, Becomes, HasFile
<1>5. \/ download'[d] = skipped
      \/ download'[d] = added /\ a \notin Skipped(d) /\ Serves(dl.peer, a)
  BY <1>4 DEF TypesInv, TypeOK
<1>6. /\ skipped.pc = "probe" /\ skipped.peer = dl.peer /\ skipped.primary = dl.primary
      /\ skipped.avail = dl.avail /\ skipped.toProbe = rest
      /\ added.pc = "probe" /\ added.peer = dl.peer /\ added.primary = dl.primary
      /\ added.avail = Append(dl.avail, a) /\ added.toProbe = rest
  BY <1>1 DEF DownloadRecord
<1> DEFINE probed == {dl.avail[k] : k \in DOMAIN dl.avail \ {1}}
<1>7. /\ Distinct(dl.avail) /\ dl.avail[1] = dl.primary /\ dl.peer \in Peer
      /\ \A b \in probed :
            /\ b \in Listable(dl.peer) /\ b \notin {HTTPAddress(dl.peer), dl.primary}
            /\ Reaches[dl.peer][b].transport = Mode[dl.peer]
      /\ Range(dl.toProbe) \subseteq Listable(dl.peer) \ probed
  BY <1>1 DEF DistinctSources
<1> HIDE DEF dl, a, rest, skipped, added
<1>8. DistinctSources(skipped)
  BY <1>3, <1>6, <1>7 DEF DistinctSources
<1>9. ASSUME a \notin Skipped(d), Serves(dl.peer, a)
      PROVE  DistinctSources(added)
  <2>1. /\ DOMAIN dl.avail = 1 .. Len(dl.avail) /\ Len(dl.avail) \in Nat \ {0}
        /\ DOMAIN added.avail = 1 .. Len(dl.avail) + 1
        /\ \A k \in 1 .. Len(dl.avail) : added.avail[k] = dl.avail[k]
        /\ added.avail[Len(dl.avail) + 1] = a
    BY <1>1, <1>3, <1>6
  <2>2. /\ a \notin {HTTPAddress(dl.peer), dl.primary} /\ a \in Listable(dl.peer)
        /\ Reaches[dl.peer][a].transport = Mode[dl.peer] /\ a \notin probed
    BY <1>3, <1>7, <1>9 DEF Skipped, Serves, dl
  <2>3. \A k \in DOMAIN dl.avail : dl.avail[k] # a
    BY <1>7, <2>2
  <2>4. Distinct(added.avail)
    BY <1>7, <2>1, <2>3 DEF Distinct
  <2>5. {added.avail[k] : k \in DOMAIN added.avail \ {1}} = probed \cup {a}
    BY <2>1
  <2>6. added.avail[1] = dl.primary
    BY <1>7, <2>1
  <2>7. Range(rest) \subseteq Listable(dl.peer) \ (probed \cup {a})
    BY <1>3, <1>7
  <2> HIDE DEF probed
  <2> QED
    BY <1>3, <1>6, <1>7, <2>2, <2>4, <2>5, <2>6, <2>7 DEF DistinctSources
<1> QED
  BY <1>5, <1>8, <1>9

\* A step leaves a download alone, ends it with its process, or is a step of that
\* download, which touches no registry.
LEMMA StepOfDownload ==
    ASSUME SafetyInv, [Next]_vars, NEW d \in Download
    PROVE  \/ download'[d] = download[d]
           \/ Rests(download'[d]) /\ download[d].peer \notin running'
           \/ /\ UNCHANGED registryVars
              /\ \/ \E p \in Peer, n \in FileName, a \in Address : DownloadBegin(d, p, n, a)
                 \/ DownloadStep(d)
<1>1. ASSUME NEW p \in Peer, CrashPeer(p)
      PROVE  \/ download'[d] = download[d]
             \/ Rests(download'[d]) /\ download[d].peer \notin running'
  BY <1>1 DEF CrashPeer, Stop, Rests, Failed, IdleDownload
<1>2. ASSUME NEW e \in Download, e # d,
             \/ \E p \in Peer, n \in FileName, a \in Address : DownloadBegin(e, p, n, a)
             \/ DownloadStep(e)
      PROVE  download'[d] = download[d]
  <2>1. \E new : Becomes(e, new)
    BY <1>2, SafetyInvSplit, DownloadMoves
  <2> QED
    BY <1>2, <2>1 DEF Becomes, SafetyInv, TypeOK
<1>3. ASSUME NEW u \in Upload,
             \/ \E p \in Peer, n \in FileName, c \in Content : UploadBegin(u, p, n, c)
             \/ UploadStep(u)
      PROVE  download'[d] = download[d]
  BY <1>3 DEF UploadBegin, UploadStep, UploadStore, UploadAdd, UploadAddRaces
<1>4. CASE UNCHANGED fileVars
  BY <1>4 DEF fileVars
<1>5. CASE FileStep /\ UNCHANGED registryVars
  BY <1>2, <1>3, <1>5 DEF FileStep
<1> QED
  BY <1>1, <1>4, <1>5 DEF Next, vars

\* Each step leaves every download with distinct sources: the registry a
\* download copies lists nobody twice.
LEMMA SourcesStep ==
    ASSUME SafetyInv, RegistryInv, SourcesDistinct, [Next]_vars
    PROVE  SourcesDistinct'
<1> SUFFICES (\A d \in Download : DistinctSources(download[d]))'
  BY SourcesOfEach, PTL
<1> SUFFICES ASSUME NEW d \in Download PROVE DistinctSources(download'[d])
  OBVIOUS
<1> DEFINE dl == download[d]
<1>1. TypesInv /\ DistinctSources(dl)
  BY SafetyInvSplit, SourcesOfEach
<1>2. CASE download'[d] = dl
  BY <1>1, <1>2 DEF DistinctSources
<1>3. ASSUME Rests(download'[d]) PROVE DistinctSources(download'[d])
  BY <1>3 DEF Rests, DistinctSources, Distinct
<1>4. ASSUME \/ \E p \in Peer, n \in FileName, a \in Address : DownloadBegin(d, p, n, a)
             \/ DownloadStep(d)
      PROVE  DistinctSources(download'[d])
  <2>1. PICK new : /\ Becomes(d, new)
                   /\ \/ Rests(new)
                      \/ new.pc = "peers" /\ SameSources(dl, new)
                      \/ FindPeers(d)
                      \/ ProbePeer(d)
                      \/ SameSources(dl, new) /\ Onward(dl.pc, new.pc)
    BY <1>1, <1>4, DownloadMoves
  <2>2. download'[d] = new
    BY <2>1 DEF Becomes, SafetyInv, TypeOK
  <2>3. CASE FindPeers(d)
    <3>1. /\ dl \in DownloadRecord /\ dl.peer \in Peer
          /\ download'[d] = [dl EXCEPT !.pc = "probe", !.avail = <<dl.primary>>,
                                       !.toProbe = registry[dl.peer]]
      BY <1>1, <2>3, DownloadIsLegal
         DEF FindPeers, Becomes, SafetyInv, TypeOK, LegalDownload, DownloadTyped,
             Active, DownloadPC
    <3>2. Distinct(registry[dl.peer])
      BY <3>1 DEF RegistryInv, NoDuplicatePeers
    <3>3. /\ download'[d].pc = "probe" /\ download'[d].avail = <<dl.primary>>
          /\ download'[d].toProbe = registry[dl.peer] /\ download'[d].primary = dl.primary
      BY <3>1 DEF DownloadRecord
    <3>4. DOMAIN <<dl.primary>> = {1} /\ <<dl.primary>>[1] = dl.primary
      OBVIOUS
    <3>5. /\ download'[d].peer = dl.peer
          /\ Range(registry[dl.peer]) \subseteq Listable(dl.peer)
      BY <3>1, KnownAreListable DEF DownloadRecord
    <3>6. \A dd : /\ dd.pc = "probe" /\ dd.avail = <<dl.primary>> /\ dd.peer = dl.peer
                  /\ dd.toProbe = registry[dl.peer] /\ dd.primary = dl.primary
                  => DistinctSources(dd)
      BY <3>1, <3>2, <3>4, <3>5 DEF DistinctSources, Distinct
    <3> QED
      BY <3>3, <3>5, <3>6
  <2>4. CASE ProbePeer(d)
    BY <1>1, <2>4, ProbeKeepsDistinct
  <2> QED
    BY <1>1, <1>3, <2>1, <2>2, <2>3, <2>4, SourcesStayDistinct
<1> QED
  BY <1>2, <1>3, <1>4, StepOfDownload

-----------------------------------------------------------------------------
(***************************************************************************)
(* The version a download works from.                                      *)
(***************************************************************************)
\* EpochsPast and PrimaryKeepsVersion for one download.
EpochPast(d) ==
    download[d].pc \in {"peers", "probe", "fetch"} =>
        \A q \in Peer : download[d].epoch[q] <= incarnation[q]

VersionKept(d) ==
    LET q == Source(d, download[d].primary) IN
    (/\ ~raced
     /\ download[d].pc \in {"peers", "probe", "fetch"}
     /\ q \in running
     /\ incarnation[q] = download[d].epoch[q])
    => \A g \in Range(download[d].meta.chunks) : chunkData[q][g] # None

\* A process that is up after a step was up before it, or was started by it and
\* has a new incarnation.
LEMMA ProcessesOfStep ==
    ASSUME RegistryTypeOK, [Next]_vars, NEW q \in Peer
    PROVE  /\ incarnation[q] \in Nat /\ incarnation'[q] \in Nat
           /\ incarnation[q] <= incarnation'[q]
           /\ q \in running' => q \in running \/ incarnation'[q] > incarnation[q]
<1>1. incarnation \in [Peer -> 0 .. MaxIncarnation]
  BY DEF RegistryTypeOK
<1>2. incarnation[q] \in Nat
  BY <1>1, MaxIncarnationAssumption
<1>3. ASSUME NEW p \in Peer, Boot(p)
      PROVE  /\ running' = running \cup {p}
             /\ incarnation'[q] = IF q = p THEN incarnation[q] + 1 ELSE incarnation[q]
  BY <1>1, <1>3 DEF Boot
<1>4. ASSUME NEW p \in Peer, ListenTCP(p) \/ DiscoverPeer(p) \/ ListenHTTP(p)
      PROVE  UNCHANGED <<running, incarnation>>
  BY <1>4 DEF ListenTCP, DiscoverPeer, ListenHTTP
<1>5. ASSUME NEW r \in registering, SettleRegistration(r)
      PROVE  UNCHANGED <<running, incarnation>>
  BY <1>5 DEF SettleRegistration, RegisterPeer, RegisterFails
<1>6. ASSUME NEW p \in Peer, CrashPeer(p)
      PROVE  running' = running \ {p} /\ UNCHANGED incarnation
  BY <1>6 DEF CrashPeer, Stop
<1>7. CASE UNCHANGED registryVars
  BY <1>2, <1>7 DEF registryVars
<1>8. CASE Discovery
  BY <1>2, <1>3, <1>4, <1>5, <1>8 DEF Discovery
<1> QED
  BY <1>2, <1>6, <1>7, <1>8 DEF Next, vars

\* Once a data race has struck it has struck.
LEMMA RacedStays ==
    ASSUME SafetyInv, [Next]_vars
    PROVE  raced => raced'
<1>1. ASSUME NEW u \in Upload,
             \/ \E p \in Peer, n \in FileName, c \in Content : UploadBegin(u, p, n, c)
             \/ UploadStep(u)
      PROVE  raced => raced'
  BY <1>1 DEF UploadBegin, UploadStep, UploadStore, UploadAdd, UploadAddRaces
<1>2. ASSUME NEW d \in Download,
             \/ \E p \in Peer, n \in FileName, a \in Address : DownloadBegin(d, p, n, a)
             \/ DownloadStep(d)
      PROVE  raced => raced'
  BY <1>2 DEF DownloadBegin, DownloadStep, FetchMeta, FetchMetaRaces, FetchMetaFails,
              FindPeers, ProbePeer, LaunchChunks, FetchChunk, FetchChunkFails,
              DownloadChunk, CollectResults, RegisterDownload, RegisterDownloadRaces,
              SaveOpen, SaveWrite, SaveFails
<1>3. CASE FileStep
  BY <1>1, <1>2, <1>3 DEF FileStep
<1>4. CASE UNCHANGED fileVars
  BY <1>4 DEF fileVars
<1>5. ASSUME NEW p \in Peer, CrashPeer(p) PROVE raced => raced'
  BY <1>5 DEF CrashPeer
<1> QED
  BY <1>3, <1>4, <1>5 DEF Next, vars

\* The version a download holds stays at the primary peer, because that process
\* keeps what it stores and a later one has another incarnation.
LEMMA VersionStaysKept ==
    ASSUME SafetyInv, [Next]_vars, NEW d \in Download, EpochPast(d), VersionKept(d),
           SameVersion(download[d], download'[d]),
           \/ download[d].pc \in {"peers", "probe", "fetch"}
           \/ download'[d].pc \notin {"peers", "probe", "fetch"}
    PROVE  EpochPast(d)' /\ VersionKept(d)'
<1> DEFINE dl == download[d]
           new == download'[d]
           q == Source(d, dl.primary)
<1> SUFFICES ASSUME dl.pc \in {"peers", "probe", "fetch"}
             PROVE  EpochPast(d)' /\ VersionKept(d)'
  BY DEF EpochPast, VersionKept
<1>1. /\ RegistryTypeOK /\ LegalDownload(dl) /\ dl \in DownloadRecord
      /\ new.peer = dl.peer /\ new.primary = dl.primary
      /\ new.epoch = dl.epoch /\ new.meta = dl.meta
  BY SafetyInvSplit, DownloadIsLegal
     DEF SafetyInv, TypeOK, LegalDownload, SameVersion
<1>2. q \in Peer /\ dl.epoch \in [Peer -> Nat] /\ dl.meta.chunks \in Seq(Digest)
  BY <1>1, SourceType DEF LegalDownload, DownloadTyped, Active, DownloadPC,
                          DownloadRecord, Meta
<1>4. Source(d, download[d].primary)' = q
  BY <1>1 DEF Source
<1>3. ASSUME NEW k \in Peer
      PROVE  /\ incarnation[k] \in Nat /\ incarnation'[k] \in Nat /\ dl.epoch[k] \in Nat
             /\ incarnation[k] <= incarnation'[k]
             /\ k \in running' => k \in running \/ incarnation'[k] > incarnation[k]
             /\ dl.epoch[k] <= incarnation[k]
  BY <1>1, <1>2, ProcessesOfStep DEF EpochPast
<1>5. EpochPast(d)'
  <2>1. ASSUME NEW k \in Peer PROVE dl.epoch[k] <= incarnation'[k]
    BY <1>3
  <2> QED
    BY <1>1, <2>1 DEF EpochPast
<1>6. ASSUME ~raced', q \in running', incarnation'[q] = dl.epoch[q],
             NEW g \in Range(dl.meta.chunks)
      PROVE  chunkData'[q][g] # None
  <2>1. ~raced /\ q \in running /\ incarnation[q] = dl.epoch[q]
    BY <1>2, <1>3, <1>6, RacedStays
  <2>2. chunkData[q][g] # None
    BY <1>6, <2>1 DEF VersionKept
  <2>3. g \in Digest
    BY <1>2, <1>6 DEF Range
  <2> QED
    BY <1>2, <1>6, <2>2, <2>3, NextKeeps DEF Keeps
<1> QED
  BY <1>1, <1>4, <1>5, <1>6 DEF VersionKept

\* When metadata arrives without a race, its chunks are there
\* (AdvertisedIsServable), and it is of the process that is up.
LEMMA FetchedVersionKept ==
    ASSUME SafetyInv, UNCHANGED registryVars, NEW d \in Download,
           FetchMeta(d) \/ FetchMetaRaces(d)
    PROVE  EpochPast(d)' /\ VersionKept(d)'
<1> DEFINE dl == download[d]
           q == Source(d, dl.primary)
<1>1. /\ RegistryTypeOK /\ dl \in DownloadRecord /\ q \in Peer /\ dl.name \in FileName
      /\ incarnation' = incarnation
  <2>1. dl.pc = "meta" /\ LegalDownload(dl)
    BY SafetyInvSplit, DownloadIsLegal DEF FetchMeta, FetchMetaRaces
  <2> QED
    BY <2>1, SourceType DEF SafetyInv, TypeOK, LegalDownload, DownloadTyped, Active,
                            DownloadPC, registryVars
<1>2. \A k \in Peer : incarnation[k] \in Nat
  BY <1>1, MaxIncarnationAssumption DEF RegistryTypeOK
<1>3. Fail(d) => Rests(download'[d])
  BY DEF Fail, Becomes, SafetyInv, TypeOK, Rests, Failed, IdleDownload
<1>4. ASSUME NEW m, MetaArrives(d, m)
      PROVE  \/ Rests(download'[d])
             \/ /\ Source(d, download[d].primary)' = q
                /\ download'[d].epoch = incarnation /\ download'[d].meta = m
  <2> DEFINE new == [dl EXCEPT !.pc = "peers", !.meta = m, !.epoch = incarnation]
  <2>1. Fail(d) \/ Becomes(d, new)
    BY <1>4 DEF MetaArrives
  <2>2. /\ new.peer = dl.peer /\ new.primary = dl.primary
        /\ new.epoch = incarnation /\ new.meta = m
    BY <1>1 DEF DownloadRecord
  <2> HIDE DEF new
  <2> QED
    BY <1>3, <2>1, <2>2 DEF Becomes, Source, SafetyInv, TypeOK
<1>5. Rests(download'[d]) => EpochPast(d)' /\ VersionKept(d)'
  BY DEF Rests, EpochPast, VersionKept
<1>6. CASE FetchMetaRaces(d)
  <2>1. raced' /\ (Fail(d) \/ \E m : MetaArrives(d, m))
    BY <1>6 DEF FetchMetaRaces
  <2>2. \/ Rests(download'[d])
        \/ download'[d].epoch = incarnation
    BY <1>4, <1>3, <2>1
  <2> QED
    BY <1>1, <1>2, <1>5, <2>1, <2>2 DEF EpochPast, VersionKept
<1>7. CASE FetchMeta(d)
  <2> DEFINE m == sharedFiles[q][dl.name]
  <2>1. /\ m # None /\ MetaArrives(d, m)
        /\ chunkData' = chunkData /\ raced' = raced
    BY <1>7 DEF FetchMeta
  <2>2. ~raced => \A g \in Range(m.chunks) : chunkData[q][g] # None
    BY <1>1, <2>1 DEF SafetyInv, AdvertisedIsServable
  <2> HIDE DEF m
  <2> QED
    BY <1>1, <1>2, <1>4, <1>5, <2>1, <2>2 DEF EpochPast, VersionKept
<1> QED
  BY <1>6, <1>7

\* Every step keeps the version of every download.
LEMMA VersionsStep ==
    ASSUME SafetyInv, EpochsPast, PrimaryKeepsVersion, [Next]_vars
    PROVE  EpochsPast' /\ PrimaryKeepsVersion'
<1> SUFFICES ASSUME NEW d \in Download PROVE EpochPast(d)' /\ VersionKept(d)'
  BY DEF EpochsPast, PrimaryKeepsVersion, EpochPast, VersionKept
<1> DEFINE dl == download[d]
<1>1. EpochPast(d) /\ VersionKept(d)
  BY DEF EpochsPast, PrimaryKeepsVersion, EpochPast, VersionKept
<1>2. CASE download'[d] = dl
  <2>1. /\ SameVersion(dl, download'[d])
        /\ \/ dl.pc \in {"peers", "probe", "fetch"}
           \/ download'[d].pc \notin {"peers", "probe", "fetch"}
    BY <1>2 DEF SameVersion
  <2> QED
    BY <1>1, <2>1, VersionStaysKept
<1>3. CASE Rests(download'[d])
  BY <1>3 DEF Rests, EpochPast, VersionKept
<1>4. CASE /\ UNCHANGED registryVars
           /\ \/ \E p \in Peer, n \in FileName, a \in Address : DownloadBegin(d, p, n, a)
              \/ DownloadStep(d)
  <2>1. PICK new : /\ Becomes(d, new)
                   /\ \/ Rests(new)
                      \/ FetchMeta(d) \/ FetchMetaRaces(d)
                      \/ FindPeers(d) /\ SameVersion(dl, new)
                      \/ ProbePeer(d) /\ SameVersion(dl, new)
                      \/ SameVersion(dl, new) /\ Onward(dl.pc, new.pc)
    BY <1>4, SafetyInvSplit, DownloadMoves
  <2>2. download'[d] = new
    BY <2>1 DEF Becomes, SafetyInv, TypeOK
  <2>3. CASE FetchMeta(d) \/ FetchMetaRaces(d)
    BY <1>4, <2>3, FetchedVersionKept
  <2>4. CASE (FindPeers(d) \/ ProbePeer(d)) /\ SameVersion(dl, new)
    <3>1. dl.pc \in {"peers", "probe", "fetch"}
      BY <2>4 DEF FindPeers, ProbePeer
    <3> QED
      BY <1>1, <2>2, <2>4, <3>1, VersionStaysKept
  <2>5. CASE SameVersion(dl, new) /\ Onward(dl.pc, new.pc)
    <3>1. \/ dl.pc \in {"peers", "probe", "fetch"}
          \/ download'[d].pc \notin {"peers", "probe", "fetch"}
      BY <2>2, <2>5 DEF Onward
    <3> QED
      BY <1>1, <2>2, <2>5, <3>1, VersionStaysKept
  <2> QED
    BY <1>3, <2>1, <2>2, <2>3, <2>4, <2>5
<1> QED
  BY <1>2, <1>3, <1>4, StepOfDownload

-----------------------------------------------------------------------------
\* SourcesInv is an inductive invariant of the swarm.
THEOREM SourcesInvHolds == Spec => []SourcesInv
<1>1. SwarmInit => SourcesInv
  <2> SUFFICES ASSUME SwarmInit PROVE SourcesInv
    OBVIOUS
  <2>1. \A d \in Download : download[d].pc = "idle" /\ download[d].avail = <<>>
    BY DEF SwarmInit, IdleDownload
  <2>2. SourcesDistinct
    BY <2>1 DEF SourcesDistinct, Distinct
  <2>3. EpochsPast /\ PrimaryKeepsVersion
    BY <2>1 DEF EpochsPast, PrimaryKeepsVersion
  <2>4. RegistryInv
    BY RegistryInitInv DEF SwarmInit
  <2> QED
    BY <2>2, <2>3, <2>4, InitSafetyInv DEF SourcesInv
<1>2. SourcesInv /\ [Next]_vars => SourcesInv'
  <2> SUFFICES ASSUME SourcesInv, [Next]_vars PROVE SourcesInv'
    OBVIOUS
  <2>1. SafetyInv'
    BY NextSafetyInv DEF SourcesInv
  <2>2. RegistryInv'
    BY SwarmRegistryInv DEF SourcesInv
  <2>3. SourcesDistinct'
    BY SourcesStep DEF SourcesInv
  <2>4. EpochsPast' /\ PrimaryKeepsVersion'
    BY VersionsStep DEF SourcesInv
  <2> QED
    BY <2>1, <2>2, <2>3, <2>4 DEF SourcesInv
<1> QED
  BY <1>1, <1>2, PTL DEF Spec

\* The primary peer can serve every chunk of the version a download holds for
\* as long as the process that sent the metadata lives.
THEOREM PrimariesKeepVersions == Spec => []PrimaryKeepsVersion
<1>1. SourcesInv => PrimaryKeepsVersion
  BY DEF SourcesInv
<1> QED
  BY <1>1, SourcesInvHolds, PTL

\* Beyond the peer its user chose, a node asks itself for chunks only under a
\* second name that is on its command line, or under its own TCP address
\* (downloader.go:56): what others announce leads back to it only if it is the
\* address it announces itself, and over HTTP that one is passed over.
THEOREM SelvesProbedForCause == Spec => []SelfProbedForCause
<1>1. SourcesInv => SelfProbedForCause
  <2> SUFFICES ASSUME SourcesInv, NEW d \in Download,
                      NEW k \in DOMAIN download[d].avail, k # 1,
                      Source(d, download[d].avail[k]) = download[d].peer
               PROVE  LET p == download[d].peer
                          a == download[d].avail[k]
                      IN  /\ a # HTTPAddress(p)
                          /\ \/ a \in Range(PeersFlag[p])
                             \/ Mode[p] = "tcp" /\ a = P2PAddress(p)
    BY DEF SelfProbedForCause
  <2> DEFINE p == download[d].peer
             a == download[d].avail[k]
  <2>1. /\ a \in Listable(p) /\ a # HTTPAddress(p)
        /\ Reaches[p][a].transport = Mode[p]
    BY DEF SourcesInv, SourcesDistinct, Skipped
  <2>2. p \in Peer /\ a \in Address
    <3>1. download[d] \in DownloadRecord
      BY DEF SourcesInv, SafetyInv, TypeOK
    <3>2. download[d].avail \in Seq(Address) /\ download[d].avail # <<>>
      BY <3>1 DEF DownloadRecord
    <3> QED
      BY <3>2 DEF SourcesInv, SourcesDistinct
  <2>3. CASE \E q \in Peer : a = P2PAddress(q)
    <3>1. PICK q \in Peer : a = LocalAddress[Mode[q]][q]
      BY <2>3 DEF P2PAddress
    <3>2. Mode[p] \in Transport /\ Mode[q] \in Transport
      BY <2>2, ModeAssumption
    <3>3. Reaches[p][a] = [transport |-> Mode[p], peer |-> p]
      <4>1. Reaches[p][a] \in Endpoint
        BY <2>2, AddressAssumption
      <4> QED
        BY <2>1, <4>1 DEF Endpoint, Source, NodeAt
    <3>4. a = LocalAddress[Mode[p]][p]
      BY <2>2, <3>1, <3>2, <3>3, LoopbackAssumption
    <3>5. Mode[p] = "tcp"
      BY <2>1, <3>2, <3>4 DEF HTTPAddress, Transport
    <3> QED
      BY <2>1, <3>4, <3>5 DEF P2PAddress
  <2> QED
    BY <2>1, <2>3 DEF Listable
<1> QED
  BY <1>1, SourcesInvHolds, PTL

-----------------------------------------------------------------------------
(***************************************************************************)
(* Round robin.                                                            *)
(***************************************************************************)
\* The positions among n that fall to the j-th of k sources.
Turns(n, k, j) == {i \in 1 .. n : ((i - 1) % k) + 1 = j}

\* Quotient and remainder.
LEMMA Division ==
    ASSUME NEW k \in Nat \ {0}, NEW x \in Nat
    PROVE  \E q \in Nat : x = k * q + (x % k)
<1>1. x = k * (x \div k) + (x % k) /\ x \div k \in Nat
  BY SMTT(60)
<1> QED
  BY <1>1

\* A remainder is less than the divisor.
LEMMA RemainderBound ==
    ASSUME NEW k \in Nat \ {0}, NEW x \in Nat
    PROVE  x % k \in 0 .. k - 1
BY SMTT(60)

\* A sum with a multiple of k leaves the same remainder.
LEMMA RemainderOfSum ==
    ASSUME NEW k \in Nat \ {0}, NEW q \in Nat, NEW r \in 0 .. k - 1
    PROVE  (k * q + r) % k = r
BY SMTT(60)

\* One round more is k positions more.
LEMMA OneRoundMore ==
    ASSUME NEW k \in Nat \ {0}, NEW q \in Nat
    PROVE  k * (q + 1) = k * q + k /\ k * q \in Nat
BY SMTT(60)

\* A turn of x other than the first has a turn of y one round before it.
LEMMA TurnBefore ==
    ASSUME NEW n \in Nat, NEW k \in Nat \ {0}, NEW x \in 1 .. k, NEW y \in 1 .. k,
           NEW i \in Turns(n, k, x), i # x
    PROVE  i \in Nat /\ i - k + y - x \in Turns(n, k, y)
<1>1. i \in 1 .. n /\ ((i - 1) % k) + 1 = x
  BY DEF Turns
<1>2. i - 1 \in Nat
  BY <1>1
<1>3. (i - 1) % k = x - 1
  <2>1. (i - 1) % k \in 0 .. k - 1
    BY <1>2, RemainderBound
  <2> DEFINE r == (i - 1) % k
  <2>2. r \in Int /\ r + 1 = x
    BY <1>1, <2>1
  <2> HIDE DEF r
  <2>3. r = x - 1
    BY <2>2
  <2> QED
    BY <2>3 DEF r
<1>4. PICK p \in Nat : i - 1 = k * p + (x - 1)
  <2>1. \E p \in Nat : i - 1 = k * p + ((i - 1) % k)
    BY <1>2, Division
  <2> QED
    BY <1>3, <2>1
<1>5. p # 0
  <2>1. k * 0 = 0
    OBVIOUS
  <2> QED
    BY <1>1, <1>4, <2>1
<1>6. PICK q \in Nat : p = q + 1
  <2>1. p - 1 \in Nat /\ p = (p - 1) + 1
    BY <1>5
  <2> QED
    BY <2>1
<1> DEFINE before == k * q
<1>7. before \in Nat /\ i - 1 = before + k + (x - 1)
  BY <1>4, <1>6, OneRoundMore
<1>8. (before + (y - 1)) % k = y - 1
  <2>1. y - 1 \in 0 .. k - 1
    OBVIOUS
  <2> QED
    BY <2>1, RemainderOfSum
<1> HIDE DEF before
<1>9. /\ (i - k + y - x) - 1 = before + (y - 1)
      /\ i - k + y - x \in 1 .. n
  BY <1>1, <1>7
<1>10. ((i - k + y - x) - 1) % k = y - 1
  BY <1>8, <1>9
<1>11. (((i - k + y - x) - 1) % k) + 1 = y
  <2>1. (y - 1) + 1 = y
    OBVIOUS
  <2> QED
    BY <1>10, <2>1
<1> QED
  BY <1>1, <1>9, <1>11 DEF Turns

\* availablePeers[i%peerCount] gives no source more than one chunk more than
\* another: each turn of x but the first is matched by a turn of y a round
\* earlier (downloader.go:121).
LEMMA RoundRobin ==
    ASSUME NEW n \in Nat, NEW k \in Nat \ {0}, NEW x \in 1 .. k, NEW y \in 1 .. k
    PROVE  Cardinality(Turns(n, k, x)) <= Cardinality(Turns(n, k, y)) + 1
<1> DEFINE A == Turns(n, k, x)
           B == Turns(n, k, y)
           rest == A \ {x}
           match == [i \in rest |-> i - k + y - x]
<1>1. A \in SUBSET (1 .. n) /\ B \in SUBSET (1 .. n)
  BY DEF Turns
<1>2. IsFiniteSet(A) /\ IsFiniteSet(B)
  BY <1>1, IntervalFinite, FS_Subset
<1>3. ASSUME NEW i \in rest
      PROVE  i \in Int /\ i - k + y - x \in B
  <2>1. i \in A /\ i # x
    OBVIOUS
  <2>2. i \in Nat /\ i - k + y - x \in B
    BY <2>1, TurnBefore
  <2> QED
    BY <2>2
<1> HIDE DEF A, B
<1>4. match \in Injection(rest, B)
  <2>1. match \in [rest -> B]
    BY <1>3
  <2>2. \A i \in rest : i \in Int /\ match[i] = i - k + y - x
    BY <1>3
  <2>3. ASSUME NEW i \in rest, NEW j \in rest, match[i] = match[j] PROVE i = j
    <3>1. i \in Int /\ j \in Int /\ i - k + y - x = j - k + y - x
      BY <2>2, <2>3
    <3>2. k \in Int /\ x \in Int /\ y \in Int
      OBVIOUS
    <3> HIDE DEF rest
    <3> QED
      BY <3>1, <3>2
  <2> QED
    BY <2>1, <2>3 DEF Injection, IsInjective
<1> HIDE DEF match
<1>5. Cardinality(rest) <= Cardinality(B)
  BY <1>2, <1>4, FS_Injection
<1>6. /\ Cardinality(A) \in Nat /\ Cardinality(B) \in Nat
      /\ Cardinality(rest) = IF x \in A THEN Cardinality(A) - 1 ELSE Cardinality(A)
  BY <1>2, FS_RemoveElement, FS_CardinalityType
<1> QED
  BY <1>5, <1>6 DEF A, B

\* The chunks one source is asked for are its turns: no address occurs twice.
LEMMA LoadIsTurns ==
    ASSUME SourcesInv, NEW d \in Download, download[d].pc = "fetch",
           NEW x \in DOMAIN download[d].avail
    PROVE  Load(d, download[d].avail[x])
             = Cardinality(Turns(Len(download[d].meta.chunks), Len(download[d].avail), x))
<1> DEFINE avail == download[d].avail
           chunks == download[d].meta.chunks
           k == Len(avail)
<1>1. /\ avail \in Seq(Address) /\ avail # <<>>
      /\ chunks \in Seq(Digest) /\ Distinct(avail)
  BY DEF SourcesInv, SafetyInv, TypeOK, DownloadsTyped, DownloadTyped, DownloadRecord,
         Meta, SourcesDistinct
<1>2. k \in Nat \ {0} /\ DOMAIN avail = 1 .. k /\ DOMAIN chunks = 1 .. Len(chunks)
  BY <1>1
<1>3. ASSUME NEW i \in DOMAIN chunks
      PROVE  Assigned(d, i) = avail[x] <=> ((i - 1) % k) + 1 = x
  <2> DEFINE turn == ((i - 1) % k) + 1
  <2>1. i - 1 \in Nat
    BY <1>1
  <2>2. turn \in DOMAIN avail
    <3>1. (i - 1) % k \in 0 .. k - 1
      BY <1>2, <2>1, RemainderBound
    <3> QED
      BY <1>2, <3>1
  <2>3. Assigned(d, i) = avail[turn]
    BY DEF Assigned
  <2> HIDE DEF turn
  <2>4. avail[turn] = avail[x] <=> turn = x
    BY <1>1, <2>2 DEF Distinct
  <2> QED
    BY <2>3, <2>4 DEF turn
<1>4. {i \in DOMAIN chunks : Assigned(d, i) = avail[x]} = Turns(Len(chunks), k, x)
  BY <1>2, <1>3 DEF Turns
<1> QED
  BY <1>4 DEF Load

\* No source of a download is asked for two chunks more than another
\* (README.md:27).
THEOREM LoadIsBalanced == Spec => []LoadBalanced
<1>1. SourcesInv => LoadBalanced
  <2> SUFFICES ASSUME SourcesInv, NEW d \in Download, download[d].pc = "fetch",
                      NEW a \in Range(download[d].avail),
                      NEW b \in Range(download[d].avail)
               PROVE  Load(d, a) <= Load(d, b) + 1
    BY DEF LoadBalanced
  <2> DEFINE avail == download[d].avail
             chunks == download[d].meta.chunks
             k == Len(avail)
  <2>1. avail \in Seq(Address) /\ avail # <<>> /\ chunks \in Seq(Digest)
    BY DEF SourcesInv, SafetyInv, TypeOK, DownloadsTyped, DownloadTyped,
           DownloadRecord, Meta
  <2>2. /\ k \in Nat \ {0} /\ DOMAIN avail = 1 .. k /\ Len(chunks) \in Nat
    BY <2>1
  <2>3. PICK x \in DOMAIN avail, y \in DOMAIN avail : a = avail[x] /\ b = avail[y]
    BY DEF Range
  <2>4. /\ Load(d, a) = Cardinality(Turns(Len(chunks), k, x))
        /\ Load(d, b) = Cardinality(Turns(Len(chunks), k, y))
    BY <2>3, LoadIsTurns
  <2> QED
    BY <2>2, <2>4, RoundRobin
<1> QED
  BY <1>1, SourcesInvHolds, PTL
-----------------------------------------------------------------------------
(***************************************************************************)
(* The swarm implements FileService.                                       *)
(***************************************************************************)
\* What Swarm substitutes for request.
Requests == [d \in Download |-> RequestOf(download[d])]

\* A step of a download ends it, saves its data, or goes on with the same file.
LEMMA DownloadOutcome ==
    ASSUME TypesInv, NEW d \in Download, DownloadStep(d)
    PROVE  /\ download[d].pc \in Active
           /\ uploaded' = uploaded
           /\ \/ SaveWrite(d)
              \/ /\ raced' \in {raced, TRUE}
                 /\ \E new : /\ Becomes(d, new)
                             /\ \/ new = Failed
                                \/ new.pc \in Active /\ new.name = download[d].name
<1> DEFINE dl == download[d]
           GoesOn == \E new : /\ Becomes(d, new)
                              /\ \/ new = Failed
                                 \/ new.pc \in Active /\ new.name = dl.name
<1>1. dl \in DownloadRecord /\ LegalDownload(dl)
  BY DownloadIsLegal DEF LegalDownload
<1>2. Fail(d) => GoesOn
  BY DEF Fail
<1>3. Active = {"meta", "peers", "probe", "fetch", "register", "open", "write"}
  BY DEF Active, DownloadPC
<1>4. \A i \in dl.pending : dl.pc = "fetch"
  BY <1>1 DEF LegalDownload, DownloadTyped
<1>5. \A r \in dl.replies : dl.pc = "fetch"
  BY <1>1 DEF LegalDownload, DownloadTyped
<1>6. dl.pc \in Active /\ uploaded' = uploaded
  BY <1>3, <1>4, <1>5
     DEF DownloadStep, FetchMeta, FetchMetaRaces, FetchMetaFails, FindPeers, ProbePeer,
         LaunchChunks, FetchChunk, FetchChunkFails, DownloadChunk, CollectResults,
         Collected, RegisterDownload, RegisterDownloadRaces, SaveOpen, SaveWrite,
         SaveFails
<1>7. SaveWrite(d) \/ raced' \in {raced, TRUE}
  BY DEF DownloadStep, FetchMeta, FetchMetaRaces, FetchMetaFails, FindPeers, ProbePeer,
         LaunchChunks, FetchChunk, FetchChunkFails, DownloadChunk, CollectResults,
         RegisterDownload, RegisterDownloadRaces, SaveOpen, SaveFails
<1> SUFFICES SaveWrite(d) \/ GoesOn
  BY <1>6, <1>7
<1>8. ASSUME NEW new, Becomes(d, new), new.pc \in Active, new.name = dl.name
       PROVE  GoesOn
  BY <1>8
<1>9. ASSUME NEW m, MetaArrives(d, m) PROVE GoesOn
  <2> DEFINE new == [dl EXCEPT !.pc = "peers", !.meta = m,
                               !.epoch = incarnation]
  <2>1. new.pc = "peers" /\ new.name = dl.name
    BY <1>1 DEF DownloadRecord
  <2>2. Fail(d) \/ Becomes(d, new)
    BY <1>9 DEF MetaArrives
  <2> HIDE DEF new
  <2> QED
    BY <1>2, <1>3, <1>8, <2>1, <2>2
<1>10. CASE FetchMeta(d) \/ FetchMetaRaces(d) \/ FetchMetaFails(d)
  BY <1>2, <1>9, <1>10 DEF FetchMeta, FetchMetaRaces, FetchMetaFails
<1>11. CASE FindPeers(d)
  <2> DEFINE new == [dl EXCEPT !.pc = "probe", !.avail = <<dl.primary>>,
                               !.toProbe = registry[dl.peer]]
  <2>1. Becomes(d, new) /\ new.pc = "probe" /\ new.name = dl.name
    BY <1>1, <1>11 DEF FindPeers, DownloadRecord
  <2> HIDE DEF new
  <2> QED
    BY <1>3, <1>8, <2>1
<1>12. CASE ProbePeer(d)
  <2> DEFINE added == [dl EXCEPT !.toProbe = Tail(@), !.avail = Append(@, Head(dl.toProbe))]
             skipped == [dl EXCEPT !.toProbe = Tail(@)]
  <2>1. /\ dl.pc = "probe" /\ added.pc = dl.pc /\ added.name = dl.name
        /\ skipped.pc = dl.pc /\ skipped.name = dl.name
    BY <1>1, <1>12 DEF ProbePeer, DownloadRecord
  <2>2. Becomes(d, added) \/ Becomes(d, skipped)
    BY <1>12 DEF ProbePeer
  <2> HIDE DEF added, skipped
  <2> QED
    BY <1>3, <1>8, <2>1, <2>2
<1>13. CASE LaunchChunks(d)
  <2> DEFINE new == [dl EXCEPT !.pc = "fetch", !.pending = DOMAIN dl.meta.chunks]
  <2>1. Becomes(d, new) /\ new.pc = "fetch" /\ new.name = dl.name
    BY <1>1, <1>13 DEF LaunchChunks, DownloadRecord
  <2> HIDE DEF new
  <2> QED
    BY <1>3, <1>8, <2>1
<1>14. ASSUME NEW i \in dl.pending, FetchChunk(d, i) PROVE GoesOn
  <2>1. PICK r : Becomes(d, [dl EXCEPT !.pending = @ \ {i},
                                       !.replies = @ \cup {[index |-> i, data |-> r]}])
    BY <1>14 DEF FetchChunk
  <2> DEFINE new == [dl EXCEPT !.pending = @ \ {i},
                               !.replies = @ \cup {[index |-> i, data |-> r]}]
  <2>2. new.pc = "fetch" /\ new.name = dl.name
    BY <1>1, <1>4 DEF DownloadRecord
  <2>3. Becomes(d, new)
    BY <2>1
  <2> HIDE DEF new
  <2> QED
    BY <1>3, <1>8, <2>2, <2>3
<1>15. ASSUME NEW i \in dl.pending, FetchChunkFails(d, i) PROVE GoesOn
  <2> DEFINE new == [dl EXCEPT !.pending = @ \ {i}, !.results = Sent(@, i, None)]
  <2>1. Becomes(d, new) /\ new.pc = "fetch" /\ new.name = dl.name
    BY <1>1, <1>4, <1>15 DEF FetchChunkFails, DownloadRecord
  <2> HIDE DEF new
  <2> QED
    BY <1>3, <1>8, <2>1
<1>16. ASSUME NEW r \in dl.replies, DownloadChunk(d, r) PROVE GoesOn
  <2> DEFINE good == Verified(r.data, dl.meta.chunks[r.index])
             sent == Sent(dl.results, r.index, IF good THEN r.data ELSE None)
             new == [dl EXCEPT !.replies = @ \ {r}, !.results = sent]
  <2>1. Becomes(d, new) /\ new.pc = "fetch" /\ new.name = dl.name
    BY <1>1, <1>5, <1>16 DEF DownloadChunk, DownloadRecord
  <2> HIDE DEF new
  <2> QED
    BY <1>3, <1>8, <2>1
<1>17. CASE CollectResults(d)
  <2> DEFINE new == [dl EXCEPT !.pc = "register", !.data = Reassemble(dl.results)]
  <2>1. new.pc = "register" /\ new.name = dl.name
    BY <1>1 DEF DownloadRecord
  <2>2. Fail(d) \/ Becomes(d, new)
    BY <1>17 DEF CollectResults
  <2> HIDE DEF new
  <2> QED
    BY <1>2, <1>3, <1>8, <2>1, <2>2
<1>18. ASSUME NEW pc \in {"open", "write"}, Becomes(d, [dl EXCEPT !.pc = pc])
       PROVE  GoesOn
  <2> DEFINE new == [dl EXCEPT !.pc = pc]
  <2>1. new.pc = pc /\ new.name = dl.name
    BY <1>1 DEF DownloadRecord
  <2>2. Becomes(d, new) /\ pc \in Active
    BY <1>3, <1>18
  <2> HIDE DEF new
  <2> QED
    BY <1>8, <2>1, <2>2
<1>19. CASE RegisterDownload(d) \/ RegisterDownloadRaces(d) \/ SaveOpen(d)
  BY <1>18, <1>19 DEF RegisterDownload, RegisterDownloadRaces, SaveOpen
<1>20. CASE SaveFails(d)
  BY <1>2, <1>20 DEF SaveFails
<1> HIDE DEF GoesOn, dl
<1>21. SaveWrite(d) \/ GoesOn
  BY <1>10, <1>11, <1>12, <1>13, <1>14, <1>15, <1>16, <1>17, <1>19, <1>20
     DEF DownloadStep, dl
<1> QED
  BY <1>21

\* The status a user sees changes with the end of a download only.
LEMMA RequestOfRecord ==
    ASSUME NEW dl
    PROVE  /\ dl.pc = "idle" => RequestOf(dl) = Service!Idle
           /\ dl.pc \in Active => RequestOf(dl) = Service!Pending(dl.name)
           /\ dl.pc = "failed" => RequestOf(dl) = Service!Refused
           /\ dl.pc = "ok" => RequestOf(dl) = Service!Answered(dl.name, dl.data)
BY DEF RequestOf, Active, DownloadPC, Service!Idle, Service!Pending, Service!Refused,
       Service!Answered

\* Steps in which downloads go on or fail refuse the requests that fail.
LEMMA RefuseSimulates ==
    ASSUME SafetyInv, NEW S \in SUBSET Download,
           \A d \in S : download[d].pc \in Active /\ download'[d] = Failed,
           \A d \in Download \ S :
               RequestOf(download'[d]) = RequestOf(download[d]),
           uploaded' = uploaded, raced' \in {raced, TRUE}
    PROVE  Service!ServiceNext
<1>1. \A d \in S : RequestOf(download[d]) \in {Service!Pending(n) : n \in FileName}
  BY RequestOfRecord DEF SafetyInv, DownloadsTyped, DownloadTyped
<1>2. \A d \in S : RequestOf(download'[d]) = Service!Refused
  <2>1. Failed.pc = "failed"
    BY DEF Failed, IdleDownload
  <2>2. RequestOf(Failed) = Service!Refused
    BY <2>1, RequestOfRecord
  <2> QED
    BY <2>2
<1>3. Requests' = [r \in Download |-> IF r \in S THEN Service!Refused ELSE Requests[r]]
  BY <1>2 DEF Requests
<1>4. \A r \in S : Requests[r] \in {Service!Pending(n) : n \in FileName}
  BY <1>1 DEF Requests
<1>5. Service!Refuse(S)
  BY <1>3, <1>4 DEF Service!Refuse, Requests
<1> QED
  BY <1>5 DEF Service!ServiceNext

\* Every step of the swarm is a step of the service: an upload publishes, a
\* download asks, the end of the save answers with a version that was uploaded,
\* and everything else goes on, or refuses.
LEMMA SwarmStepSimulates ==
    ASSUME SafetyInv, [Next]_vars
    PROVE  [Service!ServiceNext]_(Service!serviceVars)
<1>1. /\ download \in [Download -> DownloadRecord]
      /\ uploaded \in [FileName -> SUBSET Seq(Block)]
  BY DEF SafetyInv, TypeOK
<1>2. ASSUME UNCHANGED <<download, uploaded>>, raced' \in {raced, TRUE}
      PROVE  Service!ServiceNext
  BY <1>2, RefuseSimulates, {} \in SUBSET Download
<1>3. CASE UNCHANGED fileVars
  BY <1>2, <1>3 DEF fileVars
<1>4. ASSUME NEW u \in Upload, NEW p \in Peer, NEW n \in FileName, NEW c \in Content,
             UploadBegin(u, p, n, c)
      PROVE  Service!ServiceNext
  <2>1. Service!Publish(n, c)
    BY <1>4 DEF UploadBegin, Service!Publish
  <2> QED
    BY <2>1 DEF Service!ServiceNext
<1>5. ASSUME NEW u \in Upload, UploadStep(u) PROVE Service!ServiceNext
  BY <1>2, <1>5 DEF UploadStep, UploadStore, UploadAdd, UploadAddRaces
<1>6. ASSUME NEW d \in Download, NEW p \in Peer, NEW n \in FileName, NEW a \in Address,
             DownloadBegin(d, p, n, a)
      PROVE  Service!ServiceNext
  <2> DEFINE new == [IdleDownload EXCEPT !.pc = "meta", !.peer = p,
                                         !.name = n, !.primary = a]
  <2>1. /\ download' = [download EXCEPT ![d] = new] /\ download[d].pc = "idle"
        /\ UNCHANGED <<uploaded, raced>>
    BY <1>6 DEF DownloadBegin, Becomes
  <2>2. new.pc \in Active /\ new.name = n
    BY DEF IdleDownload, Active, DownloadPC
  <2> HIDE DEF new
  <2>3. /\ RequestOf(download[d]) = Service!Idle
        /\ RequestOf(new) = Service!Pending(n)
    BY <2>1, <2>2, RequestOfRecord
  <2>4. /\ Requests[d] = Service!Idle
        /\ Requests' = [Requests EXCEPT ![d] = Service!Pending(n)]
    BY <1>1, <2>1, <2>3 DEF Requests
  <2>5. Service!Ask(d, n)
    BY <2>1, <2>4 DEF Service!Ask, Requests
  <2> QED
    BY <2>5 DEF Service!ServiceNext
<1>7. ASSUME NEW d \in Download, SaveWrite(d) PROVE Service!ServiceNext
  <2> DEFINE dl == download[d]
             n == dl.name
             answer == Service!Answered(n, dl.data)
  <2>1. /\ download' = [download EXCEPT ![d] = Succeeded(dl)] /\ dl.pc = "write"
        /\ UNCHANGED <<uploaded, raced>>
    BY <1>7 DEF SaveWrite, Becomes
  <2>2. /\ Succeeded(dl).pc = "ok" /\ Succeeded(dl).name = n
        /\ Succeeded(dl).data = dl.data
    BY DEF Succeeded, IdleDownload
  <2>3. dl.pc \in Active /\ n \in FileName
    BY <2>1 DEF SafetyInv, DownloadsTyped, DownloadTyped, Active, DownloadPC
  <2>4. raced \/ dl.data \in uploaded[n]
    BY <2>1 DEF SafetyInv, ReassembledIsUploaded
  <2>5. /\ RequestOf(dl) = Service!Pending(n)
        /\ RequestOf(Succeeded(dl)) = answer
    BY <2>2, <2>3, RequestOfRecord
  <2>6. answer.status = "answered" /\ answer.data = dl.data
    BY DEF Service!Answered
  <2> HIDE DEF dl, n, answer
  <2>7. /\ Requests[d] = Service!Pending(n)
        /\ Requests'[d] = answer
        /\ Requests' = [Requests EXCEPT ![d] = answer]
    BY <1>1, <2>1, <2>5 DEF Requests, dl
  <2>8. /\ Requests'[d].status = "answered"
        /\ Requests' = [Requests EXCEPT ![d] = Service!Answered(n, Requests'[d].data)]
        /\ raced \/ Requests'[d].data \in uploaded[n]
    BY <2>4, <2>6, <2>7 DEF answer
  <2>9. Service!Answer(d)
    BY <2>1, <2>3, <2>7, <2>8 DEF Service!Answer, Requests
  <2> QED
    BY <2>9 DEF Service!ServiceNext
<1>8. ASSUME NEW d \in Download, DownloadStep(d), ~SaveWrite(d)
      PROVE  Service!ServiceNext
  <2>1. /\ download[d].pc \in Active /\ uploaded' = uploaded
        /\ raced' \in {raced, TRUE}
    BY <1>8, SafetyInvSplit, DownloadOutcome
  <2>2. PICK new : /\ download' = [download EXCEPT ![d] = new]
                   /\ \/ new = Failed
                      \/ new.pc \in Active /\ new.name = download[d].name
    BY <1>8, SafetyInvSplit, DownloadOutcome DEF Becomes
  <2>3. download'[d] = new /\ \A e \in Download \ {d} : download'[e] = download[e]
    BY <1>1, <2>2
  <2>4. CASE new = Failed
    BY <2>1, <2>3, <2>4, RefuseSimulates, {d} \in SUBSET Download
  <2>5. CASE new.pc \in Active /\ new.name = download[d].name
    <3>1. RequestOf(new) = RequestOf(download[d])
      BY <2>1, <2>5, RequestOfRecord
    <3> QED
      BY <2>1, <2>3, <3>1, RefuseSimulates, {} \in SUBSET Download
  <2> QED
    BY <2>2, <2>4, <2>5
<1>9. ASSUME NEW p \in Peer, CrashPeer(p) PROVE Service!ServiceNext
  <2> DEFINE S == {d \in Download : download[d].peer = p /\ download[d].pc \in Active}
  <2>1. /\ \A d \in S : download'[d] = Failed
        /\ \A d \in Download \ S : download'[d] = download[d]
        /\ UNCHANGED <<uploaded, raced>>
    BY <1>9 DEF CrashPeer
  <2> QED
    BY <2>1, RefuseSimulates, S \in SUBSET Download
<1>10. CASE FileStep
  BY <1>4, <1>5, <1>6, <1>7, <1>8, <1>10 DEF FileStep
<1> QED
  BY <1>3, <1>9, <1>10 DEF Next, vars

\* Whatever peers, chunks, races on the registry and failures do, users see a
\* service that answers with whole published versions or not at all, until a
\* data race on the map of shared files strikes.
THEOREM SwarmImplementsService == Spec => ServiceImplemented
<1>1. SwarmInit => Service!ServiceInit
  <2> SUFFICES ASSUME SwarmInit PROVE Service!ServiceInit
    OBVIOUS
  <2>1. IdleDownload.pc = "idle"
    BY DEF IdleDownload
  <2>2. RequestOf(IdleDownload) = Service!Idle
    BY <2>1, RequestOfRecord
  <2>3. Requests = [d \in Download |-> Service!Idle]
    BY <2>2 DEF SwarmInit, Requests
  <2> QED
    BY <2>3 DEF SwarmInit, Service!ServiceInit, Requests
<1>2. SafetyInv /\ [Next]_vars => [Service!ServiceNext]_(Service!serviceVars)
  BY SwarmStepSimulates
<1> QED
  BY <1>1, <1>2, SafetyInvHolds, PTL
     DEF Spec, ServiceImplemented, Service!ServiceSpec
-----------------------------------------------------------------------------
(***************************************************************************)
(* Why a download fails.                                                   *)
(***************************************************************************)
Fetching == {"peers", "probe", "fetch"}

\* What listens is listed in listens, what is stored in stores: the node that p
\* finds at a answers for every chunk of m.
HasAll(p, a, m, listens, stores) ==
    /\ Reaches[p][a].transport = Mode[p] /\ Mode[p] \in listens[NodeAt(p, a)]
    /\ \A g \in Range(m.chunks) : stores[NodeAt(p, a)][g] # None

\* SourcesComplete and ArrivedGood for one download.
CompleteSources(d) ==
    (/\ ~raced
     /\ download[d].pc \in Fetching
     /\ SingleVersion(download[d].name))
    => \A a \in SourcesOf(download[d]) :
          Stands(d, a) => HasAll(download[d].peer, a, download[d].meta, listening, chunkData)

GoodArrivals(d) ==
    download[d].pc = "fetch" =>
        /\ Reliable => \A r \in download[d].replies :
                          Sum256[r.data] = download[d].meta.chunks[r.index]
        /\ Undisturbed(d) => \A k \in DOMAIN download[d].results :
                                download[d].results[k].data # None

\* The two invariants are about every download by itself.
LEMMA CausesOfEach ==
    /\ SourcesComplete <=> \A d \in Download : CompleteSources(d)
    /\ ArrivedGood <=> \A d \in Download : GoodArrivals(d)
BY DEF SourcesComplete, ArrivedGood, CompleteSources, GoodArrivals, HasAll,
       Answering, Serves, Source, NodeAt, Fetching

\* What a download that is fetching knows is well-formed.
LEMMA FetchingKnows ==
    ASSUME SafetyInv, NEW d \in Download, download[d].pc \in Fetching
    PROVE  /\ download[d] \in DownloadRecord /\ LegalDownload(download[d])
           /\ download[d].peer \in Peer /\ download[d].name \in FileName
           /\ download[d].primary \in Address
           /\ SourcesOf(download[d]) \in SUBSET Address
           /\ download[d].meta.chunks \in Seq(Digest)
           /\ download[d].epoch \in [Peer -> Nat]
<1>1. download[d] \in DownloadRecord /\ LegalDownload(download[d])
  BY SafetyInvSplit, DownloadIsLegal DEF LegalDownload
<1>2. /\ download[d].peer \in Peer /\ download[d].name \in FileName
      /\ download[d].primary \in Address
  BY <1>1 DEF LegalDownload, DownloadTyped, Active, DownloadPC, Fetching
<1>3. /\ download[d].avail \in Seq(Address) /\ download[d].meta.chunks \in Seq(Digest)
      /\ download[d].epoch \in [Peer -> Nat]
  BY <1>1 DEF DownloadRecord, Meta
<1>4. Range(download[d].avail) \subseteq Address
  BY <1>3 DEF Range
<1> QED
  BY <1>1, <1>2, <1>3, <1>4 DEF SourcesOf

\* Versions are published and never withdrawn: a file with one version had at
\* most one before (UploadHandler).
LEMMA VersionsGrow ==
    ASSUME SafetyInv, [Next]_vars, NEW n \in FileName
    PROVE  SingleVersion(n)' => SingleVersion(n)
<1>1. uploaded \in [FileName -> SUBSET Seq(Block)]
  BY DEF SafetyInv, TypeOK
<1>2. ASSUME NEW u \in Upload,
             \/ \E p \in Peer, k \in FileName, c \in Content : UploadBegin(u, p, k, c)
             \/ UploadStep(u)
      PROVE  uploaded[n] \subseteq uploaded'[n]
  BY <1>1, <1>2 DEF UploadBegin, UploadStep, UploadStore, UploadAdd, UploadAddRaces
<1>3. ASSUME NEW d \in Download,
             \/ \E p \in Peer, k \in FileName, a \in Address : DownloadBegin(d, p, k, a)
             \/ DownloadStep(d)
      PROVE  uploaded' = uploaded
  BY <1>3, SafetyInvSplit, DownloadOutcome DEF DownloadBegin
<1>4. uploaded[n] \subseteq uploaded'[n]
  BY <1>2, <1>3 DEF Next, FileStep, CrashPeer, fileVars, vars
<1> QED
  BY <1>4 DEF SingleVersion

\* A process that is up after a step still answers for what it answered for
\* before: listeners stay open and chunks stay stored.
LEMMA HavingStays ==
    ASSUME SafetyInv, [Next]_vars, NEW p \in Peer, NEW a \in Address,
           NodeAt(p, a) \in running',
           NEW m, m.chunks \in Seq(Digest), HasAll(p, a, m, listening, chunkData)
    PROVE  HasAll(p, a, m, listening', chunkData')
<1> DEFINE q == NodeAt(p, a)
<1>1. q \in Peer
  BY NodeAtType
<1>2. \A g \in Range(m.chunks) : g \in Digest
  BY DEF Range
<1>3. Keeps(q)
  BY <1>1, NextKeeps
<1>4. \A g \in Range(m.chunks) : chunkData'[q][g] # None
  BY <1>2, <1>3 DEF Keeps, HasAll
<1>5. listening[q] \subseteq listening'[q]
  <2> HIDE DEF q
  <2>1. CASE Discovery \/ UNCHANGED registryVars
    BY <1>1, <2>1, ListenersOpen DEF SafetyInv, TypeOK
  <2>2. ASSUME NEW k \in Peer, CrashPeer(k)
        PROVE  listening[q] \subseteq listening'[q]
    BY <1>1, <2>2 DEF CrashPeer, Stop, SafetyInv, TypeOK, RegistryTypeOK, q
  <2> QED
    BY <2>1, <2>2 DEF Next, vars
<1> QED
  BY <1>4, <1>5 DEF HasAll

\* A source that stands after a step stood before it.
LEMMA StoodBefore ==
    ASSUME SafetyInv, [Next]_vars, NEW d \in Download, EpochPast(d),
           download[d].pc \in Fetching, SameVersion(download[d], download'[d]),
           NEW a \in Address, Stands(d, a)'
    PROVE  Stands(d, a) /\ Source(d, a) \in running'
<1> DEFINE q == Source(d, a)
<1>1. q \in Peer /\ download[d].epoch \in [Peer -> Nat]
  BY FetchingKnows, SourceType
<1>2. q \in running' /\ incarnation'[q] = download[d].epoch[q]
  BY DEF Stands, SameVersion, Source
<1> HIDE DEF q
<1>3. /\ incarnation[q] \in Nat /\ incarnation'[q] \in Nat
      /\ incarnation[q] <= incarnation'[q]
      /\ q \in running \/ incarnation'[q] > incarnation[q]
  BY <1>1, <1>2, ProcessesOfStep DEF SafetyInv, TypeOK
<1>4. download[d].epoch[q] <= incarnation[q] /\ download[d].epoch[q] \in Nat
  BY <1>1 DEF EpochPast, Fetching
<1> QED
  BY <1>2, <1>3, <1>4 DEF Stands, q

\* The sources of a download still have the version, if those that were added
\* have it.
LEMMA CompleteStays ==
    ASSUME SafetyInv, [Next]_vars, NEW d \in Download, EpochPast(d),
           CompleteSources(d), download[d].pc \in Fetching,
           SameVersion(download[d], download'[d]),
           \A a \in SourcesOf(download'[d]) \ SourcesOf(download[d]) :
              /\ a \in Address
              /\ ~raced /\ SingleVersion(download[d].name)
                    => HasAll(download[d].peer, a, download[d].meta, listening, chunkData)
    PROVE  CompleteSources(d)'
<1> DEFINE dl == download[d]
<1>1. /\ download'[d].name = dl.name /\ download'[d].epoch = dl.epoch
      /\ download'[d].meta = dl.meta /\ download'[d].peer = dl.peer
  BY DEF SameVersion
<1>2. /\ dl.name \in FileName /\ dl.meta.chunks \in Seq(Digest)
      /\ SourcesOf(dl) \in SUBSET Address /\ dl.peer \in Peer
  BY FetchingKnows
<1>3. PICK n \in FileName : n = dl.name
  BY <1>2
<1>4. ASSUME ~raced', SingleVersion(n)', NEW a \in SourcesOf(download'[d]),
             Stands(d, a)'
      PROVE  HasAll(dl.peer, a, dl.meta, listening', chunkData')
  <2>1. ~raced /\ SingleVersion(n)
    BY <1>3, <1>4, RacedStays, VersionsGrow
  <2>2. a \in Address
    BY <1>2, <1>4
  <2>3. Stands(d, a) /\ NodeAt(dl.peer, a) \in running'
    BY <1>4, <2>2, StoodBefore DEF Source
  <2>4. HasAll(dl.peer, a, dl.meta, listening, chunkData)
    BY <1>3, <1>4, <2>1, <2>3 DEF CompleteSources
  <2> QED
    BY <1>2, <2>2, <2>3, <2>4, HavingStays
<1> QED
  BY <1>1, <1>3, <1>4 DEF CompleteSources

\* A peer that answers a probe has the whole version: there is no other, and it
\* advertises nothing it cannot serve (downloader.go:64).
LEMMA ProbedHasAll ==
    ASSUME SafetyInv, NEW d \in Download, download[d].pc \in Fetching,
           ~raced, SingleVersion(download[d].name),
           NEW a \in Address, HasFile(download[d].peer, a, download[d].name)
    PROVE  HasAll(download[d].peer, a, download[d].meta, listening, chunkData)
<1> DEFINE n == download[d].name
           p == download[d].peer
           m == sharedFiles[NodeAt(p, a)][n]
<1>1. n \in FileName /\ NodeAt(p, a) \in Peer
  BY FetchingKnows, NodeAtType
<1>2. m # None /\ Serves(p, a)
  BY DEF HasFile
<1>3. PICK c \in uploaded[n] : m = MetaOf(c)
  BY <1>1, <1>2 DEF SafetyInv, SharedIsUploaded
<1>4. PICK e \in uploaded[n] : download[d].meta = MetaOf(e)
  BY DEF SafetyInv, FetchedIsUploaded, Fetching
<1>5. m = download[d].meta
  BY <1>3, <1>4 DEF SingleVersion
<1>6. \A g \in Range(m.chunks) : chunkData[NodeAt(p, a)][g] # None
  BY <1>1, <1>2 DEF SafetyInv, AdvertisedIsServable
<1> QED
  BY <1>2, <1>5, <1>6 DEF HasAll, Serves, NodeAt

\* The node that answered with the metadata has the version it sent.
LEMMA MetaComplete ==
    ASSUME SafetyInv, UNCHANGED registryVars, NEW d \in Download,
           FetchMeta(d) \/ FetchMetaRaces(d)
    PROVE  CompleteSources(d)'
<1> DEFINE dl == download[d]
           m == sharedFiles[Source(d, dl.primary)][dl.name]
           new == [dl EXCEPT !.pc = "peers", !.meta = m, !.epoch = incarnation]
<1>1. /\ dl \in DownloadRecord /\ dl.primary \in Address /\ dl.name \in FileName
      /\ dl.peer \in Peer
  BY SafetyInvSplit, DownloadIsLegal
     DEF FetchMeta, FetchMetaRaces, LegalDownload, DownloadTyped, Active, DownloadPC
<1>2. CASE FetchMetaRaces(d)
  BY <1>2 DEF FetchMetaRaces, CompleteSources
<1>3. CASE FetchMeta(d)
  <2>1. /\ Serves(dl.peer, dl.primary) /\ m # None
        /\ Fail(d) \/ Becomes(d, new)
        /\ chunkData' = chunkData /\ raced' = raced /\ listening' = listening
    BY <1>3 DEF FetchMeta, MetaArrives, Answering, registryVars
  <2>2. CASE Fail(d)
    BY <2>2 DEF Fail, Becomes, Failed, IdleDownload, CompleteSources, Fetching,
                SafetyInv, TypeOK
  <2>3. CASE Becomes(d, new)
    <3>1. download'[d] = new
      BY <2>3 DEF Becomes, SafetyInv, TypeOK
    <3>2. /\ new.pc = "peers" /\ new.peer = dl.peer /\ new.primary = dl.primary
          /\ new.meta = m
      BY <1>1 DEF DownloadRecord
    <3>3. ~raced => HasAll(dl.peer, dl.primary, m, listening, chunkData)
      BY <1>1, <2>1, NodeAtType
         DEF SafetyInv, AdvertisedIsServable, HasAll, Serves, Source, NodeAt
    <3> HIDE DEF new, m
    <3> QED
      BY <2>1, <3>1, <3>2, <3>3 DEF CompleteSources, SourcesOf
  <2> QED
    BY <2>1, <2>2, <2>3
<1> QED
  BY <1>2, <1>3

\* A probe adds no source that lacks the version.
LEMMA ProbeComplete ==
    ASSUME SafetyInv, [Next]_vars, NEW d \in Download, EpochPast(d),
           CompleteSources(d), SameVersion(download[d], download'[d]), ProbePeer(d)
    PROVE  CompleteSources(d)'
<1> DEFINE dl == download[d]
           a == Head(dl.toProbe)
           skipped == [dl EXCEPT !.toProbe = Tail(@)]
           added == [dl EXCEPT !.toProbe = Tail(@), !.avail = Append(@, a)]
<1>1. /\ dl.pc = "probe" /\ dl \in DownloadRecord /\ dl.toProbe # <<>>
      /\ dl.toProbe \in Seq(Address) /\ dl.avail \in Seq(Address)
  BY SafetyInvSplit, DownloadIsLegal DEF ProbePeer, LegalDownload, DownloadRecord
<1>2. a \in Address
  BY <1>1
<1>3. \/ download'[d] = skipped
      \/ download'[d] = added /\ HasFile(dl.peer, a, dl.name)
  BY DEF ProbePeer, Becomes, SafetyInv, TypeOK
<1>4. /\ skipped.pc = "probe" /\ skipped.avail = dl.avail
      /\ added.pc = "probe" /\ added.avail = Append(dl.avail, a)
  BY <1>1 DEF DownloadRecord
<1>5. Range(Append(dl.avail, a)) = Range(dl.avail) \cup {a}
  BY <1>1, <1>2, RangeOfList
<1>6. SourcesOf(dl) = Range(dl.avail)
  BY <1>1 DEF SourcesOf
<1> HIDE DEF skipped, added, a
<1>7. \/ SourcesOf(download'[d]) = SourcesOf(dl)
      \/ SourcesOf(download'[d]) = SourcesOf(dl) \cup {a} /\ HasFile(dl.peer, a, dl.name)
  BY <1>3, <1>4, <1>5, <1>6 DEF SourcesOf
<1>8. ASSUME HasFile(dl.peer, a, dl.name), ~raced, SingleVersion(dl.name)
      PROVE  HasAll(dl.peer, a, dl.meta, listening, chunkData)
  BY <1>1, <1>2, <1>8, ProbedHasAll DEF Fetching
<1> QED
  BY <1>1, <1>2, <1>7, <1>8, CompleteStays DEF Fetching

\* Each step leaves every source of every download complete.
LEMMA CompleteStep ==
    ASSUME SafetyInv, EpochsPast, [Next]_vars, NEW d \in Download, CompleteSources(d)
    PROVE  CompleteSources(d)'
<1> DEFINE dl == download[d]
<1>1. EpochPast(d)
  BY DEF EpochsPast, EpochPast
<1>2. ASSUME SourcesOf(download'[d]) \subseteq SourcesOf(dl), dl.pc \in Fetching,
             SameVersion(dl, download'[d])
      PROVE  CompleteSources(d)'
  BY <1>1, <1>2, CompleteStays
<1>3. CASE download'[d].pc \notin Fetching
  BY <1>3 DEF CompleteSources
<1>4. CASE download'[d] = dl
  BY <1>2, <1>3, <1>4 DEF SameVersion
<1>5. CASE Rests(download'[d])
  BY <1>3, <1>5 DEF Rests, Fetching
<1>6. CASE /\ UNCHANGED registryVars
           /\ \/ \E p \in Peer, n \in FileName, a \in Address : DownloadBegin(d, p, n, a)
              \/ DownloadStep(d)
  <2>1. PICK new : /\ Becomes(d, new)
                   /\ \/ Rests(new)
                      \/ FetchMeta(d) \/ FetchMetaRaces(d)
                      \/ FindPeers(d) /\ SameVersion(dl, new)
                      \/ ProbePeer(d) /\ SameVersion(dl, new)
                      \/ /\ SameSources(dl, new) /\ SameVersion(dl, new)
                         /\ Onward(dl.pc, new.pc)
    BY <1>6, SafetyInvSplit, DownloadMoves
  <2>2. download'[d] = new
    BY <2>1 DEF Becomes, SafetyInv, TypeOK
  <2>3. CASE FetchMeta(d) \/ FetchMetaRaces(d)
    BY <1>6, <2>3, MetaComplete
  <2>4. CASE FindPeers(d) /\ SameVersion(dl, new)
    <3>1. dl.pc = "peers" /\ dl \in DownloadRecord
      BY <2>4, SafetyInvSplit, DownloadIsLegal DEF FindPeers, LegalDownload
    <3>2. new.pc = "probe" /\ new.avail = <<dl.primary>>
      BY <2>2, <2>4, <3>1 DEF FindPeers, Becomes, SafetyInv, TypeOK, DownloadRecord
    <3>3. Range(<<dl.primary>>) = {dl.primary}
      BY DEF Range
    <3>4. SourcesOf(new) = SourcesOf(dl)
      BY <3>1, <3>2, <3>3 DEF SourcesOf
    <3> QED
      BY <1>2, <2>2, <2>4, <3>1, <3>4 DEF Fetching
  <2>5. CASE ProbePeer(d) /\ SameVersion(dl, new)
    BY <1>1, <2>2, <2>5, ProbeComplete
  <2>6. CASE SameSources(dl, new) /\ SameVersion(dl, new) /\ Onward(dl.pc, new.pc)
    <3>1. CASE new.pc \in Fetching
      <4>1. dl.pc \in Fetching /\ SourcesOf(new) = SourcesOf(dl)
        BY <2>6, <3>1 DEF SameSources, Onward, Fetching, SourcesOf
      <4> QED
        BY <1>2, <2>2, <2>6, <4>1
    <3> QED
      BY <1>3, <2>2, <3>1
  <2> QED
    BY <1>5, <2>1, <2>2, <2>3, <2>4, <2>5, <2>6
<1> QED
  BY <1>4, <1>5, <1>6, StepOfDownload

\* A download that nothing disturbs was not disturbed before.
LEMMA UndisturbedBefore ==
    ASSUME SafetyInv, [Next]_vars, NEW d \in Download, EpochPast(d),
           download[d].pc = "fetch", SameVersion(download[d], download'[d]),
           download'[d].avail = download[d].avail, Undisturbed(d)'
    PROVE  Undisturbed(d)
<1> DEFINE dl == download[d]
<1>1. dl.pc \in Fetching /\ dl.name \in FileName /\ SourcesOf(dl) \in SUBSET Address
  BY FetchingKnows DEF Fetching
<1>2. /\ download'[d].name = dl.name /\ download'[d].epoch = dl.epoch
      /\ SourcesOf(dl) = Range(dl.avail)
  BY DEF SameVersion, SourcesOf
<1>3. PICK n \in FileName : n = dl.name
  BY <1>1
<1>4. ~raced /\ Reliable /\ SingleVersion(n)
  BY <1>2, <1>3, RacedStays, VersionsGrow DEF Undisturbed
<1>5. ASSUME NEW a \in Range(dl.avail) PROVE Stands(d, a)
  <2>1. a \in Address /\ Stands(d, a)'
    BY <1>1, <1>2, <1>5 DEF Undisturbed
  <2> QED
    BY <1>1, <1>2, <2>1, StoodBefore
<1> QED
  BY <1>3, <1>4, <1>5 DEF Undisturbed

\* The peer a chunk is asked of is one of the sources.
LEMMA AssignedSource ==
    ASSUME SafetyInv, NEW d \in Download, NEW i \in download[d].pending
    PROVE  /\ download[d].pc = "fetch" /\ download[d] \in DownloadRecord
           /\ i \in DOMAIN download[d].meta.chunks
           /\ download[d].meta.chunks[i] \in Digest
           /\ Assigned(d, i) \in Range(download[d].avail)
           /\ Assigned(d, i) \in Address
<1> DEFINE dl == download[d]
           k == Len(dl.avail)
<1>1. /\ dl.pc = "fetch" /\ LegalDownload(dl) /\ Accounted(dl) /\ dl \in DownloadRecord
  BY SafetyInvSplit, FetchingLegal DEF LegalDownload
<1>2. /\ dl.avail \in Seq(Address) /\ dl.avail # <<>> /\ dl.meta.chunks \in Seq(Digest)
      /\ i \in DOMAIN dl.meta.chunks
  BY <1>1 DEF LegalDownload, DownloadTyped, DownloadRecord, Meta, Accounted
<1>3. k \in Nat \ {0} /\ DOMAIN dl.avail = 1 .. k /\ i - 1 \in Nat
  BY <1>2
<1>4. (i - 1) % k \in 0 .. k - 1
  BY <1>3, RemainderBound
<1>5. ((i - 1) % k) + 1 \in DOMAIN dl.avail
  BY <1>3, <1>4
<1>6. Assigned(d, i) \in Range(dl.avail) /\ Assigned(d, i) \in Address
  BY <1>2, <1>5 DEF Assigned, Range
<1> QED
  BY <1>1, <1>2, <1>6

\* A chunk that was asked for arrives as it is stored, unless it is damaged on
\* its way (downloader.go:176).
LEMMA FetchChunkArrives ==
    ASSUME SafetyInv, NEW d \in Download, EpochPast(d), [Next]_vars,
           GoodArrivals(d), NEW i \in download[d].pending, FetchChunk(d, i)
    PROVE  GoodArrivals(d)'
<1> DEFINE dl == download[d]
           b == chunkData[Source(d, Assigned(d, i))][dl.meta.chunks[i]]
<1>1. /\ dl.pc = "fetch" /\ dl \in DownloadRecord
      /\ Source(d, Assigned(d, i)) \in Peer /\ dl.meta.chunks[i] \in Digest
  BY AssignedSource, FetchingKnows, SourceType DEF Fetching
<1>2. b # None /\ Sum256[b] = dl.meta.chunks[i]
  BY <1>1 DEF FetchChunk, SafetyInv, StoreIsContentAddressed
<1>3. PICK r \in IF "corrupt" \in Faults THEN Block ELSE {b} :
          Becomes(d, [dl EXCEPT !.pending = @ \ {i},
                                !.replies = @ \cup {[index |-> i, data |-> r]}])
  BY DEF FetchChunk
<1> DEFINE new == [dl EXCEPT !.pending = @ \ {i},
                             !.replies = @ \cup {[index |-> i, data |-> r]}]
<1>4. download'[d] = new
  BY <1>3 DEF Becomes, SafetyInv, TypeOK
<1>5. /\ new.pc = "fetch" /\ new.replies = dl.replies \cup {[index |-> i, data |-> r]}
      /\ new.results = dl.results /\ new.meta = dl.meta /\ new.avail = dl.avail
      /\ SameVersion(dl, new)
  BY <1>1 DEF SameVersion, DownloadRecord
<1>6. Reliable => r = b
  BY <1>3 DEF Reliable
<1> HIDE DEF new, b
<1>7. Undisturbed(d)' => Undisturbed(d)
  BY <1>1, <1>4, <1>5, UndisturbedBefore
<1>8. Reliable => \A x \in new.replies : Sum256[x.data] = dl.meta.chunks[x.index]
  BY <1>1, <1>2, <1>5, <1>6 DEF GoodArrivals
<1> QED
  BY <1>1, <1>4, <1>5, <1>7, <1>8 DEF GoodArrivals

\* A call for a chunk fails only if something disturbed the download
\* (downloader.go:176-183).
LEMMA FetchChunkFailsForCause ==
    ASSUME SafetyInv, NEW d \in Download, EpochPast(d), [Next]_vars,
           GoodArrivals(d), CompleteSources(d),
           NEW i \in download[d].pending, FetchChunkFails(d, i)
    PROVE  GoodArrivals(d)'
<1> DEFINE dl == download[d]
           a == Assigned(d, i)
           new == [dl EXCEPT !.pending = @ \ {i}, !.results = Sent(@, i, None)]
<1>1. /\ dl.pc = "fetch" /\ dl \in DownloadRecord /\ a \in Range(dl.avail)
      /\ i \in DOMAIN dl.meta.chunks
  BY AssignedSource
<1>2. download'[d] = new
  BY DEF FetchChunkFails, Becomes, SafetyInv, TypeOK
<1>3. /\ new.pc = "fetch" /\ new.replies = dl.replies /\ new.meta = dl.meta
      /\ new.avail = dl.avail /\ SameVersion(dl, new)
  BY <1>1 DEF SameVersion, DownloadRecord
<1> HIDE DEF new
<1>4. ~Undisturbed(d)
  <2> SUFFICES ASSUME Undisturbed(d) PROVE FALSE
    OBVIOUS
  <2>1. HasAll(dl.peer, a, dl.meta, listening, chunkData)
    BY <1>1 DEF Undisturbed, CompleteSources, SourcesOf, Fetching
  <2>2. "loss" \notin Faults
    BY DEF Undisturbed, Reliable
  <2>3. dl.meta.chunks[i] \in Range(dl.meta.chunks)
    BY <1>1 DEF Range
  <2> QED
    BY <2>1, <2>2, <2>3
       DEF FetchChunkFails, CallFails, HasAll, Serves, Source, NodeAt
<1>5. ~Undisturbed(d)'
  BY <1>1, <1>2, <1>3, <1>4, UndisturbedBefore
<1> QED
  BY <1>1, <1>2, <1>3, <1>5 DEF GoodArrivals

\* A chunk that arrived undamaged passes the check of downloader.go:189.
LEMMA DownloadChunkGood ==
    ASSUME SafetyInv, NEW d \in Download, EpochPast(d), [Next]_vars,
           GoodArrivals(d), NEW r \in download[d].replies, DownloadChunk(d, r)
    PROVE  GoodArrivals(d)'
<1> DEFINE dl == download[d]
           good == Verified(r.data, dl.meta.chunks[r.index])
           x == IF good THEN r.data ELSE None
           new == [dl EXCEPT !.replies = @ \ {r}, !.results = Sent(@, r.index, x)]
<1>1. /\ dl.pc = "fetch" /\ dl \in DownloadRecord
  BY SafetyInvSplit, FetchingLegal DEF LegalDownload
<1>2. download'[d] = new
  BY DEF DownloadChunk, Becomes, SafetyInv, TypeOK
<1>3. /\ new.pc = "fetch" /\ new.replies = dl.replies \ {r} /\ new.meta = dl.meta
      /\ new.results = Append(dl.results, [index |-> r.index, data |-> x])
      /\ new.avail = dl.avail /\ SameVersion(dl, new)
  BY <1>1 DEF SameVersion, DownloadRecord, Sent
<1>4. r.data \in Block /\ dl.results \in Seq(ChunkResult)
  BY <1>1 DEF DownloadRecord, ChunkReply
<1>5. Reliable => x # None
  BY <1>1, <1>4, NoneAssumption DEF GoodArrivals, Verified
<1> HIDE DEF new, x
<1>6. Undisturbed(d)' => Undisturbed(d)
  BY <1>1, <1>2, <1>3, UndisturbedBefore
<1>7. Undisturbed(d) => \A k \in DOMAIN new.results : new.results[k].data # None
  <2>1. \A k \in DOMAIN new.results :
            \/ k \in DOMAIN dl.results /\ new.results[k] = dl.results[k]
            \/ new.results[k] = [index |-> r.index, data |-> x]
    BY <1>3, <1>4
  <2> QED
    BY <1>1, <1>5, <2>1 DEF GoodArrivals, Undisturbed
<1> QED
  BY <1>1, <1>2, <1>3, <1>6, <1>7 DEF GoodArrivals

\* Where the steps of a download lead.
LEMMA StageOfStep ==
    ASSUME SafetyInv, NEW d \in Download,
           \/ \E p \in Peer, n \in FileName, a \in Address : DownloadBegin(d, p, n, a)
           \/ DownloadStep(d)
    PROVE  \/ /\ Stage(download'[d].pc) > Stage(download[d].pc)
              /\ download'[d].pc # "fetch"
              /\ download'[d].pc = "failed" => download[d].pc = "meta"
           \/ ProbePeer(d) /\ download'[d].pc = "probe"
           \/ /\ LaunchChunks(d) /\ download'[d].pc = "fetch"
              /\ download'[d].replies = {} /\ download'[d].results = <<>>
           \/ /\ download'[d].pc = "fetch"
              /\ \/ \E i \in download[d].pending : FetchChunk(d, i) \/ FetchChunkFails(d, i)
                 \/ \E r \in download[d].replies : DownloadChunk(d, r)
           \/ /\ CollectResults(d) /\ ~Usable(download[d])
              /\ download'[d].pc = "failed"
           \/ SaveFails(d) /\ download'[d].pc = "failed"
<1> DEFINE dl == download[d]
           new == download'[d]
<1>1. dl \in DownloadRecord /\ LegalDownload(dl)
  BY SafetyInvSplit, DownloadIsLegal DEF LegalDownload
<1>2. \A x : Becomes(d, x) => new = x
  BY DEF Becomes, SafetyInv, TypeOK
<1>3. Fail(d) => new.pc = "failed"
  BY <1>2 DEF Fail, Failed, IdleDownload
<1> DEFINE Quietly == /\ Stage(new.pc) > Stage(dl.pc) /\ new.pc # "fetch"
                      /\ new.pc = "failed" => dl.pc = "meta"
<1>4. ASSUME NEW m, MetaArrives(d, m) PROVE new.pc \in {"peers", "failed"}
  <2>1. CASE Fail(d)
    BY <1>3, <2>1
  <2>2. CASE Becomes(d, [dl EXCEPT !.pc = "peers", !.meta = m, !.epoch = incarnation])
    BY <1>1, <1>2, <2>2 DEF DownloadRecord
  <2> QED
    BY <1>4, <2>1, <2>2 DEF MetaArrives
<1>5. ASSUME \E p \in Peer, n \in FileName, a \in Address : DownloadBegin(d, p, n, a) PROVE Quietly
  <2>1. dl.pc = "idle" /\ new.pc = "meta"
    BY <1>2, <1>5 DEF DownloadBegin, IdleDownload
  <2> QED
    BY <2>1 DEF Stage
<1>6. ASSUME FetchMeta(d) \/ FetchMetaRaces(d) \/ FetchMetaFails(d) PROVE Quietly
  <2>1. dl.pc = "meta" /\ new.pc \in {"peers", "failed"}
    BY <1>3, <1>4, <1>6 DEF FetchMeta, FetchMetaRaces, FetchMetaFails
  <2> QED
    BY <2>1 DEF Stage
<1>7. ASSUME FindPeers(d) PROVE Quietly
  <2>1. dl.pc = "peers" /\ new.pc = "probe"
    BY <1>1, <1>2, <1>7 DEF FindPeers, DownloadRecord
  <2> QED
    BY <2>1 DEF Stage
<1>8. CASE ProbePeer(d)
  <2> DEFINE added == [dl EXCEPT !.toProbe = Tail(@), !.avail = Append(@, Head(dl.toProbe))]
             skipped == [dl EXCEPT !.toProbe = Tail(@)]
  <2>1. dl.pc = "probe" /\ added.pc = dl.pc /\ skipped.pc = dl.pc
    BY <1>1, <1>8 DEF ProbePeer, DownloadRecord
  <2>2. new = added \/ new = skipped
    BY <1>2, <1>8 DEF ProbePeer
  <2> QED
    BY <1>8, <2>1, <2>2
<1>9. CASE LaunchChunks(d)
  BY <1>1, <1>2, <1>9 DEF LaunchChunks, LegalDownload, DownloadTyped, DownloadRecord
<1>10. ASSUME NEW i \in dl.pending, FetchChunk(d, i) \/ FetchChunkFails(d, i)
       PROVE  new.pc = "fetch"
  <2>1. dl.pc = "fetch"
    BY AssignedSource
  <2>2. CASE FetchChunk(d, i)
    <3>1. PICK r : Becomes(d, [dl EXCEPT !.pending = @ \ {i},
                                         !.replies = @ \cup {[index |-> i, data |-> r]}])
      BY <2>2 DEF FetchChunk
    <3> QED
      BY <1>1, <1>2, <2>1, <3>1 DEF DownloadRecord
  <2>3. CASE FetchChunkFails(d, i)
    BY <1>1, <1>2, <2>1, <2>3 DEF FetchChunkFails, DownloadRecord
  <2> QED
    BY <1>10, <2>2, <2>3
<1>11. ASSUME NEW r \in dl.replies, DownloadChunk(d, r) PROVE new.pc = "fetch"
  <2>1. dl.pc = "fetch"
    BY <1>11, SafetyInvSplit, FetchingLegal
  <2> QED
    BY <1>1, <1>2, <1>11, <2>1 DEF DownloadChunk, DownloadRecord
<1>12. CASE CollectResults(d)
  <2>1. ASSUME Usable(dl) PROVE Quietly
    <3>1. dl.pc = "fetch" /\ new.pc = "register"
      BY <1>1, <1>2, <1>12, <2>1 DEF CollectResults, Collected, DownloadRecord
    <3> QED
      BY <3>1 DEF Stage
  <2>2. CASE ~Usable(dl)
    BY <1>3, <1>12, <2>2 DEF CollectResults
  <2> QED
    BY <2>1, <2>2
<1>13. ASSUME RegisterDownload(d) \/ RegisterDownloadRaces(d) \/ SaveOpen(d)
       PROVE  Quietly
  <2>1. \/ dl.pc = "register" /\ new.pc = "open"
        \/ dl.pc = "open" /\ new.pc = "write"
    BY <1>1, <1>2, <1>13 DEF RegisterDownload, RegisterDownloadRaces, SaveOpen,
                             DownloadRecord
  <2> QED
    BY <2>1 DEF Stage
<1>14. ASSUME SaveWrite(d) PROVE Quietly
  <2>1. dl.pc = "write" /\ new.pc = "ok"
    BY <1>2, <1>14 DEF SaveWrite, Succeeded, IdleDownload
  <2> QED
    BY <2>1 DEF Stage
<1>15. CASE SaveFails(d)
  BY <1>3, <1>15 DEF SaveFails
<1>16. CASE DownloadStep(d)
  BY <1>6, <1>7, <1>8, <1>9, <1>10, <1>11, <1>12, <1>13, <1>14, <1>15, <1>16
     DEF DownloadStep
<1> QED
  BY <1>5, <1>16

\* Each step leaves the answers of every download as good as its network is.
LEMMA ArrivalsStep ==
    ASSUME SafetyInv, EpochsPast, [Next]_vars, NEW d \in Download,
           CompleteSources(d), GoodArrivals(d)
    PROVE  GoodArrivals(d)'
<1> DEFINE dl == download[d]
<1>1. EpochPast(d)
  BY DEF EpochsPast, EpochPast
<1>2. CASE download'[d].pc # "fetch"
  BY <1>2 DEF GoodArrivals
<1>3. CASE download'[d] = dl /\ dl.pc = "fetch"
  <2>1. Undisturbed(d)' => Undisturbed(d)
    BY <1>1, <1>3, UndisturbedBefore DEF SameVersion
  <2> QED
    BY <1>3, <2>1 DEF GoodArrivals
<1>4. CASE Rests(download'[d])
  BY <1>2, <1>4 DEF Rests
<1>5. CASE /\ download'[d].pc = "fetch"
           /\ download'[d].replies = {} /\ download'[d].results = <<>>
  BY <1>5 DEF GoodArrivals
<1>6. CASE \E i \in dl.pending : FetchChunk(d, i) \/ FetchChunkFails(d, i)
  BY <1>1, <1>6, FetchChunkArrives, FetchChunkFailsForCause
<1>7. CASE \E r \in dl.replies : DownloadChunk(d, r)
  BY <1>1, <1>7, DownloadChunkGood
<1>8. CASE /\ UNCHANGED registryVars
           /\ \/ \E p \in Peer, n \in FileName, a \in Address : DownloadBegin(d, p, n, a)
              \/ DownloadStep(d)
  BY <1>2, <1>5, <1>6, <1>7, <1>8, StageOfStep
<1> QED
  BY <1>2, <1>3, <1>4, <1>8, StepOfDownload

\* CauseInv is an inductive invariant of the swarm.
THEOREM CauseInvHolds == Spec => []CauseInv
<1>1. SwarmInit => SourcesComplete /\ ArrivedGood
  <2> SUFFICES ASSUME SwarmInit PROVE SourcesComplete /\ ArrivedGood
    OBVIOUS
  <2>1. \A d \in Download : download[d].pc = "idle"
    BY DEF SwarmInit, IdleDownload
  <2> QED
    BY <2>1 DEF SourcesComplete, ArrivedGood
<1>2. SourcesInv /\ SourcesComplete /\ ArrivedGood /\ [Next]_vars
      => SourcesComplete' /\ ArrivedGood'
  <2> SUFFICES ASSUME SourcesInv, SourcesComplete, ArrivedGood, [Next]_vars
               PROVE  SourcesComplete' /\ ArrivedGood'
    OBVIOUS
  <2>1. ASSUME NEW d \in Download PROVE CompleteSources(d)' /\ GoodArrivals(d)'
    <3>1. CompleteSources(d) /\ GoodArrivals(d)
      BY CausesOfEach
    <3> QED
      BY <3>1, CompleteStep, ArrivalsStep DEF SourcesInv
  <2>2. (\A d \in Download : CompleteSources(d))' /\ (\A d \in Download : GoodArrivals(d))'
    BY <2>1
  <2>3. /\ SourcesComplete' <=> (\A d \in Download : CompleteSources(d))'
        /\ ArrivedGood' <=> (\A d \in Download : GoodArrivals(d))'
    BY CausesOfEach, PTL
  <2> QED
    BY <2>2, <2>3
<1> QED
  BY <1>1, <1>2, SourcesInvHolds, PTL DEF Spec, CauseInv

\* When the last result of an undisturbed download is there, the file can be put
\* together: every chunk has one result, and none is an error
\* (downloader.go:138-145).
LEMMA UndisturbedIsUsable ==
    ASSUME CauseInv, NEW d \in Download, Collected(d), Undisturbed(d)
    PROVE  Usable(download[d])
<1> DEFINE dl == download[d]
           n == Len(dl.meta.chunks)
<1>1. dl.pc = "fetch" /\ LegalDownload(dl)
  BY SafetyInvSplit, DownloadIsLegal DEF CauseInv, SourcesInv, Collected
<1>2. /\ Complete(dl.results, 1, n) /\ dl.results \in Seq(ChunkResult) /\ n \in Nat
      /\ DOMAIN dl.meta.chunks = 1 .. n
  BY <1>1, CollectedIsComplete DEF Collected
<1>3. Len(dl.results) = n
  BY <1>2, CompleteLen
<1>4. dl.meta.totalChunks = n
  <2>1. PICK c \in uploaded[dl.name] : dl.meta = MetaOf(c)
    BY <1>1 DEF CauseInv, SourcesInv, SafetyInv, FetchedIsUploaded, Undisturbed
  <2>2. dl.name \in FileName
    BY <1>1 DEF LegalDownload, DownloadTyped, Active, DownloadPC
  <2>3. c \in Seq(Block)
    BY <2>1, <2>2 DEF CauseInv, SourcesInv, SafetyInv, TypeOK
  <2>4. Len(c) \in Nat /\ Len(MetaOf(c).chunks) = Len(c)
    BY <2>3 DEF MetaOf
  <2> QED
    BY <2>1, <2>4 DEF MetaOf
<1>5. \A r \in Range(dl.results) : r.data # None
  BY <1>1 DEF CauseInv, ArrivedGood, Range
<1> QED
  BY <1>3, <1>4, <1>5 DEF Usable

\* A download that has its metadata does not fail because a peer answered the
\* probe and then had no chunk, nor because something else went on in the swarm.
THEOREM DownloadsFailForCause == Spec => DownloadFailsForCause
<1>1. ASSUME CauseInv, [Next]_vars, NEW d \in Download,
             download[d].pc \in Active \ {"meta"}, download'[d].pc = "failed"
      PROVE  \/ download[d].peer \notin running'
             \/ download[d].pc \in {"open", "write"} /\ "save" \in Faults
             \/ download[d].pc = "fetch" /\ ~Undisturbed(d)
  <2>1. SafetyInv /\ download'[d] # download[d] /\ download[d].pc # "idle"
    BY <1>1 DEF CauseInv, SourcesInv, Active
  <2>2. \/ download[d].peer \notin running'
        \/ CollectResults(d) /\ ~Usable(download[d])
        \/ SaveFails(d)
    BY <1>1, <2>1, StepOfDownload, StageOfStep
  <2>3. CASE CollectResults(d) /\ ~Usable(download[d])
    BY <1>1, <2>3, UndisturbedIsUsable DEF CollectResults, Collected
  <2>4. CASE SaveFails(d)
    BY <2>4 DEF SaveFails
  <2> QED
    BY <2>2, <2>3, <2>4
<1>2. CauseInv /\ [Next]_vars =>
         \A d \in Download :
            (download[d].pc \in Active \ {"meta"} /\ download'[d].pc = "failed") =>
               \/ download[d].peer \notin running'
               \/ download[d].pc \in {"open", "write"} /\ "save" \in Faults
               \/ download[d].pc = "fetch" /\ ~Undisturbed(d)
  BY <1>1
<1> QED
  BY <1>2, CauseInvHolds, PTL DEF Spec, DownloadFailsForCause

\* A step of a download brings it nearer to its end.
LEMMA StepAdvances ==
    ASSUME SafetyInv, NEW d \in Download,
           \/ \E p \in Peer, n \in FileName, a \in Address : DownloadBegin(d, p, n, a)
           \/ DownloadStep(d)
    PROVE  Advanced(download[d], download'[d])
<1> DEFINE dl == download[d]
           new == download'[d]
<1>1. dl \in DownloadRecord
  BY DEF SafetyInv, TypeOK
<1>2. \A x : Becomes(d, x) => new = x
  BY DEF Becomes, SafetyInv, TypeOK
<1>3. CASE Stage(new.pc) > Stage(dl.pc)
  BY <1>3 DEF Advanced
<1>4. CASE ProbePeer(d) /\ new.pc = "probe"
  <2> DEFINE added == [dl EXCEPT !.toProbe = Tail(@), !.avail = Append(@, Head(dl.toProbe))]
             skipped == [dl EXCEPT !.toProbe = Tail(@)]
  <2>1. new = added \/ new = skipped
    BY <1>2, <1>4 DEF ProbePeer
  <2>2. added.toProbe = Tail(dl.toProbe) /\ skipped.toProbe = Tail(dl.toProbe)
    BY <1>1 DEF DownloadRecord
  <2> HIDE DEF added, skipped
  <2> QED
    BY <1>4, <2>1, <2>2 DEF ProbePeer, Advanced
<1>5. CASE LaunchChunks(d) /\ new.pc = "fetch"
  BY <1>5 DEF LaunchChunks, Stage, Advanced
<1>6. ASSUME NEW i \in dl.pending, FetchChunk(d, i) \/ FetchChunkFails(d, i),
             new.pc = "fetch"
      PROVE  Advanced(dl, new)
  <2>1. dl.pc = "fetch"
    BY AssignedSource
  <2>2. CASE FetchChunk(d, i)
    <3>1. PICK r : Becomes(d, [dl EXCEPT !.pending = @ \ {i},
                                         !.replies = @ \cup {[index |-> i, data |-> r]}])
      BY <2>2 DEF FetchChunk
    <3>2. new.pending = dl.pending \ {i}
      BY <1>1, <1>2, <3>1 DEF DownloadRecord
    <3> QED
      BY <1>6, <2>1, <3>2 DEF Advanced
  <2>3. CASE FetchChunkFails(d, i)
    <3>1. new.pending = dl.pending \ {i}
      BY <1>1, <1>2, <2>3 DEF FetchChunkFails, DownloadRecord
    <3> QED
      BY <1>6, <2>1, <3>1 DEF Advanced
  <2> QED
    BY <1>6, <2>2, <2>3
<1>7. ASSUME NEW r \in dl.replies, DownloadChunk(d, r), new.pc = "fetch"
      PROVE  Advanced(dl, new)
  <2>1. dl.pc = "fetch"
    BY <1>7, SafetyInvSplit, FetchingLegal
  <2>2. new.pending = dl.pending /\ new.replies = dl.replies \ {r}
    BY <1>1, <1>2, <1>7 DEF DownloadChunk, DownloadRecord
  <2> QED
    BY <1>7, <2>1, <2>2 DEF Advanced
<1>8. CASE \/ CollectResults(d) /\ new.pc = "failed"
           \/ SaveFails(d) /\ new.pc = "failed"
  <2>1. dl.pc \in {"fetch", "open", "write"}
    BY <1>8 DEF CollectResults, Collected, SaveFails
  <2>2. Stage(new.pc) > Stage(dl.pc)
    BY <1>8, <2>1 DEF Stage
  <2> QED
    BY <2>2, <1>3
<1> QED
  BY <1>3, <1>4, <1>5, <1>6, <1>7, <1>8, StageOfStep

\* No download goes back or round in circles: each step of it ends a stage, one
\* turn of the loop of findPeersWithFile, or a step of one chunk's goroutine, and
\* the list of peers and the chunks of a file are finite.
THEOREM DownloadsAdvance == Spec => DownloadAdvances
<1>1. ASSUME SafetyInv, [Next]_vars, NEW d \in Download
      PROVE  download'[d] = download[d] \/ Advanced(download[d], download'[d])
  <2> DEFINE dl == download[d]
             new == download'[d]
  <2>1. ASSUME NEW p \in Peer, CrashPeer(p)
        PROVE  new = dl \/ Advanced(dl, new)
    <3>1. new = dl \/ (dl.pc \in Active /\ new.pc = "failed")
      BY <2>1 DEF CrashPeer, Failed, IdleDownload
    <3> QED
      BY <3>1 DEF Active, DownloadPC, Stage, Advanced
  <2>2. ASSUME NEW e \in Download, e # d,
               \/ \E p \in Peer, n \in FileName, a \in Address : DownloadBegin(e, p, n, a)
               \/ DownloadStep(e)
        PROVE  new = dl
    <3>1. \E x : Becomes(e, x)
      BY <1>1, <2>2, SafetyInvSplit, DownloadMoves
    <3> QED
      BY <1>1, <2>2, <3>1 DEF Becomes, SafetyInv, TypeOK
  <2>3. ASSUME NEW u \in Upload,
               \/ \E p \in Peer, n \in FileName, c \in Content : UploadBegin(u, p, n, c)
               \/ UploadStep(u)
        PROVE  new = dl
    BY <2>3 DEF UploadBegin, UploadStep, UploadStore, UploadAdd, UploadAddRaces
  <2>4. CASE UNCHANGED fileVars
    BY <2>4 DEF fileVars
  <2>5. CASE FileStep
    BY <1>1, <2>2, <2>3, <2>5, StepAdvances DEF FileStep
  <2> QED
    BY <1>1, <2>1, <2>4, <2>5 DEF Next, vars
<1>2. SafetyInv /\ [Next]_vars =>
         \A d \in Download :
            download'[d] = download[d] \/ Advanced(download[d], download'[d])
  BY <1>1
<1> QED
  BY <1>2, SafetyInvHolds, PTL DEF Spec, DownloadAdvances

-----------------------------------------------------------------------------
(***************************************************************************)
(* Browsing.                                                               *)
(***************************************************************************)
\* A browse changes nothing in the swarm (BrowseFilesHandler only reads).
LEMMA BrowseStepsSwarm ==
    ASSUME [BrowseNext]_browseVars
    PROVE  [Next]_vars
BY DEF BrowseNext, BrowseCrash, browseVars, Next

\* A swarm whose users browse is a swarm: what holds of the one holds of the
\* other.
THEOREM BrowsingIsHarmless == BrowseSpec => Spec
<1>1. BrowseInit => SwarmInit
  BY DEF BrowseInit
<1> QED
  BY <1>1, BrowseStepsSwarm, PTL DEF BrowseSpec, Spec

\* The addresses a node knows, and those of them, but its own, at which it is
\* offered a file of each name.
Known(p) == Range(registry[p])
Offers(p) == [n \in FileName |-> Offered(p, n)]

\* A request whose numbers promise something.
Counting(br) == br.pc \in BrowseActive \cup {"done"} /\ ~br.disturbed

\* BrowsePlaces for one record, where known are the addresses its node knows.
GoodPlace(br, known) ==
    /\ br.pc \in BrowseActive \cup {"done"} => br.peer \in Peer
    /\ br.pc \in BrowseActive => Range(br.toAsk) \subseteq known
    /\ Distinct(br.toAsk)
    /\ br.pc = "tally" => br.toAsk # <<>> /\ Head(br.toAsk) # HTTPAddress(br.peer)
    /\ br.pc \in {"idle", "done", "failed"} => br.toAsk = <<>>

\* TallyBetween and HeardIsShared for one record and one file, which is offered
\* at the addresses offers.
GoodCount(br, n, offers) ==
    /\ Cardinality(br.offered[n] \ Range(br.toAsk)) <= br.count[n]
    /\ br.count[n] <= Cardinality(offers \ Range(br.toAsk))
    /\ br.offered[n] \subseteq offers
    /\ br.first[n] # None => br.first[n] \in offers
    /\ br.pc = "tally" =>
          /\ n \in br.listed => Head(br.toAsk) \in offers
          /\ Head(br.toAsk) \in br.offered[n] => n \in br.listed

GoodBrowse(br, known, offers) ==
    /\ br \in BrowseRecord
    /\ GoodPlace(br, known)
    /\ Counting(br) => \A n \in FileName : GoodCount(br, n, offers[n])

Good(w) == GoodBrowse(browse[w], Known(browse[w].peer), Offers(browse[w].peer))

\* BrowseInv is that every record is good.
LEMMA BrowseInvSplit ==
    BrowseInv <=> /\ SafetyInv
                  /\ RegistryInv
                  /\ BrowseTypeOK
                  /\ \A w \in BrowseRequest : Good(w)
<1>1. BrowsePlaces <=> \A w \in BrowseRequest :
          GoodPlace(browse[w], Known(browse[w].peer))
  BY DEF BrowsePlaces, GoodPlace, Known, IsSelf, Asked
<1>2. TallyBetween /\ HeardIsShared <=>
        \A w \in BrowseRequest : Counting(browse[w]) =>
           \A n \in FileName : GoodCount(browse[w], n, Offers(browse[w].peer)[n])
  BY DEF TallyBetween, HeardIsShared, GoodCount, Counting, Heard, Left, Asked, Offers
<1>3. BrowseTypeOK => \A w \in BrowseRequest : browse[w] \in BrowseRecord
  BY DEF BrowseTypeOK
<1> QED
  BY <1>1, <1>2, <1>3 DEF BrowseInv, Good, GoodBrowse
-----------------------------------------------------------------------------
\* Sets of the addresses in a finite set can be counted.
LEMMA Counted ==
    ASSUME NEW K, IsFiniteSet(K), NEW S \in SUBSET K
    PROVE  /\ IsFiniteSet(S) /\ Cardinality(S) \in Nat
           /\ \A T \in SUBSET S : Cardinality(T) <= Cardinality(S)
           /\ \A a : a \notin S => Cardinality(S \cup {a}) = Cardinality(S) + 1
<1>1. IsFiniteSet(S)
  BY FS_Subset
<1>2. \A T \in SUBSET S : Cardinality(T) <= Cardinality(S)
  BY <1>1, FS_Subset
<1>3. \A a : a \notin S => Cardinality(S \cup {a}) = Cardinality(S) + 1
  BY <1>1, FS_AddElement
<1> QED
  BY <1>1, <1>2, <1>3, FS_CardinalityType

\* A node knows finitely many addresses, and is offered files at some of them.
LEMMA KnownFinite ==
    RegistryTypeOK =>
       \A p \in Peer : /\ IsFiniteSet(Known(p))
                       /\ \A n \in FileName : Offers(p)[n] \in SUBSET Known(p)
<1> SUFFICES ASSUME RegistryTypeOK, NEW p \in Peer
             PROVE  /\ IsFiniteSet(Known(p))
                    /\ \A n \in FileName : Offers(p)[n] \in SUBSET Known(p)
  OBVIOUS
<1>1. registry[p] \in Seq(Address)
  BY DEF RegistryTypeOK
<1>2. IsFiniteSet(DOMAIN registry[p])
  BY <1>1, FS_Interval
<1>3. registry[p] \in Surjection(DOMAIN registry[p], Range(registry[p]))
  BY <1>1 DEF Surjection, Range
<1>4. IsFiniteSet(Known(p))
  BY <1>2, <1>3, FS_Surjection DEF Known
<1>5. \A n \in FileName : Offers(p)[n] \in SUBSET Known(p)
  BY DEF Offers, Offered, Known
<1> QED
  BY <1>4, <1>5

\* What holds of a browse stays true when more is known and shared.
LEMMA GoodBrowseGrows ==
    ASSUME NEW br, NEW known, NEW offers, NEW known2, NEW offers2,
           GoodBrowse(br, known, offers),
           br.pc \in BrowseActive \cup {"done"} =>
              /\ known \subseteq known2 /\ IsFiniteSet(known2)
              /\ \A n \in FileName : offers[n] \subseteq offers2[n]
                                     /\ offers2[n] \in SUBSET known2
    PROVE  GoodBrowse(br, known2, offers2)
<1>1. GoodPlace(br, known2)
  BY DEF GoodBrowse, GoodPlace
<1>2. ASSUME Counting(br), NEW n \in FileName PROVE GoodCount(br, n, offers2[n])
  <2>1. /\ GoodCount(br, n, offers[n]) /\ offers[n] \subseteq offers2[n]
        /\ offers2[n] \in SUBSET known2 /\ IsFiniteSet(known2) /\ br.count[n] \in Nat
    BY <1>2 DEF GoodBrowse, Counting, BrowseRecord
  <2> DEFINE before == offers[n] \ Range(br.toAsk)
             after == offers2[n] \ Range(br.toAsk)
  <2>2. before \in SUBSET after /\ after \in SUBSET known2 /\ before \in SUBSET known2
    BY <2>1
  <2>3. /\ Cardinality(before) \in Nat /\ Cardinality(after) \in Nat
        /\ Cardinality(before) <= Cardinality(after)
    BY <2>1, <2>2, Counted
  <2>4. br.count[n] <= Cardinality(before)
    BY <2>1 DEF GoodCount
  <2> HIDE DEF before, after
  <2>5. br.count[n] <= Cardinality(after)
    BY <2>1, <2>3, <2>4
  <2> QED
    BY <2>1, <2>5 DEF GoodCount, after
<1> QED
  BY <1>1, <1>2 DEF GoodBrowse

\* A request that has not begun, or whose process has ended, has asked nobody and
\* counted nothing.
LEMMA RestingBrowse ==
    ASSUME NEW known, NEW offers
    PROVE  GoodBrowse(IdleBrowse, known, offers) /\ GoodBrowse(FailedBrowse, known, offers)
<1>0. IdleBrowse \in BrowseRecord
  <2>1. /\ [n \in FileName |-> 0] \in [FileName -> Nat]
        /\ [n \in FileName |-> None] \in [FileName -> Maybe(Address)]
        /\ [n \in FileName |-> {}] \in [FileName -> SUBSET Address]
        /\ None \in Maybe(Peer) /\ <<>> \in Seq(Address) /\ "idle" \in BrowsePC
    BY DEF Maybe, BrowsePC
  <2> QED
    BY <2>1 DEF IdleBrowse, BrowseRecord
<1>1. ASSUME NEW pc \in {"idle", "failed"}, NEW br, br = [IdleBrowse EXCEPT !.pc = pc]
      PROVE  GoodBrowse(br, known, offers)
  <2>1. br.pc = pc /\ br.toAsk = <<>>
    BY <1>1 DEF IdleBrowse
  <2>2. br \in BrowseRecord
    BY <1>0, <1>1 DEF BrowseRecord, BrowsePC
  <2>3. GoodPlace(br, known)
    BY <2>1 DEF GoodPlace, BrowseActive, Distinct
  <2> QED
    BY <2>1, <2>2, <2>3 DEF GoodBrowse, Counting, BrowseActive
<1>2. IdleBrowse = [IdleBrowse EXCEPT !.pc = "idle"]
  <2>1. IdleBrowse.pc = "idle"
    BY DEF IdleBrowse
  <2> QED
    BY <1>0, <2>1 DEF BrowseRecord
<1>3. GoodBrowse(FailedBrowse, known, offers)
  BY <1>1 DEF FailedBrowse
<1> QED
  BY <1>1, <1>2, <1>3

\* A lost answer, a torn list or the end of a peer changes nothing in the
\* handler's variables, and from then on its numbers promise nothing.
LEMMA DisturbedBrowse ==
    ASSUME NEW br, NEW known, NEW offers, NEW known2, NEW offers2,
           GoodBrowse(br, known, offers),
           br.pc \in BrowseActive => known \subseteq known2
    PROVE  GoodBrowse([br EXCEPT !.disturbed = TRUE], known2, offers2)
<1> DEFINE r == [br EXCEPT !.disturbed = TRUE]
<1>1. br \in BrowseRecord /\ GoodPlace(br, known)
  BY DEF GoodBrowse
<1>2. /\ r \in BrowseRecord /\ r.pc = br.pc /\ r.toAsk = br.toAsk /\ r.peer = br.peer
      /\ r.disturbed
  BY <1>1 DEF BrowseRecord
<1> HIDE DEF r
<1> QED
  BY <1>1, <1>2 DEF GoodBrowse, GoodPlace, Counting, r
-----------------------------------------------------------------------------
\* new has turned to the next address of br.
TurnsTo(br, new) ==
    /\ new.pc = "ask" /\ new.toAsk = Tail(br.toAsk)
    /\ new.peer = br.peer /\ new.offered = br.offered

\* A turn of the loop leaves the other addresses to be asked.
LEMMA LeftAfterTurn ==
    ASSUME NEW br \in BrowseRecord, NEW known, GoodPlace(br, known),
           br.pc \in BrowseActive, br.toAsk # <<>>, NEW new, TurnsTo(br, new)
    PROVE  /\ Range(new.toAsk) = Range(br.toAsk) \ {Head(br.toAsk)}
           /\ Head(br.toAsk) \in Range(br.toAsk) /\ Head(br.toAsk) \in known
           /\ GoodPlace(new, known)
<1>1. br.toAsk \in Seq(Address) /\ Distinct(br.toAsk)
  BY DEF BrowseRecord, GoodPlace
<1>2. /\ Distinct(Tail(br.toAsk)) /\ Head(br.toAsk) \notin Range(Tail(br.toAsk))
      /\ Range(br.toAsk) = Range(Tail(br.toAsk)) \cup {Head(br.toAsk)}
  BY <1>1, DistinctTail, RangeOfList
<1>3. GoodPlace(new, known)
  BY <1>2 DEF GoodPlace, TurnsTo, BrowseActive
<1> QED
  BY <1>2, <1>3 DEF GoodPlace, TurnsTo

\* Passing over an address at which the file is not offered changes nothing.
LEMMA PassingCounts ==
    ASSUME NEW br \in BrowseRecord, NEW known, GoodPlace(br, known),
           br.pc \in BrowseActive, br.toAsk # <<>>, NEW new, TurnsTo(br, new),
           NEW n \in FileName, NEW offers, GoodCount(br, n, offers),
           new.count[n] = br.count[n], new.first[n] = br.first[n],
           Head(br.toAsk) \notin offers
    PROVE  GoodCount(new, n, offers)
<1>1. /\ new.offered[n] = br.offered[n] /\ new.pc = "ask"
      /\ br.offered[n] \subseteq offers
  BY DEF TurnsTo, GoodCount
<1>2. /\ br.offered[n] \ Range(new.toAsk) = br.offered[n] \ Range(br.toAsk)
      /\ offers \ Range(new.toAsk) = offers \ Range(br.toAsk)
  BY <1>1, LeftAfterTurn
<1> QED
  BY <1>1, <1>2 DEF GoodCount

\* Counting the list of a node: an address at which a file was offered and that
\* was not asked before is counted now, and the counter grows only for another
\* address at which it is offered (distribute.go:57-73).
LEMMA TallyCounts ==
    ASSUME NEW br \in BrowseRecord, NEW known, GoodPlace(br, known), br.pc = "tally",
           NEW new, TurnsTo(br, new), NEW n \in FileName,
           NEW offers, IsFiniteSet(known), offers \in SUBSET known,
           GoodCount(br, n, offers),
           new.count[n] = IF n \in br.listed THEN br.count[n] + 1 ELSE br.count[n],
           \/ new.first[n] = br.first[n]
           \/ n \in br.listed /\ new.first[n] = Head(br.toAsk)
    PROVE  GoodCount(new, n, offers)
<1> DEFINE offered == br.offered[n]
           a == Head(br.toAsk)
           left == Range(br.toAsk)
<1>1. br.toAsk # <<>> /\ br.pc \in BrowseActive /\ br.count[n] \in Nat
  BY DEF GoodPlace, BrowseActive, BrowseRecord
<1>2. Range(new.toAsk) = left \ {a} /\ a \in left
  BY <1>1, LeftAfterTurn
<1>3. new.offered[n] = offered /\ new.pc = "ask"
  BY DEF TurnsTo
<1>4. /\ offered \subseteq offers
      /\ n \in br.listed => a \in offers
      /\ a \in offered => n \in br.listed
      /\ Cardinality(offered \ left) <= br.count[n]
      /\ br.count[n] <= Cardinality(offers \ left)
      /\ br.first[n] # None => br.first[n] \in offers
  BY DEF GoodCount
<1> HIDE DEF offered, a, left
<1>5. /\ Cardinality(offered \ left) \in Nat /\ Cardinality(offers \ left) \in Nat
      /\ Cardinality((offered \ left) \cup {a}) = Cardinality(offered \ left) + 1
      /\ Cardinality((offers \ left) \cup {a}) = Cardinality(offers \ left) + 1
  <2>1. offered \ left \in SUBSET known /\ offers \ left \in SUBSET known
    BY <1>4
  <2>2. a \notin offered \ left /\ a \notin offers \ left
    BY <1>2
  <2> QED
    BY <2>1, <2>2, Counted
<1>6. ASSUME NEW S, Cardinality(S \ left) \in Nat,
             Cardinality((S \ left) \cup {a}) = Cardinality(S \ left) + 1
      PROVE  Cardinality(S \ (left \ {a})) = IF a \in S THEN Cardinality(S \ left) + 1
                                            ELSE Cardinality(S \ left)
  <2>1. a \in S => S \ (left \ {a}) = (S \ left) \cup {a}
    BY <1>2
  <2>2. a \notin S => S \ (left \ {a}) = S \ left
    BY <1>2
  <2> QED
    BY <1>6, <2>1, <2>2
<1> DEFINE was == Cardinality(offered \ left)
           most == Cardinality(offers \ left)
           is == Cardinality(offered \ (left \ {a}))
           atMost == Cardinality(offers \ (left \ {a}))
<1>10. /\ is = IF a \in offered THEN was + 1 ELSE was
       /\ atMost = IF a \in offers THEN most + 1 ELSE most
       /\ was \in Nat /\ most \in Nat /\ was <= br.count[n] /\ br.count[n] <= most
  BY <1>4, <1>5, <1>6
<1> HIDE DEF was, most, is, atMost
<1>7. is <= new.count[n]
  BY <1>1, <1>4, <1>10
<1>8. new.count[n] <= atMost
  BY <1>1, <1>4, <1>10
<1>9. new.first[n] # None => new.first[n] \in offers
  BY <1>4 DEF a
<1> QED
  BY <1>2, <1>3, <1>4, <1>7, <1>8, <1>9 DEF GoodCount, is, atMost
-----------------------------------------------------------------------------
\* A browse that begins has counted nobody, and has everybody who offers a file
\* still to ask.
LEMMA BrowseBeginGood ==
    ASSUME SafetyInv, RegistryInv, BrowseTypeOK,
           NEW w \in BrowseRequest, NEW p \in Peer, BrowseBegin(w, p)
    PROVE  /\ browse'[w].peer = p
           /\ GoodBrowse(browse'[w], Known(p), Offers(p))
<1> DEFINE br == [IdleBrowse EXCEPT !.pc = "ask", !.peer = p, !.toAsk = registry[p],
                                    !.offered = [n \in FileName |-> Offered(p, n)]]
<1>1. browse'[w] = br
  BY DEF BrowseBegin, Browsing, BrowseTypeOK
<1>2. /\ br.pc = "ask" /\ br.peer = p /\ br.toAsk = registry[p] /\ br.listed = {}
      /\ br.count = [n \in FileName |-> 0] /\ br.first = [n \in FileName |-> None]
      /\ br.offered = [n \in FileName |-> Offered(p, n)]
  BY DEF IdleBrowse
<1>3. registry[p] \in Seq(Address) /\ Distinct(registry[p]) /\ RegistryTypeOK
  BY DEF RegistryInv, RegistryTypeOK, NoDuplicatePeers
<1>4. \A n \in FileName : Offered(p, n) \subseteq Range(registry[p])
                          /\ Offered(p, n) \subseteq Address
  BY <1>3 DEF Offered, Range
<1>5. br \in BrowseRecord
  <2>1. GoodBrowse(IdleBrowse, {}, <<>>)
    BY RestingBrowse
  <2>2. IdleBrowse \in BrowseRecord /\ "ask" \in BrowsePC
        /\ [n \in FileName |-> Offered(p, n)] \in [FileName -> SUBSET Address]
        /\ p \in Maybe(Peer)
    BY <1>4, <2>1 DEF GoodBrowse, BrowsePC, BrowseActive, Maybe
  <2> QED
    BY <1>3, <2>2 DEF BrowseRecord
<1> HIDE DEF br
<1>6. GoodPlace(br, Known(p))
  BY <1>2, <1>3 DEF GoodPlace, Known
<1>7. ASSUME NEW n \in FileName PROVE GoodCount(br, n, Offers(p)[n])
  <2>1. /\ br.offered[n] = Offered(p, n) /\ br.count[n] = 0 /\ br.first[n] = None
        /\ Offers(p)[n] = Offered(p, n)
    BY <1>2 DEF Offers
  <2>2. Offered(p, n) \ Range(br.toAsk) = {}
    BY <1>2, <1>4
  <2>3. Cardinality(Offered(p, n) \ Range(br.toAsk)) = 0
    BY <2>2, FS_EmptySet
  <2> QED
    BY <1>2, <2>1, <2>3 DEF GoodCount
<1> QED
  BY <1>1, <1>2, <1>5, <1>6, <1>7 DEF GoodBrowse

\* The record after a turn of the loop.
LEMMA TurnedRecord ==
    ASSUME NEW br \in BrowseRecord, br.toAsk # <<>>
    PROVE  /\ Turned(br) \in BrowseRecord /\ TurnsTo(br, Turned(br))
           /\ Turned(br).count = br.count /\ Turned(br).first = br.first
           /\ Turned(br).disturbed = br.disturbed
<1>1. Tail(br.toAsk) \in Seq(Address)
  BY DEF BrowseRecord
<1> QED
  BY <1>1 DEF Turned, TurnsTo, BrowseRecord, BrowsePC, BrowseActive

\* Passing over an address is harmless when nothing is offered there: it is the
\* node's own, or nobody serves there.
LEMMA PassingGood ==
    ASSUME NEW br, NEW known, NEW offers, GoodBrowse(br, known, offers),
           br.pc = "ask", br.toAsk # <<>>,
           \A n \in FileName : Head(br.toAsk) \notin offers[n]
    PROVE  GoodBrowse(Turned(br), known, offers)
<1>1. br \in BrowseRecord /\ GoodPlace(br, known) /\ br.pc \in BrowseActive
  BY DEF GoodBrowse, BrowseActive
<1>2. /\ Turned(br) \in BrowseRecord /\ TurnsTo(br, Turned(br))
      /\ Turned(br).count = br.count /\ Turned(br).first = br.first
      /\ Turned(br).disturbed = br.disturbed
  BY <1>1, TurnedRecord
<1>3. GoodPlace(Turned(br), known)
  BY <1>1, <1>2, LeftAfterTurn
<1>4. ASSUME ~br.disturbed, NEW n \in FileName
      PROVE  GoodCount(Turned(br), n, offers[n])
  <2>1. GoodCount(br, n, offers[n])
    BY <1>1, <1>4 DEF GoodBrowse, Counting
  <2> QED
    BY <1>1, <1>2, <2>1, PassingCounts
<1> QED
  BY <1>2, <1>3, <1>4 DEF GoodBrowse, Counting

\* The list that arrived is the list of the files of the node asked.
LEMMA FetchedListGood ==
    ASSUME NEW br, NEW known, NEW offers, GoodBrowse(br, known, offers),
           br.pc = "ask", br.toAsk # <<>>, Head(br.toAsk) # HTTPAddress(br.peer),
           NEW names \in SUBSET FileName, NEW disturbed,
           \/ disturbed = TRUE
           \/ /\ disturbed = br.disturbed
              /\ \A n \in FileName : n \in names <=> Head(br.toAsk) \in offers[n]
    PROVE  GoodBrowse([br EXCEPT !.pc = "tally", !.listed = names,
                                 !.disturbed = disturbed], known, offers)
<1> DEFINE new == [br EXCEPT !.pc = "tally", !.listed = names, !.disturbed = disturbed]
<1>1. br \in BrowseRecord /\ GoodPlace(br, known) /\ br.pc \in BrowseActive
  BY DEF GoodBrowse, BrowseActive
<1>2. /\ new \in BrowseRecord /\ new.pc = "tally" /\ new.listed = names
      /\ new.peer = br.peer /\ new.toAsk = br.toAsk /\ new.disturbed = disturbed
      /\ new.count = br.count /\ new.first = br.first /\ new.offered = br.offered
  BY <1>1 DEF BrowseRecord, BrowsePC, BrowseActive
<1> HIDE DEF new
<1>3. GoodPlace(new, known)
  BY <1>1, <1>2 DEF GoodPlace, BrowseActive
<1>4. ASSUME ~disturbed, NEW n \in FileName
      PROVE  GoodCount(new, n, offers[n])
  <2>1. GoodCount(br, n, offers[n]) /\ (n \in names <=> Head(br.toAsk) \in offers[n])
    BY <1>1, <1>4 DEF GoodBrowse, Counting
  <2> QED
    BY <1>2, <2>1 DEF GoodCount
<1> QED
  BY <1>2, <1>3, <1>4 DEF GoodBrowse, Counting, new

\* The counters of the record after a list is counted.
LEMMA TallyGood ==
    ASSUME BrowseTypeOK, NEW w \in BrowseRequest, NEW known, NEW offers,
           GoodBrowse(browse[w], known, offers), Tally(w), IsFiniteSet(known),
           \A n \in FileName : offers[n] \in SUBSET known
    PROVE  /\ browse'[w].peer = browse[w].peer
           /\ GoodBrowse(browse'[w], known, offers)
<1> DEFINE br == browse[w]
           count == [n \in FileName |-> IF n \in br.listed THEN br.count[n] + 1
                                        ELSE br.count[n]]
           first == [n \in FileName |-> IF n \in br.listed /\ br.first[n] = None
                                        THEN Asked(w) ELSE br.first[n]]
           new == [Turned(br) EXCEPT !.count = count, !.first = first]
<1>1. /\ br \in BrowseRecord /\ GoodPlace(br, known) /\ br.pc = "tally" /\ br.toAsk # <<>>
      /\ br.pc \in BrowseActive
  BY DEF GoodBrowse, GoodPlace, Tally, BrowseActive
<1>2. /\ Turned(br) \in BrowseRecord /\ TurnsTo(br, Turned(br))
      /\ Turned(br).count = br.count /\ Turned(br).first = br.first
      /\ Turned(br).disturbed = br.disturbed
  BY <1>1, TurnedRecord
<1>3. browse'[w] = new
  <2>1. browse' = [browse EXCEPT ![w] =
            [Turned(br) EXCEPT
               !.count = [n \in FileName |-> IF n \in br.listed THEN @[n] + 1 ELSE @[n]],
               !.first = [n \in FileName |-> IF n \in br.listed /\ @[n] = None
                                             THEN Asked(w) ELSE @[n]]]]
    BY DEF Tally, Browsing
  <2>2. [Turned(br) EXCEPT
            !.count = [n \in FileName |-> IF n \in br.listed THEN @[n] + 1 ELSE @[n]],
            !.first = [n \in FileName |-> IF n \in br.listed /\ @[n] = None
                                          THEN Asked(w) ELSE @[n]]] = new
    BY <1>2
  <2> QED
    BY <2>1, <2>2 DEF BrowseTypeOK
<1>4. Asked(w) = Head(br.toAsk) /\ Head(br.toAsk) \in Address
  BY <1>1 DEF Asked, BrowseRecord
<1>5. count \in [FileName -> Nat] /\ first \in [FileName -> Maybe(Address)]
  BY <1>1, <1>4 DEF BrowseRecord, Maybe
<1> HIDE DEF count, first
<1>6. /\ new \in BrowseRecord /\ TurnsTo(br, new) /\ new.count = count
      /\ new.first = first /\ new.disturbed = br.disturbed
  BY <1>2, <1>5 DEF BrowseRecord, TurnsTo
<1> HIDE DEF new
<1>7. GoodPlace(new, known)
  BY <1>1, <1>6, LeftAfterTurn
<1>8. ASSUME ~br.disturbed, NEW n \in FileName
      PROVE  GoodCount(new, n, offers[n])
  <2>1. GoodCount(br, n, offers[n])
    BY <1>1, <1>8 DEF GoodBrowse, Counting
  <2>2. new.count[n] = IF n \in br.listed THEN br.count[n] + 1 ELSE br.count[n]
    BY <1>6 DEF count
  <2>3. \/ new.first[n] = br.first[n]
        \/ n \in br.listed /\ new.first[n] = Head(br.toAsk)
    BY <1>4, <1>6 DEF first
  <2> QED
    BY <1>1, <1>6, <2>1, <2>2, <2>3, TallyCounts
<1> QED
  BY <1>3, <1>6, <1>7, <1>8 DEF GoodBrowse, Counting, TurnsTo

\* Every step of a browse keeps its record good (BrowseFilesHandler).
LEMMA BrowseStepGood ==
    ASSUME SafetyInv, RegistryTypeOK, BrowseTypeOK, NEW w \in BrowseRequest,
           Good(w), BrowseStep(w)
    PROVE  /\ browse'[w].peer = browse[w].peer
           /\ GoodBrowse(browse'[w], Known(browse[w].peer), Offers(browse[w].peer))
<1> DEFINE br == browse[w]
           p == br.peer
           known == Known(p)
           offers == Offers(p)
           Goal == browse'[w].peer = p /\ GoodBrowse(browse'[w], known, offers)
<1> SUFFICES Goal
  OBVIOUS
<1>1. /\ br \in BrowseRecord /\ GoodPlace(br, known) /\ br.disturbed \in BOOLEAN
      /\ GoodBrowse(br, known, offers)
      /\ \A new : Browsing(w, new) => browse'[w] = new
  BY DEF Good, GoodBrowse, BrowseRecord, Browsing, BrowseTypeOK
<1>2. Asked(w) = Head(br.toAsk)
  BY DEF Asked
<1>3. p \in Peer
  <2>1. br.pc \in BrowseActive
    BY DEF BrowseStep, SkipSelf, FetchFileList, FetchFileListRaces, FetchFileListFails,
           AtPeer, Tally, BrowseEnd, BrowseActive
  <2> QED
    BY <1>1, <2>1 DEF GoodPlace
<1>4. \A n \in FileName : offers[n] =
          {a \in known \ {HTTPAddress(p)} : HasFile(p, a, n)}
  BY DEF Offers, Offered, Known
<1>5. br.toAsk # <<>> /\ br.pc \in BrowseActive => Head(br.toAsk) \in known
  <2>1. br.toAsk \in Seq(Address)
    BY <1>1 DEF BrowseRecord
  <2> QED
    BY <1>1, <2>1, RangeOfList DEF GoodPlace
<1>6. IsFiniteSet(known) /\ \A n \in FileName : offers[n] \in SUBSET known
  BY <1>3, KnownFinite
<1> HIDE DEF known, offers
<1>7. CASE SkipSelf(w)
  <2>1. /\ br.pc = "ask" /\ br.toAsk # <<>> /\ Head(br.toAsk) = HTTPAddress(p)
        /\ browse'[w] = Turned(br)
    BY <1>1, <1>2, <1>7 DEF SkipSelf, AtPeer, IsSelf
  <2>2. \A n \in FileName : Head(br.toAsk) \notin offers[n]
    BY <1>4, <2>1
  <2>3. GoodBrowse(Turned(br), known, offers)
    BY <1>1, <2>1, <2>2, PassingGood
  <2> QED
    BY <1>1, <2>1, <2>3, TurnedRecord DEF TurnsTo
<1>8. ASSUME br.pc = "ask", br.toAsk # <<>>, Head(br.toAsk) # HTTPAddress(p),
             NEW names \in SUBSET FileName, NEW disturbed,
             \/ disturbed = TRUE
             \/ /\ disturbed = br.disturbed
                /\ \A n \in FileName : n \in names <=> Head(br.toAsk) \in offers[n],
             browse'[w] = [br EXCEPT !.pc = "tally", !.listed = names,
                                     !.disturbed = disturbed]
      PROVE  Goal
  <2>1. browse'[w].peer = p
    BY <1>1, <1>8 DEF BrowseRecord
  <2>2. GoodBrowse([br EXCEPT !.pc = "tally", !.listed = names,
                               !.disturbed = disturbed], known, offers)
    <3> HIDE DEF br
    <3> QED
      BY <1>1, <1>8, FetchedListGood DEF p
  <2> QED
    BY <1>8, <2>1, <2>2
<1>9. CASE FetchFileList(w)
  <2> DEFINE names == FileList(AskedNode(w))
  <2>1. /\ br.pc = "ask" /\ br.toAsk # <<>> /\ Head(br.toAsk) # HTTPAddress(p)
        /\ Answers(w) /\ browse'[w] = [br EXCEPT !.pc = "tally", !.listed = names]
    BY <1>1, <1>2, <1>9 DEF FetchFileList, AtPeer, IsSelf
  <2>2. [br EXCEPT !.pc = "tally", !.listed = names]
          = [br EXCEPT !.pc = "tally", !.listed = names, !.disturbed = br.disturbed]
    BY <1>1 DEF BrowseRecord
  <2>3. names \in SUBSET FileName
    BY DEF FileList
  <2>4. \A n \in FileName : n \in names <=> Head(br.toAsk) \in offers[n]
    <3>1. \A n \in FileName : n \in names <=> HasFile(p, Head(br.toAsk), n)
      BY <1>2, <2>1 DEF FileList, HasFile, AskedNode, Answers
    <3>2. Head(br.toAsk) \in known
      BY <1>5, <2>1 DEF BrowseActive
    <3> QED
      BY <1>4, <2>1, <3>1, <3>2
  <2> HIDE DEF names, br
  <2> QED
    BY <1>8, <2>1, <2>2, <2>3, <2>4
<1>10. CASE FetchFileListRaces(w)
  <2>1. PICK names \in SUBSET (FileList(AskedNode(w)) \cup AddingNames(AskedNode(w))) :
            browse'[w] = [br EXCEPT !.pc = "tally", !.listed = names, !.disturbed = TRUE]
    BY <1>1, <1>10 DEF FetchFileListRaces
  <2>2. /\ br.pc = "ask" /\ br.toAsk # <<>> /\ Head(br.toAsk) # HTTPAddress(p)
    BY <1>2, <1>10 DEF FetchFileListRaces, AtPeer, IsSelf
  <2>3. names \in SUBSET FileName
    BY <2>1 DEF FileList, AddingNames, Adding, SafetyInv, UploadsTyped
  <2> HIDE DEF br
  <2> QED
    BY <1>8, <2>1, <2>2, <2>3
<1>11. CASE FetchFileListFails(w)
  <2>1. /\ br.pc = "ask" /\ br.toAsk # <<>>
        /\ browse'[w] = [Turned(br) EXCEPT !.disturbed = @ \/ Answers(w)]
    BY <1>1, <1>11 DEF FetchFileListFails, AtPeer
  <2>2. /\ Turned(br) \in BrowseRecord /\ TurnsTo(br, Turned(br))
        /\ Turned(br).disturbed = br.disturbed
    BY <1>1, <2>1, TurnedRecord
  <2>3. CASE ~Answers(w)
    <3>1. \A n \in FileName : Head(br.toAsk) \notin offers[n]
      BY <1>2, <1>4, <2>3 DEF HasFile, Answers
    <3>2. GoodBrowse(Turned(br), known, offers)
      BY <1>1, <2>1, <3>1, PassingGood
    <3>3. (Turned(br).disturbed \/ Answers(w)) = Turned(br).disturbed
      BY <1>1, <2>2, <2>3
    <3>4. browse'[w] = Turned(br)
      BY <2>1, <2>2, <3>3 DEF BrowseRecord
    <3> QED
      BY <2>2, <3>2, <3>4 DEF TurnsTo
  <2>4. CASE Answers(w)
    <3> DEFINE new == [Turned(br) EXCEPT !.disturbed = TRUE]
    <3>1. (Turned(br).disturbed \/ Answers(w)) = TRUE
      BY <2>4
    <3>2. browse'[w] = new
      BY <2>1, <3>1
    <3>3. /\ new \in BrowseRecord /\ TurnsTo(br, new) /\ new.disturbed /\ new.peer = p
      BY <2>2 DEF BrowseRecord, TurnsTo
    <3>4. GoodPlace(new, known)
      BY <1>1, <2>1, <3>3, LeftAfterTurn DEF BrowseActive
    <3> HIDE DEF new
    <3> QED
      BY <3>2, <3>3, <3>4 DEF GoodBrowse, Counting
  <2> QED
    BY <2>3, <2>4
<1>12. CASE BrowseEnd(w)
  <2> DEFINE new == [br EXCEPT !.pc = "done"]
  <2>1. browse'[w] = new /\ br.toAsk = <<>> /\ br.pc = "ask"
    BY <1>1, <1>12 DEF BrowseEnd
  <2>2. /\ new \in BrowseRecord /\ new.pc = "done" /\ new.toAsk = br.toAsk
        /\ new.peer = br.peer /\ new.count = br.count /\ new.first = br.first
        /\ new.offered = br.offered /\ new.disturbed = br.disturbed
    BY <1>1 DEF BrowseRecord, BrowsePC
  <2> HIDE DEF new
  <2>3. GoodPlace(new, known)
    BY <1>1, <1>3, <2>1, <2>2 DEF GoodPlace, BrowseActive
  <2>4. ASSUME ~br.disturbed, NEW n \in FileName
        PROVE  GoodCount(new, n, offers[n])
    <3>1. GoodCount(br, n, offers[n])
      BY <1>1, <2>1, <2>4 DEF GoodBrowse, Counting, BrowseActive
    <3> QED
      BY <2>2, <3>1 DEF GoodCount
  <2> QED
    BY <2>1, <2>2, <2>3, <2>4 DEF GoodBrowse, Counting
<1>13. CASE Tally(w)
  BY <1>1, <1>6, <1>13, TallyGood
<1> QED
  BY <1>7, <1>9, <1>10, <1>11, <1>12, <1>13 DEF BrowseStep

-----------------------------------------------------------------------------
\* A registry whose process goes on, or that nothing changes, only grows
\* (registry.AddPeer).
LEMMA KnownGrow ==
    ASSUME RegistryInv, Discovery \/ UNCHANGED registryVars, NEW p \in Peer
    PROVE  Known(p) \subseteq Known(p)'
<1>1. ASSUME NEW q \in Peer, DiscoverPeer(q) PROVE Known(p) \subseteq Known(p)'
  <2>1. Head(boot[q]) \in Address
    BY <1>1 DEF DiscoverPeer, RegistryInv, RegistryTypeOK
  <2>2. registry' = [registry EXCEPT ![q] = AddPeer(@, Head(boot[q]))]
    BY <1>1 DEF DiscoverPeer
  <2>3. Range(registry'[p]) = IF p = q THEN Range(registry[p]) \cup {Head(boot[q])}
                              ELSE Range(registry[p])
    BY <2>1, <2>2, EntersPeer
  <2> QED
    BY <2>3 DEF Known
<1>2. ASSUME NEW r \in registering, RegisterPeer(r) PROVE Known(p) \subseteq Known(p)'
  <2> DEFINE q == NodeAt(r.peer, r.to)
  <2>1. r.from \in Address /\ q \in Peer
    BY NodeAtType DEF RegistryInv, RegistryTypeOK, Registration
  <2>2. registry' = [registry EXCEPT ![q] = AddPeer(@, r.from)]
    BY <1>2 DEF RegisterPeer
  <2> HIDE DEF q
  <2>3. Range(registry'[p]) = IF p = q THEN Range(registry[p]) \cup {r.from}
                              ELSE Range(registry[p])
    BY <2>1, <2>2, EntersPeer
  <2> QED
    BY <2>3 DEF Known
<1>3. CASE UNCHANGED registry
  BY <1>3 DEF Known
<1> QED
  BY <1>1, <1>2, <1>3 DEF Discovery, Boot, ListenTCP, ListenHTTP, SettleRegistration,
                          RegisterFails, registryVars

\* While no process ends, what is served stays served: listeners are opened and
\* never closed, and files are shared and never withdrawn.
LEMMA OffersGrow ==
    ASSUME SafetyInv, RegistryInv, NEW p \in Peer, NEW n \in FileName,
           \/ Discovery /\ UNCHANGED fileVars
           \/ FileStep /\ UNCHANGED registryVars
           \/ UNCHANGED vars
    PROVE  /\ Known(p) \subseteq Known(p)'
           /\ Offers(p)[n] \subseteq Offers(p)'[n]
<1>1. Discovery \/ UNCHANGED registryVars
  BY DEF vars
<1>2. \A q \in Peer : listening[q] \subseteq listening'[q]
  BY <1>1, ListenersOpen DEF SafetyInv, TypeOK
<1>3. \A q \in Peer : sharedFiles[q][n] # None => sharedFiles'[q][n] # None
  BY FileStepKeeps DEF Keeps, fileVars, vars
<1>4. Known(p) \subseteq Known(p)'
  BY <1>1, KnownGrow
<1>5. ASSUME NEW a \in Address, HasFile(p, a, n) PROVE HasFile(p, a, n)'
  <2>1. NodeAt(p, a) \in Peer
    BY NodeAtType
  <2> QED
    BY <1>2, <1>3, <1>5, <2>1 DEF HasFile, Serves, NodeAt
<1>6. Known(p) \subseteq Address
  BY DEF Known, Range, RegistryInv, RegistryTypeOK
<1>7. /\ Offers(p)[n] = {a \in Known(p) \ {HTTPAddress(p)} : HasFile(p, a, n)}
      /\ Offers(p)'[n] = {a \in Known(p)' \ {HTTPAddress(p)} : HasFile(p, a, n)'}
  BY DEF Offers, Offered, Known, HTTPAddress
<1> QED
  BY <1>4, <1>5, <1>6, <1>7

\* Every step of the swarm and of the browses preserves BrowseInv.
LEMMA BrowseNextInv ==
    ASSUME BrowseInv, [BrowseNext]_browseVars
    PROVE  BrowseInv'
<1>1. /\ SafetyInv /\ RegistryInv /\ BrowseTypeOK
      /\ \A w \in BrowseRequest : Good(w)
  BY BrowseInvSplit
<1>2. SafetyInv' /\ RegistryInv'
  BY <1>1, BrowseStepsSwarm, NextSafetyInv, SwarmRegistryInv
<1>3. \A p \in Peer : /\ IsFiniteSet(Known(p)')
                      /\ \A n \in FileName : Offers(p)'[n] \in SUBSET Known(p)'
  <2>1. (\A p \in Peer : /\ IsFiniteSet(Known(p))
                         /\ \A n \in FileName : Offers(p)[n] \in SUBSET Known(p))'
    <3>1. RegistryTypeOK'
      BY <1>2 DEF RegistryInv
    <3> QED
      BY <3>1, KnownFinite, PTL
  <2> QED
    BY <2>1
<1>4. ASSUME NEW br, NEW p, br.pc \in BrowseActive \cup {"done"} => p \in Peer,
             GoodBrowse(br, Known(p), Offers(p)),
             \/ Discovery /\ UNCHANGED fileVars
             \/ FileStep /\ UNCHANGED registryVars
             \/ UNCHANGED vars
      PROVE  GoodBrowse(br, Known(p)', Offers(p)')
  <2>1. ASSUME p \in Peer, NEW n \in FileName
        PROVE  Known(p) \subseteq Known(p)' /\ Offers(p)[n] \subseteq Offers(p)'[n]
    BY <1>1, <1>4, <2>1, OffersGrow
  <2>2. ASSUME p \in Peer PROVE Known(p) \subseteq Known(p)'
    BY <1>1, <1>4, <2>2, KnownGrow DEF vars
  <2> QED
    BY <1>3, <1>4, <2>1, <2>2, GoodBrowseGrows
<1>5. \A w \in BrowseRequest : browse[w].pc \in BrowseActive \cup {"done"}
                               => browse[w].peer \in Peer
  BY <1>1 DEF Good, GoodBrowse, GoodPlace
<1>6. ASSUME UNCHANGED browse,
             \/ Discovery /\ UNCHANGED fileVars
             \/ FileStep /\ UNCHANGED registryVars
             \/ UNCHANGED vars
      PROVE  BrowseTypeOK' /\ \A w \in BrowseRequest : Good(w)'
  <2>1. ASSUME NEW w \in BrowseRequest PROVE Good(w)'
    <3> DEFINE p == browse[w].peer
    <3>1. GoodBrowse(browse[w], Known(p), Offers(p))
      BY <1>1 DEF Good
    <3>2. GoodBrowse(browse[w], Known(p)', Offers(p)')
      BY <1>4, <1>5, <1>6, <3>1
    <3> QED
      BY <1>6, <3>2 DEF Good
  <2> QED
    BY <1>1, <1>6, <2>1 DEF BrowseTypeOK
<1>7. ASSUME NEW p \in Peer, BrowseCrash(p)
      PROVE  BrowseTypeOK' /\ \A w \in BrowseRequest : Good(w)'
  <2>1. ASSUME NEW w \in BrowseRequest PROVE Good(w)'
    <3> DEFINE br == browse[w]
    <3>0. PICK q : q = br.peer
      OBVIOUS
    <3>1. \/ browse'[w] = FailedBrowse
          \/ /\ browse'[w] = [br EXCEPT !.disturbed = TRUE]
             /\ q # p \/ br.pc \notin BrowseActive
      BY <1>7, <3>0 DEF BrowseCrash
    <3>2. br \in BrowseRecord /\ GoodBrowse(br, Known(q), Offers(q))
      BY <1>1, <3>0 DEF BrowseTypeOK, Good
    <3>3. ASSUME browse'[w] = [br EXCEPT !.disturbed = TRUE],
                 q # p \/ br.pc \notin BrowseActive
          PROVE  Good(w)'
      <4>1. browse'[w].peer = q
        BY <3>0, <3>2, <3>3 DEF BrowseRecord
      <4>2. br.pc \in BrowseActive => Known(q) \subseteq Known(q)'
        <5>1. br.pc \in BrowseActive => q \in Peer /\ q # p
          BY <1>5, <3>0, <3>3
        <5>2. registry' = [registry EXCEPT ![p] = <<>>]
          BY <1>7 DEF BrowseCrash, CrashPeer, Stop
        <5>3. registry \in [Peer -> Seq(Address)]
          BY <1>1 DEF RegistryInv, RegistryTypeOK
        <5>4. br.pc \in BrowseActive => registry'[q] = registry[q]
          BY <5>1, <5>2, <5>3
        <5> QED
          BY <5>4 DEF Known
      <4>3. GoodBrowse([br EXCEPT !.disturbed = TRUE], Known(q)', Offers(q)')
        BY <3>2, <4>2, DisturbedBrowse
      <4> QED
        BY <3>3, <4>1, <4>3 DEF Good
    <3>4. CASE browse'[w] = FailedBrowse
      BY <3>4, RestingBrowse DEF Good
    <3> QED
      BY <3>1, <3>3, <3>4
  <2>2. BrowseTypeOK'
    <3>1. \A w \in BrowseRequest : browse'[w] \in BrowseRecord
      BY <2>1 DEF Good, GoodBrowse
    <3> QED
      BY <1>7, <3>1 DEF BrowseCrash, BrowseTypeOK
  <2> QED
    BY <2>1, <2>2
<1>8. ASSUME NEW w \in BrowseRequest, UNCHANGED vars,
             BrowseStep(w) \/ \E p \in Peer : BrowseBegin(w, p)
      PROVE  BrowseTypeOK' /\ \A v \in BrowseRequest : Good(v)'
  <2>1. PICK new : Browsing(w, new)
    BY <1>8 DEF BrowseStep, SkipSelf, FetchFileList, FetchFileListRaces,
                FetchFileListFails, Tally, BrowseEnd, BrowseBegin
  <2>2. \A p : Known(p)' = Known(p) /\ Offers(p)' = Offers(p)
    BY <1>8 DEF vars, registryVars, fileVars, Known, Offers, Offered, HasFile, Serves,
                NodeAt, HTTPAddress
  <2>3. GoodBrowse(browse'[w], Known(browse'[w].peer), Offers(browse'[w].peer))
    <3>1. CASE BrowseStep(w)
      <4>1. /\ browse'[w].peer = browse[w].peer
            /\ GoodBrowse(browse'[w], Known(browse[w].peer), Offers(browse[w].peer))
        BY <1>1, <3>1, BrowseStepGood DEF RegistryInv
      <4> QED
        BY <4>1
    <3>2. ASSUME NEW p \in Peer, BrowseBegin(w, p)
          PROVE  GoodBrowse(browse'[w], Known(browse'[w].peer), Offers(browse'[w].peer))
      <4>1. /\ browse'[w].peer = p
            /\ GoodBrowse(browse'[w], Known(p), Offers(p))
        BY <1>1, <3>2, BrowseBeginGood
      <4> QED
        BY <4>1
    <3> QED
      BY <1>8, <3>1, <3>2
  <2>4. \A v \in BrowseRequest : v # w => browse'[v] = browse[v]
    BY <1>1, <2>1 DEF Browsing, BrowseTypeOK
  <2>5. \A v \in BrowseRequest :
            GoodBrowse(browse'[v], Known(browse'[v].peer), Offers(browse'[v].peer))
    BY <1>1, <2>3, <2>4 DEF Good
  <2>6. \A v \in BrowseRequest : Good(v)'
    BY <2>2, <2>5 DEF Good
  <2>7. BrowseTypeOK'
    BY <1>1, <2>1, <2>5 DEF Browsing, BrowseTypeOK, GoodBrowse
  <2> QED
    BY <2>6, <2>7
<1>9. BrowseTypeOK' /\ \A w \in BrowseRequest : Good(w)'
  BY <1>6, <1>7, <1>8 DEF BrowseNext, browseVars, vars
<1>10. (/\ SafetyInv /\ RegistryInv /\ BrowseTypeOK
        /\ \A w \in BrowseRequest : Good(w))'
  BY <1>2, <1>9
<1> QED
  BY <1>10, BrowseInvSplit, PTL

\* BrowseInv is an inductive invariant of a swarm whose users browse.
THEOREM BrowseInvHolds == BrowseSpec => []BrowseInv
<1>1. BrowseInit => BrowseInv
  <2> SUFFICES ASSUME BrowseInit PROVE BrowseInv
    OBVIOUS
  <2>1. \A w \in BrowseRequest : Good(w)
    BY RestingBrowse DEF BrowseInit, Good
  <2>2. BrowseTypeOK
    BY <2>1 DEF BrowseInit, BrowseTypeOK, Good, GoodBrowse
  <2>3. SafetyInv /\ RegistryInv
    BY InitSafetyInv, RegistryInitInv DEF BrowseInit, SwarmInit
  <2> QED
    BY <2>1, <2>2, <2>3, BrowseInvSplit
<1> QED
  BY <1>1, BrowseNextInv, PTL DEF BrowseSpec

\* A browse that nobody's end disturbed has counted every known address at which
\* the file was offered when it began (distribute.go:53).
THEOREM BrowsesAreComplete == BrowseSpec => []BrowseComplete
<1>1. BrowseInv => BrowseComplete
  <2> SUFFICES ASSUME BrowseInv, NEW w \in BrowseRequest, NEW n \in FileName,
                      browse[w].pc = "done", ~browse[w].disturbed
               PROVE  Cardinality(browse[w].offered[n]) <= browse[w].count[n]
    BY DEF BrowseComplete
  <2>1. browse[w].toAsk = <<>>
    BY DEF BrowseInv, BrowsePlaces
  <2>2. browse[w].offered[n] \ Left(w) = browse[w].offered[n]
    BY <2>1 DEF Left, Range
  <2> QED
    BY <2>2 DEF BrowseInv, TallyBetween, Heard
<1> QED
  BY <1>1, BrowseInvHolds, PTL

\* If every known address is of another node, and of one each, there are no more
\* addresses that offer a file than nodes that have it.
LEMMA OffersAreSharers ==
    ASSUME RegistryTypeOK, NEW p \in Peer, NEW n \in FileName, Unaliased(p)
    PROVE  /\ Cardinality(Offered(p, n)) \in Nat /\ Cardinality(OtherSharers(p, n)) \in Nat
           /\ Cardinality(Offered(p, n)) <= Cardinality(OtherSharers(p, n))
<1> DEFINE S == Offered(p, n)
           T == OtherSharers(p, n)
           f == [a \in S |-> NodeAt(p, a)]
<1>1. S \subseteq Range(registry[p]) \ {HTTPAddress(p)} /\ S \subseteq Address
  BY DEF Offered, Range, RegistryTypeOK
<1>2. \A a \in S : NodeAt(p, a) \in T
  <2>1. \A a \in S : NodeAt(p, a) \in Peer
    BY <1>1, NodeAtType
  <2>2. \A a \in S : NodeAt(p, a) # p
    BY <1>1 DEF Unaliased
  <2>3. \A a \in S : n \in FileList(NodeAt(p, a))
    BY DEF Offered, HasFile, FileList
  <2> QED
    BY <2>1, <2>2, <2>3 DEF OtherSharers
<1>3. \A a, b \in S : NodeAt(p, a) = NodeAt(p, b) => a = b
  BY <1>1 DEF Unaliased
<1>4. f \in Injection(S, T)
  BY <1>2, <1>3 DEF Injection, IsInjective
<1>5. IsFiniteSet(T)
  BY PeersFinite, FS_Subset DEF OtherSharers
<1>6. IsFiniteSet(S) /\ Cardinality(S) <= Cardinality(T)
  BY <1>4, <1>5, FS_Injection
<1> QED
  BY <1>5, <1>6, FS_CardinalityType

\* The number shown for a file is real, and so is the address a download is sent
\* to (distribute.go:57-73): it counts known addresses that offer the file, and
\* other nodes that have it when no address is another name of a node.
THEOREM AvailabilityShownIsReal == BrowseSpec => []AvailabilityIsReal
<1>1. BrowseInv => AvailabilityIsReal
  <2> SUFFICES ASSUME BrowseInv, NEW w \in BrowseRequest, NEW n \in FileName,
                      browse[w].pc = "done", ~browse[w].disturbed
               PROVE  LET br == browse[w] IN
                      /\ br.count[n] <= Cardinality(Offered(br.peer, n))
                      /\ Unaliased(br.peer) =>
                            br.count[n] <= Cardinality(OtherSharers(br.peer, n))
                      /\ br.first[n] # None => br.first[n] \in Offered(br.peer, n)
    BY DEF AvailabilityIsReal
  <2> DEFINE br == browse[w]
  <2>1. /\ br.toAsk = <<>> /\ br.peer \in Peer /\ RegistryTypeOK
    BY DEF BrowseInv, BrowsePlaces, RegistryInv
  <2>2. br.count[n] \in Nat
    BY DEF BrowseInv, BrowseTypeOK, BrowseRecord
  <2>3. Offered(br.peer, n) \ Left(w) = Offered(br.peer, n)
    BY <2>1 DEF Left, Range
  <2>4. br.count[n] <= Cardinality(Offered(br.peer, n))
    BY <2>3 DEF BrowseInv, TallyBetween, Heard
  <2>5. br.first[n] # None => br.first[n] \in Offered(br.peer, n)
    BY DEF BrowseInv, HeardIsShared, Heard
  <2>6. ASSUME Unaliased(br.peer)
        PROVE  br.count[n] <= Cardinality(OtherSharers(br.peer, n))
    BY <2>1, <2>2, <2>4, <2>6, OffersAreSharers
  <2> QED
    BY <2>4, <2>5, <2>6
<1> QED
  BY <1>1, BrowseInvHolds, PTL

\* A browse never asks an address again: each step of it ends the browse or leaves
\* it with less to do, and the registry it copied is finite.
THEOREM BrowsesAdvance == BrowseSpec => BrowseAdvances
<1>1. ASSUME BrowseInv, [BrowseNext]_browseVars, NEW w \in BrowseRequest
      PROVE  \/ browse'[w].pc = browse[w].pc /\ browse'[w].toAsk = browse[w].toAsk
             \/ BrowseAdvanced(browse[w], browse'[w])
  <2> DEFINE br == browse[w]
             new == browse'[w]
  <2>1. br \in BrowseRecord /\ (br.pc = "tally" => br.toAsk # <<>>)
    BY <1>1 DEF BrowseInv, BrowseTypeOK, BrowsePlaces
  <2>2. \A x : Browsing(w, x) => new = x
    BY <1>1 DEF Browsing, BrowseInv, BrowseTypeOK
  <2>3. CASE UNCHANGED browse
    BY <2>3
  <2>4. ASSUME NEW p \in Peer, BrowseCrash(p)
        PROVE  \/ new.pc = br.pc /\ new.toAsk = br.toAsk
               \/ BrowseAdvanced(br, new)
    <3>1. \/ br.pc \in BrowseActive /\ new = FailedBrowse
          \/ new = [br EXCEPT !.disturbed = TRUE]
      BY <2>4 DEF BrowseCrash
    <3>2. CASE br.pc \in BrowseActive /\ new = FailedBrowse
      BY <3>2 DEF FailedBrowse, IdleBrowse, BrowseAdvanced
    <3>3. CASE new = [br EXCEPT !.disturbed = TRUE]
      BY <2>1, <3>3 DEF BrowseRecord
    <3> QED
      BY <3>1, <3>2, <3>3
  <2>5. ASSUME NEW v \in BrowseRequest, v # w,
               BrowseStep(v) \/ \E p \in Peer : BrowseBegin(v, p)
        PROVE  new = br
    <3>1. \E x : Browsing(v, x)
      BY <2>5 DEF BrowseStep, SkipSelf, FetchFileList, FetchFileListRaces,
                  FetchFileListFails, Tally, BrowseEnd, BrowseBegin
    <3> QED
      BY <1>1, <2>5, <3>1 DEF Browsing, BrowseInv, BrowseTypeOK
  <2>6. ASSUME NEW p \in Peer, BrowseBegin(w, p) PROVE BrowseAdvanced(br, new)
    BY <2>2, <2>6 DEF BrowseBegin, IdleBrowse, BrowseAdvanced
  <2>7. /\ Turned(br).pc = "ask" /\ Turned(br).toAsk = Tail(br.toAsk)
    BY <2>1 DEF Turned, BrowseRecord
  <2>8. CASE SkipSelf(w)
    BY <2>2, <2>7, <2>8 DEF SkipSelf, AtPeer, BrowseActive, BrowseAdvanced
  <2>9. CASE FetchFileList(w) \/ FetchFileListRaces(w)
    <3>1. br.pc = "ask" /\ new.pc = "tally" /\ new.toAsk = br.toAsk
      BY <2>1, <2>2, <2>9 DEF FetchFileList, FetchFileListRaces, AtPeer, BrowseRecord
    <3> QED
      BY <3>1 DEF BrowseAdvanced
  <2>10. CASE FetchFileListFails(w)
    <3>1. new = [Turned(br) EXCEPT !.disturbed = @ \/ Answers(w)]
      BY <2>2, <2>10 DEF FetchFileListFails
    <3>2. new.pc = "ask" /\ new.toAsk = Tail(br.toAsk)
      BY <2>1, <3>1 DEF Turned, BrowseRecord
    <3> QED
      BY <2>10, <3>2 DEF FetchFileListFails, AtPeer, BrowseActive, BrowseAdvanced
  <2>11. CASE Tally(w)
    <3>1. new.pc = "ask" /\ new.toAsk = Tail(br.toAsk)
      BY <2>1, <2>2, <2>11 DEF Tally, Turned, BrowseRecord
    <3> QED
      BY <2>1, <2>11, <3>1 DEF Tally, BrowseActive, BrowseAdvanced
  <2>12. CASE BrowseEnd(w)
    <3>1. br.pc = "ask" /\ new.pc = "done"
      BY <2>1, <2>2, <2>12 DEF BrowseEnd, BrowseRecord
    <3> QED
      BY <3>1 DEF BrowseActive, BrowseAdvanced
  <2>13. CASE BrowseStep(w)
    BY <2>8, <2>9, <2>10, <2>11, <2>12, <2>13 DEF BrowseStep
  <2> QED
    BY <1>1, <2>3, <2>4, <2>5, <2>6, <2>13 DEF BrowseNext, browseVars
<1>2. BrowseInv /\ [BrowseNext]_browseVars =>
         \A w \in BrowseRequest :
            \/ browse'[w].pc = browse[w].pc /\ browse'[w].toAsk = browse[w].toAsk
            \/ BrowseAdvanced(browse[w], browse'[w])
  BY <1>1
<1> QED
  BY <1>2, BrowseInvHolds, PTL DEF BrowseAdvances, BrowseSpec
=============================================================================
