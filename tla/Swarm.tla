------------------------------- MODULE Swarm --------------------------------
(***************************************************************************)
(* Sharing and downloading files: the in-memory state of every node        *)
(* (peer/peer.go), the upload handler (handler/upload.go), the interface   *)
(* other nodes read it through (handler/api.go, handler/tcp_listener.go),  *)
(* the Downloader (peer/downloader.go) and the download handler that       *)
(* writes the result to disk (handler/distribute.go).  Each HTTP request   *)
(* runs in a goroutine of its own, so uploads and downloads interleave at  *)
(* every lock and every remote call.                                       *)
(*                                                                         *)
(* File contents are sequences of blocks, one block per chunk; a chunk is  *)
(* named by the digest of its block.  Positions count from 1 here and from *)
(* 0 in the code; the index in a chunk's metadata is its position.         *)
(*                                                                         *)
(* Peer.AddFile writes the SharedFiles map without holding Peer.Mu         *)
(* (upload.go:71).  While an upload is at "add", other accesses to the     *)
(* map of the same node race with it; the outcomes the Go runtime and the  *)
(* hardware can produce (an old, new or mixed FileMeta, a lost write, the  *)
(* fatal "concurrent map" error) are all allowed, and raced records that   *)
(* one other than "the accesses happened one after the other" occurred.    *)
(*                                                                         *)
(* A definition introduced as a variant is not part of the model: it is    *)
(* the definition after it with one plausible fault, and stands in for it  *)
(* when a property is tested against that fault (README, "Variants").      *)
(***************************************************************************)
EXTENDS Registry, ChunkOrder

CONSTANTS
    FileName,
    Block,
    Digest,
    Sum256,       \* SHA-256 of a block
    Content,      \* the files users upload
    WorkDir,      \* the directory each node was started in, named after a node
    Upload,       \* identifiers of upload requests
    Download,     \* identifiers of download requests
    None

ASSUME DigestAssumption == Sum256 \in [Block -> Digest]
\* No two blocks of the system have the same digest.
ASSUME CollisionFree == \A a, b \in Block : Sum256[a] = Sum256[b] => a = b
ASSUME ContentAssumption == Content \subseteq Seq(Block)
ASSUME WorkDirAssumption == WorkDir \in [Peer -> Peer]

VARIABLES
    sharedFiles,  \* Peer.SharedFiles of each node: metadata by file name
    chunkData,    \* Peer.ChunkDataStorage of each node: block by digest
    disk,         \* downloads/<name> in each working directory
    upload,       \* the progress of each upload request
    download,     \* the progress of each download request
    uploaded,     \* history: every content uploaded under a name
    raced         \* history: some racing access went wrong

fileVars == <<sharedFiles, chunkData, disk, upload, download, uploaded, raced>>
vars == <<registryVars, fileVars>>

-----------------------------------------------------------------------------
(***************************************************************************)
(* Metadata.                                                               *)
(***************************************************************************)
Meta == [totalChunks : Nat, chunks : Seq(Digest)]

\* None stands for an absent block, file, name or node.
ASSUME NoneAssumption ==
    /\ None \notin Block /\ None \notin Peer /\ None \notin FileName
    /\ None \notin Meta /\ None \notin Seq(Block)

\* What a fresh entry of the map holds until its value is copied into it.
ZeroMeta == [totalChunks |-> 0, chunks |-> <<>>]

MetaOf(content) ==
    [totalChunks |-> Len(content),
     chunks      |-> [i \in 1 .. Len(content) |-> Sum256[content[i]]]]

\* A slice header with the address of one array and the length of another:
\* past its end the array is followed by arbitrary bytes.
Overread(chunks, n) ==
    IF chunks = <<>> THEN {}
    ELSE {s \in [1 .. n -> Digest] :
            \A i \in 1 .. n : i <= Len(chunks) => s[i] = chunks[i]}

\* The FileMeta a reader or the map itself can end up with when a write of
\* new overlaps another access and is neither of the two values: the struct
\* is copied word by word.
Mixed(old, new) ==
    [totalChunks : {old.totalChunks, new.totalChunks},
     chunks : {old.chunks, new.chunks}
                \cup Overread(old.chunks, Len(new.chunks))
                \cup Overread(new.chunks, Len(old.chunks))] \ {old, new}

Current(p, n) == IF sharedFiles[p][n] = None THEN ZeroMeta ELSE sharedFiles[p][n]

-----------------------------------------------------------------------------
(***************************************************************************)
(* Requests.                                                               *)
(***************************************************************************)
IdleUpload == [pc |-> "idle", peer |-> None, name |-> None,
               content |-> <<>>, next |-> 1]

IdleDownload ==
    [pc |-> "idle", peer |-> None, name |-> None, primary |-> None,
     epoch |-> [p \in Peer |-> 0], meta |-> ZeroMeta, toProbe |-> <<>>, avail |-> <<>>,
     pending |-> {}, replies |-> {}, results |-> <<>>, data |-> <<>>]

\* A finished request: its goroutines are gone, the answer is left.
Failed == [IdleDownload EXCEPT !.pc = "failed"]

UploadPC == {"idle", "store", "add", "done"}
DownloadPC == {"idle", "meta", "peers", "probe", "fetch", "register", "open",
               "write", "ok", "failed"}
Active == DownloadPC \ {"idle", "ok", "failed"}

\* round-robin assignment: availablePeers[i%peerCount]
Assigned(d, i) == download[d].avail[((i - 1) % Len(download[d].avail)) + 1]

\* The uploads that are inside AddFile on a node.
Adding(p) == {u \in Upload : upload[u].pc = "add" /\ upload[u].peer = p}

Registering(p) ==
    {d \in Download : download[d].pc = "register" /\ download[d].peer = p}

\* While a node is inside AddFile, reads of its map may be under way that this
\* module does not follow: other nodes ask for the list of its files at any
\* time (module Browse does follow them).
MapRace(p) == Adding(p) # {}

\* What SharedFiles[n] of node p may hold after a write of m that overlaps
\* the writes of others: the write may be lost, or leave a fresh entry whose
\* value never came, or be mixed with what was there or with theirs.
RacyWrites(p, n, m, others) ==
    {sharedFiles[p][n], Current(p, n)}
      \cup UNION {Mixed(o, m) : o \in others \cup {Current(p, n)}}

-----------------------------------------------------------------------------
SwarmInit ==
    /\ RegistryInit
    /\ sharedFiles = [p \in Peer |-> [n \in FileName |-> None]]
    /\ chunkData = [p \in Peer |-> [g \in Digest |-> None]]
    /\ disk = [p \in Peer |-> [n \in FileName |-> None]]
    /\ upload = [u \in Upload |-> IdleUpload]
    /\ download = [d \in Download |-> IdleDownload]
    /\ uploaded = [n \in FileName |-> {}]
    /\ raced = FALSE

-----------------------------------------------------------------------------
(***************************************************************************)
(* UploadHandler.                                                          *)
(***************************************************************************)

\* The form is parsed and the file is split.
UploadBegin(u, p, n, c) ==
    /\ upload[u].pc = "idle"
    /\ "http" \in listening[p]
    /\ upload' = [upload EXCEPT ![u] =
                    [pc |-> IF c = <<>> THEN "add" ELSE "store",
                     peer |-> p, name |-> n, content |-> c, next |-> 1]]
    /\ uploaded' = [uploaded EXCEPT ![n] = @ \cup {c}]
    /\ UNCHANGED <<sharedFiles, chunkData, disk, download, raced>>

LastChunkEarly(u) == upload[u].next + 1 >= Len(upload[u].content)
LastChunk(u) == upload[u].next = Len(upload[u].content)

\* One turn of the loop over the chunks: Mu is held for one map write.
UploadStore(u) ==
    /\ upload[u].pc = "store"
    /\ LET p == upload[u].peer
           b == upload[u].content[upload[u].next]
       IN  /\ chunkData' = [chunkData EXCEPT ![p][Sum256[b]] = b]
           /\ upload' = [upload EXCEPT ![u] =
                 [upload[u] EXCEPT !.next = @ + 1,
                                   !.pc = IF LastChunk(u) THEN "add" ELSE "store"]]
    /\ UNCHANGED <<sharedFiles, disk, download, uploaded, raced>>

UploadDone(u) == [upload EXCEPT ![u] = [IdleUpload EXCEPT !.pc = "done"]]

\* Variant: the chunks of the version that is replaced are dropped.
UploadAddReplaces(u) ==
    LET p == upload[u].peer
        m == MetaOf(upload[u].content)
    IN  /\ upload[u].pc = "add"
        /\ sharedFiles' = [sharedFiles EXCEPT ![p][upload[u].name] = m]
        /\ chunkData' = [chunkData EXCEPT ![p] =
              [g \in Digest |-> IF g \in Range(m.chunks) THEN @[g] ELSE None]]
        /\ upload' = UploadDone(u)
        /\ UNCHANGED <<disk, download, uploaded, raced>>

\* AddFile, as if nothing else touched the map.
UploadAdd(u) ==
    /\ upload[u].pc = "add"
    /\ sharedFiles' = [sharedFiles EXCEPT ![upload[u].peer][upload[u].name] =
                         MetaOf(upload[u].content)]
    /\ upload' = UploadDone(u)
    /\ UNCHANGED <<chunkData, disk, download, uploaded, raced>>

\* AddFile racing with another AddFile or with the end of a download.
UploadAddRaces(u) ==
    /\ upload[u].pc = "add"
    /\ LET p == upload[u].peer
           n == upload[u].name
           uploads   == {v \in Adding(p) \ {u} : upload[v].name = n}
           downloads == {d \in Registering(p) : download[d].name = n}
       IN  /\ (Adding(p) \ {u}) \cup Registering(p) # {}
           /\ \E m \in RacyWrites(p, n, MetaOf(upload[u].content),
                          {MetaOf(upload[v].content) : v \in uploads}
                            \cup {download[d].meta : d \in downloads}) :
                 sharedFiles' = [sharedFiles EXCEPT ![p][n] = m]
    /\ upload' = UploadDone(u)
    /\ raced' = TRUE
    /\ UNCHANGED <<chunkData, disk, download, uploaded>>

UploadStep(u) == UploadStore(u) \/ UploadAdd(u) \/ UploadAddRaces(u)

-----------------------------------------------------------------------------
(***************************************************************************)
(* Downloader.Download and DownloadHandler.                                *)
(***************************************************************************)

\* A call to another node fails when nobody answers or the answer is lost;
\* the transports turn both into an error after at most 30 seconds.
CallFails(p, a) == ~Serves(p, a) \/ "loss" \in Faults

Becomes(d, dl) == download' = [download EXCEPT ![d] = dl]
Fail(d) == Becomes(d, Failed)

\* The primary peer is whatever address the user's request names.
DownloadBegin(d, p, n, a) ==
    /\ download[d].pc = "idle"
    /\ "http" \in listening[p]
    /\ Becomes(d, [IdleDownload EXCEPT !.pc = "meta", !.peer = p,
                                      !.name = n, !.primary = a])
    /\ UNCHANGED <<sharedFiles, chunkData, disk, upload, uploaded, raced>>

\* The node a download asks when it dials a, and whether it finds a listener.
Source(d, a) == NodeAt(download[d].peer, a)
Answering(d, a) == Serves(download[d].peer, a)

\* The metadata m arrives; a file without chunks is refused.
MetaArrives(d, m) ==
    IF m.totalChunks = 0 \/ m.chunks = <<>>
    THEN Fail(d)
    ELSE Becomes(d, [download[d] EXCEPT
                       !.pc = "peers", !.meta = m, !.epoch = incarnation])

FetchMeta(d) ==
    /\ download[d].pc = "meta"
    /\ Answering(d, download[d].primary)
    /\ LET m == sharedFiles[Source(d, download[d].primary)][download[d].name]
       IN  m # None /\ MetaArrives(d, m)
    /\ UNCHANGED <<sharedFiles, chunkData, disk, upload, uploaded, raced>>

\* The handler reads the map while an upload writes it: it may miss the entry,
\* or copy one that is being written.
FetchMetaRaces(d) ==
    /\ download[d].pc = "meta"
    /\ Answering(d, download[d].primary)
    /\ LET q == Source(d, download[d].primary)
           n == download[d].name
       IN  \/ Adding(q) # {} /\ Fail(d)
           \/ \E u \in Adding(q) :
                 /\ upload[u].name = n
                 /\ \E m \in Mixed(Current(q, n), MetaOf(upload[u].content)) :
                       MetaArrives(d, m)
    /\ raced' = TRUE
    /\ UNCHANGED <<sharedFiles, chunkData, disk, upload, uploaded>>

FetchMetaFails(d) ==
    /\ download[d].pc = "meta"
    /\ \/ CallFails(download[d].peer, download[d].primary)
       \/ sharedFiles[Source(d, download[d].primary)][download[d].name] = None
    /\ Fail(d)
    /\ UNCHANGED <<sharedFiles, chunkData, disk, upload, uploaded, raced>>

\* findPeersWithFile copies the registry.
FindPeers(d) ==
    /\ download[d].pc = "peers"
    /\ Becomes(d, [download[d] EXCEPT !.pc = "probe",
                                      !.avail = <<download[d].primary>>,
                                      !.toProbe = registry[download[d].peer]])
    /\ UNCHANGED <<sharedFiles, chunkData, disk, upload, uploaded, raced>>

\* The addresses the loop of findPeersWithFile passes over; the node knows itself
\* by its "localhost" HTTP address only.  Variants leave one of the two out.
SkippedSelf(d) == {HTTPAddress(download[d].peer)}
SkippedPrimary(d) == {download[d].primary}
Skipped(d) == {HTTPAddress(download[d].peer), download[d].primary}

\* The probe FetchFileMeta(name) that p sends to a is answered with metadata.
\* Variant: any answer counts.
AnswersProbe(p, a, n) == Serves(p, a)
HasFile(p, a, n) == Serves(p, a) /\ sharedFiles[NodeAt(p, a)][n] # None

\* One turn of the loop; the answer may also miss the entry because an upload
\* is writing the map.
ProbePeer(d) ==
    /\ download[d].pc = "probe"
    /\ download[d].toProbe # <<>>
    /\ LET a == Head(download[d].toProbe)
           skip == a \in Skipped(d)
           found == HasFile(download[d].peer, a, download[d].name)
       IN  \/ /\ ~skip /\ found
              /\ Becomes(d, [download[d] EXCEPT !.toProbe = Tail(@),
                                                !.avail = Append(@, a)])
           \/ /\ \/ skip \/ ~found \/ CallFails(download[d].peer, a)
                \/ Adding(Source(d, a)) # {}
              /\ Becomes(d, [download[d] EXCEPT !.toProbe = Tail(@)])
    /\ UNCHANGED <<sharedFiles, chunkData, disk, upload, uploaded, raced>>

\* One goroutine per chunk.
LaunchChunks(d) ==
    /\ download[d].pc = "probe"
    /\ download[d].toProbe = <<>>
    /\ Becomes(d, [download[d] EXCEPT !.pc = "fetch",
                                      !.pending = DOMAIN download[d].meta.chunks])
    /\ UNCHANGED <<sharedFiles, chunkData, disk, upload, uploaded, raced>>

\* The chunk handler of the assigned peer answers goroutine i; the answer
\* may be damaged on its way.
FetchChunk(d, i) ==
    /\ i \in download[d].pending
    /\ LET a == Assigned(d, i)
           b == chunkData[Source(d, a)][download[d].meta.chunks[i]]
       IN  /\ Answering(d, a)
           /\ b # None
           /\ \E r \in IF "corrupt" \in Faults THEN Block ELSE {b} :
                 Becomes(d, [download[d] EXCEPT
                               !.pending = @ \ {i},
                               !.replies = @ \cup {[index |-> i, data |-> r]}])
    /\ UNCHANGED <<sharedFiles, chunkData, disk, upload, uploaded, raced>>

\* A result is sent to the channel; one without data carries an error.
\* Variant: the index is left at its zero value.
SentWithoutIndex(results, i, data) == Append(results, [index |-> 1, data |-> data])
Sent(results, i, data) == Append(results, [index |-> i, data |-> data])

FetchChunkFails(d, i) ==
    /\ i \in download[d].pending
    /\ LET a == Assigned(d, i)
       IN  \/ CallFails(download[d].peer, a)
           \/ chunkData[Source(d, a)][download[d].meta.chunks[i]] = None
    /\ Becomes(d, [download[d] EXCEPT
                     !.pending = @ \ {i},
                     !.results = Sent(@, i, None)])
    /\ UNCHANGED <<sharedFiles, chunkData, disk, upload, uploaded, raced>>

\* Variant: every answer is taken.
VerifiedAlways(b, g) == TRUE
Verified(b, g) == Sum256[b] = g

\* Variant of DownloadChunk: the block is returned but not stored.
DownloadChunkNotStored(d, r) ==
    /\ r \in download[d].replies
    /\ LET good == Verified(r.data, download[d].meta.chunks[r.index])
       IN  Becomes(d, [download[d] EXCEPT
                         !.replies = @ \ {r},
                         !.results = Sent(@, r.index, IF good THEN r.data ELSE None)])
    /\ UNCHANGED <<sharedFiles, chunkData, disk, upload, uploaded, raced>>

\* The rest of downloadChunk: verify, store under Mu, send the result.
DownloadChunk(d, r) ==
    /\ r \in download[d].replies
    /\ LET g == download[d].meta.chunks[r.index]
           good == Verified(r.data, g)
       IN  /\ Becomes(d, [download[d] EXCEPT
                            !.replies = @ \ {r},
                            !.results = Sent(@, r.index, IF good THEN r.data ELSE None)])
           /\ IF good
              THEN chunkData' = [chunkData EXCEPT ![download[d].peer][g] = r.data]
              ELSE UNCHANGED chunkData
    /\ UNCHANGED <<sharedFiles, disk, upload, uploaded, raced>>

\* The result channel is closed once every goroutine has sent.  Variant: the
\* loop counts chunks instead, and waits for the good one that failed.
CollectedByCount(d) ==
    /\ download[d].pc = "fetch"
    /\ Cardinality({r \in Range(download[d].results) : r.data # None})
         = download[d].meta.totalChunks
Collected(d) ==
    download[d].pc = "fetch" /\ download[d].pending = {} /\ download[d].replies = {}

\* MergeChunks; the variant takes the chunks as they arrived.
ReassembleUnsorted(results) == [k \in DOMAIN results |-> results[k].data]
Reassemble(results) == [k \in DOMAIN results |-> SortByIndex(results)[k].data]

\* All chunks arrived and none with an error.  Variant: errors are only logged.
UsableByCount(dl) == Len(dl.results) = dl.meta.totalChunks
Usable(dl) ==
    /\ \A r \in Range(dl.results) : r.data # None
    /\ Len(dl.results) = dl.meta.totalChunks

\* The channel is closed; MergeChunks rebuilds the file.
CollectResults(d) ==
    /\ Collected(d)
    /\ IF Usable(download[d])
       THEN Becomes(d, [download[d] EXCEPT
                          !.pc = "register",
                          !.data = Reassemble(download[d].results)])
       ELSE Fail(d)
    /\ UNCHANGED <<sharedFiles, chunkData, disk, upload, uploaded, raced>>

\* The file is shared from here on, under Mu.
RegisterDownload(d) ==
    /\ download[d].pc = "register"
    /\ sharedFiles' = [sharedFiles EXCEPT ![download[d].peer][download[d].name] =
                         download[d].meta]
    /\ Becomes(d, [download[d] EXCEPT !.pc = "open"])
    /\ UNCHANGED <<chunkData, disk, upload, uploaded, raced>>

\* Mu is held, but the AddFile of an upload does not take it.
RegisterDownloadRaces(d) ==
    /\ download[d].pc = "register"
    /\ LET p == download[d].peer
           n == download[d].name
           uploads == {u \in Adding(p) : upload[u].name = n}
       IN  /\ Adding(p) # {}
           /\ \E m \in RacyWrites(p, n, download[d].meta,
                          {MetaOf(upload[u].content) : u \in uploads}) :
                 sharedFiles' = [sharedFiles EXCEPT ![p][n] = m]
    /\ Becomes(d, [download[d] EXCEPT !.pc = "open"])
    /\ raced' = TRUE
    /\ UNCHANGED <<chunkData, disk, upload, uploaded>>

\* The result goes to downloads/ in the directory the node was started in, which
\* other nodes may have been started in as well.
Folder(d) == WorkDir[download[d].peer]

\* os.WriteFile opens the file and truncates it ...
SaveOpen(d) ==
    /\ download[d].pc = "open"
    /\ disk' = [disk EXCEPT ![Folder(d)][download[d].name] = <<>>]
    /\ Becomes(d, [download[d] EXCEPT !.pc = "write"])
    /\ UNCHANGED <<sharedFiles, chunkData, upload, uploaded, raced>>

\* What the file holds after data is written at its start.
Overwrite(file, data) == data \o SubSeq(file, Len(data) + 1, Len(file))

Succeeded(dl) == [IdleDownload EXCEPT !.pc = "ok", !.peer = dl.peer,
                                      !.name = dl.name, !.data = dl.data]

\* ... and then writes the data.  What follows (FetchPeerInfo of each peer
\* used, for display) can only delay the answer.
SaveWrite(d) ==
    /\ download[d].pc = "write"
    /\ disk' = [disk EXCEPT ![Folder(d)][download[d].name] =
                  Overwrite(@, download[d].data)]
    /\ Becomes(d, Succeeded(download[d]))
    /\ UNCHANGED <<sharedFiles, chunkData, upload, uploaded, raced>>

\* The directory or the file cannot be opened, or the write stops part of the
\* way.
SaveFails(d) ==
    /\ "save" \in Faults
    /\ \/ download[d].pc = "open" /\ UNCHANGED disk
       \/ /\ download[d].pc = "write"
          /\ \E k \in 0 .. Len(download[d].data) :
                disk' = [disk EXCEPT ![Folder(d)][download[d].name] =
                           Overwrite(@, SubSeq(download[d].data, 1, k))]
    /\ Fail(d)
    /\ UNCHANGED <<sharedFiles, chunkData, upload, uploaded, raced>>

DownloadStep(d) ==
    \/ FetchMeta(d) \/ FetchMetaRaces(d) \/ FetchMetaFails(d)
    \/ FindPeers(d) \/ ProbePeer(d) \/ LaunchChunks(d)
    \/ \E i \in download[d].pending : FetchChunk(d, i) \/ FetchChunkFails(d, i)
    \/ \E r \in download[d].replies : DownloadChunk(d, r)
    \/ CollectResults(d)
    \/ RegisterDownload(d) \/ RegisterDownloadRaces(d)
    \/ SaveOpen(d) \/ SaveWrite(d) \/ SaveFails(d)

-----------------------------------------------------------------------------
\* A process ends, by a crash or by the Go runtime's fatal error when it
\* notices concurrent accesses to a map.  Only the disk survives; the
\* requests the process was serving end with it.  (A write it cuts short is a
\* SaveFails before it.)
CrashPeer(p) ==
    /\ "crash" \in Faults \/ MapRace(p)
    /\ Stop(p)
    /\ sharedFiles' = [sharedFiles EXCEPT ![p] = [n \in FileName |-> None]]
    /\ chunkData' = [chunkData EXCEPT ![p] = [g \in Digest |-> None]]
    /\ upload' = [u \in Upload |->
                    IF upload[u].peer = p
                    THEN [IdleUpload EXCEPT !.pc = "done"] ELSE upload[u]]
    /\ download' = [d \in Download |->
                      IF download[d].peer = p /\ download[d].pc \in Active
                      THEN Failed ELSE download[d]]
    /\ UNCHANGED <<disk, uploaded, raced>>

FileStep ==
    \/ \E u \in Upload :
          \/ \E p \in Peer, n \in FileName, c \in Content : UploadBegin(u, p, n, c)
          \/ UploadStep(u)
    \/ \E d \in Download :
          \/ \E p \in Peer, n \in FileName, a \in Address : DownloadBegin(d, p, n, a)
          \/ DownloadStep(d)

Next ==
    \/ Discovery /\ UNCHANGED fileVars
    \/ FileStep /\ UNCHANGED registryVars
    \/ \E p \in Peer : CrashPeer(p)

Spec == SwarmInit /\ [][Next]_vars

\* What the scheduler and the timeouts justify: a request that was accepted
\* is carried on for as long as the process lives, and a call to another node
\* returns an answer or an error.  Nothing forces users to start requests.
Fairness ==
    /\ \A u \in Upload : WF_vars(UploadStep(u) /\ UNCHANGED registryVars)
    /\ \A d \in Download : WF_vars(DownloadStep(d) /\ UNCHANGED registryVars)

FairSpec == Spec /\ Fairness
-----------------------------------------------------------------------------
(***************************************************************************)
(* Properties.                                                             *)
(***************************************************************************)
Maybe(S) == S \cup {None}

UploadRecord ==
    [pc : UploadPC, peer : Maybe(Peer), name : Maybe(FileName),
     content : Seq(Block), next : Nat]

ChunkReply == [index : Nat, data : Block]
ChunkResult == [index : Nat, data : Maybe(Block)]

DownloadRecord ==
    [pc : DownloadPC, peer : Maybe(Peer), name : Maybe(FileName),
     primary : Maybe(Address), epoch : [Peer -> Nat], meta : Meta,
     toProbe : Seq(Address), avail : Seq(Address),
     pending : SUBSET Nat, replies : SUBSET ChunkReply,
     results : Seq(ChunkResult), data : Seq(Block)]

TypeOK ==
    /\ RegistryTypeOK
    /\ sharedFiles \in [Peer -> [FileName -> Maybe(Meta)]]
    /\ chunkData \in [Peer -> [Digest -> Maybe(Block)]]
    /\ disk \in [Peer -> [FileName -> Seq(Block) \cup {None}]]
    /\ upload \in [Upload -> UploadRecord]
    /\ download \in [Download -> DownloadRecord]
    /\ uploaded \in [FileName -> SUBSET Seq(Block)]
    /\ raced \in BOOLEAN

\* A chunk is stored under its own digest only: what the chunk handler serves
\* for a hash has that hash, however many damaged answers were received
\* (upload.go:64-66, downloader.go:189-204).
StoreIsContentAddressed ==
    \A p \in Peer, g \in Digest :
        chunkData[p][g] # None => Sum256[chunkData[p][g]] = g

\* A node that advertises a file can serve each of its chunks: uploads store
\* the chunks before they add the file, downloads register the file after
\* every chunk was stored, and neither ever removes a chunk.
AdvertisedIsServable ==
    ~raced => \A p \in Peer, n \in FileName :
        sharedFiles[p][n] # None =>
            \A g \in Range(sharedFiles[p][n].chunks) : chunkData[p][g] # None

\* README.md:76: "Once all constituent chunks are acquired and their hashes
\* verified, the blocks are perfectly stitched back together sequentially".
\* A download that succeeded returned one version of the file some user
\* uploaded under that name, whole and in order, never a blend, although the
\* chunks come from several peers, in any order, and may be damaged.
DownloadCorrect ==
    ~raced => \A d \in Download :
        download[d].pc = "ok" => download[d].data \in uploaded[download[d].name]

Load(d, a) ==
    Cardinality({i \in DOMAIN download[d].meta.chunks : Assigned(d, i) = a})

\* README.md:27: the chunks are spread over the peers that answered the probe
\* so that no two of them differ by more than one chunk; a peer that occurred
\* twice in the list would be given twice its share.
LoadBalanced ==
    \A d \in Download : download[d].pc = "fetch" =>
        \A a, b \in Range(download[d].avail) : Load(d, a) <= Load(d, b) + 1

\* The version a download is fetching stays servable at its primary peer for
\* as long as that process lives, whatever is uploaded there meanwhile under
\* the same name (downloader.go:78: metadata is read once).
PrimaryKeepsVersion ==
    ~raced => \A d \in Download :
        LET q == Source(d, download[d].primary) IN
        (/\ download[d].pc \in {"peers", "probe", "fetch"}
         /\ q \in running
         /\ incarnation[q] = download[d].epoch[q])
        => \A g \in Range(download[d].meta.chunks) : chunkData[q][g] # None

ReplyIndexes(dl) == {r.index : r \in dl.replies}
ResultIndexes(dl) == {dl.results[k].index : k \in DOMAIN dl.results}

Accounted(dl) ==
    /\ dl.pending \cup ReplyIndexes(dl) \cup ResultIndexes(dl) = DOMAIN dl.meta.chunks
    /\ dl.pending \cap ReplyIndexes(dl) = {}
    /\ (dl.pending \cup ReplyIndexes(dl)) \cap ResultIndexes(dl) = {}
    /\ \A r, s \in dl.replies : r.index = s.index => r = s
    /\ \A j, k \in DOMAIN dl.results :
          dl.results[j].index = dl.results[k].index => j = k

\* Every chunk of a download is accounted for exactly once (waiting, answered
\* or sent to the channel), so when the channel is closed each position has
\* one result; the count check of downloader.go:143 can fire only on torn
\* metadata.
ChunksAccounted ==
    \A d \in Download : download[d].pc = "fetch" => Accounted(download[d])

\* downloader.go:52: "queries all known peers (except self)".  Beyond the peer
\* the user chose, a node never asks itself for chunks under the address it knows
\* itself by; it does under another spelling that is on its own command line,
\* and, because the check at :56 compares HTTP addresses whatever the transport,
\* under its own TCP address.
SelfProbedForCause ==
    \A d \in Download :
        LET p == download[d].peer IN
        \A k \in DOMAIN download[d].avail :
            (k # 1 /\ Source(d, download[d].avail[k]) = p) =>
                /\ download[d].avail[k] # HTTPAddress(p)
                /\ \/ download[d].avail[k] \in Range(PeersFlag[p])
                   \/ Mode[p] = "tcp" /\ download[d].avail[k] = P2PAddress(p)

\* Peer.ChunkDataStorage and SharedFiles only grow while a process lives: a
\* peer that was found in a probe cannot lose the file before it is asked for
\* chunks, except by stopping.
NothingIsUnshared ==
    [][\A p \in Peer : p \in running' =>
          /\ \A n \in FileName : sharedFiles[p][n] # None
                                 => sharedFiles'[p][n] # None
          /\ \A g \in Digest : chunkData[p][g] # None
                               => chunkData'[p][g] = chunkData[p][g]]_vars

\* No two versions of a file were uploaded.
SingleVersion(n) == \A x, y \in uploaded[n] : x = y

\* Answers arrive, and arrive undamaged.
Reliable == Faults \cap {"loss", "corrupt"} = {}

\* The process at address a is the one that ran when the metadata came.
Stands(d, a) ==
    LET q == Source(d, a)
    IN  q \in running /\ incarnation[q] = download[d].epoch[q]

Undisturbed(d) ==
    /\ ~raced /\ Reliable /\ SingleVersion(download[d].name)
    /\ \A a \in Range(download[d].avail) : Stands(d, a)

\* Chunks are fetched from every peer that knows the name (downloader.go:64),
\* and one that is missing fails the file (downloader.go:138).  Still, once a
\* download has its metadata it fails only if its node or one of its sources
\* stopped, answers were lost or damaged, the file could not be saved, the data
\* race struck, or several versions of the file were uploaded.
DownloadFailsForCause ==
    [][\A d \in Download :
          (download[d].pc \in Active \ {"meta"} /\ download'[d].pc = "failed") =>
             \/ download[d].peer \notin running'
             \/ download[d].pc \in {"open", "write"} /\ "save" \in Faults
             \/ download[d].pc = "fetch" /\ ~Undisturbed(d)]_vars

\* Every download that was accepted is answered: each remote call returns
\* within its timeout, every chunk goroutine sends one result, and the channel
\* is closed after the last of them (downloader.go:109).
DownloadEnds ==
    \A d \in Download :
        (download[d].pc \in Active) ~> (download[d].pc \in {"ok", "failed"})

\* How far a download has come.
Stage(pc) ==
    CASE pc = "idle"     -> 0
      [] pc = "meta"     -> 1
      [] pc = "peers"    -> 2
      [] pc = "probe"    -> 3
      [] pc = "fetch"    -> 4
      [] pc = "register" -> 5
      [] pc = "open"     -> 6
      [] pc = "write"    -> 7
      [] OTHER           -> 8

\* A download has reached a later stage, or has one peer less to ask, or one
\* chunk less to wait for.
Advanced(dl, new) ==
    \/ Stage(new.pc) > Stage(dl.pc)
    \/ /\ dl.pc = "probe" /\ new.pc = "probe"
       /\ dl.toProbe # <<>> /\ new.toProbe = Tail(dl.toProbe)
    \/ /\ dl.pc = "fetch" /\ new.pc = "fetch"
       /\ \/ \E i \in dl.pending : new.pending = dl.pending \ {i}
          \/ /\ new.pending = dl.pending
             /\ \E r \in dl.replies : new.replies = dl.replies \ {r}

\* The loops of a download end: whatever it does brings it nearer to its end,
\* and nothing that others do sets it back.
DownloadAdvances ==
    [][\A d \in Download :
          download'[d] = download[d] \/ Advanced(download[d], download'[d])]_vars

\* With one version of a file and nodes that stay up, a download that obtained
\* the metadata succeeds, whichever peers the probe adds.
SingleVersionSucceeds ==
    \A d \in Download, n \in FileName :
        (download[d].pc = "peers" /\ download[d].name = n)
        ~> \/ download[d].pc = "ok"
           \/ Cardinality(uploaded[n]) > 1 \/ raced \/ running # Peer

-----------------------------------------------------------------------------
(***************************************************************************)
(* What the invariants rest on.                                            *)
(***************************************************************************)

\* A request under way knows its node, its file and its place.
UploadsTyped ==
    \A u \in Upload : upload[u].pc \in {"store", "add"} =>
        /\ upload[u].peer \in Peer
        /\ upload[u].name \in FileName
        /\ upload[u].content \in Content
        /\ IF upload[u].pc = "store" THEN upload[u].next \in DOMAIN upload[u].content
           ELSE upload[u].next = Len(upload[u].content) + 1

DownloadTyped(dl) ==
    /\ dl.pc \in Active =>
          dl.peer \in Peer /\ dl.name \in FileName /\ dl.primary \in Address
    /\ dl.pc = "ok" => dl.name \in FileName
    /\ dl.pc \in {"peers", "probe", "fetch"} => dl.meta.chunks # <<>>
    /\ dl.pc \in {"probe", "fetch"} => dl.avail # <<>>
    /\ dl.pc # "fetch" => dl.pending = {} /\ dl.replies = {}
    /\ dl.pc \in {"idle", "meta", "peers", "probe"} => dl.results = <<>>

DownloadsTyped == \A d \in Download : DownloadTyped(download[d])

\* A file that is being written has been created.
WritesOpened ==
    \A d \in Download : download[d].pc = "write" =>
        disk[Folder(d)][download[d].name] # None

\* An upload has stored every chunk before the one it is at.
UploadsStored ==
    \A u \in Upload : upload[u].pc \in {"store", "add"} =>
        /\ upload[u].content \in uploaded[upload[u].name]
        /\ \A i \in DOMAIN upload[u].content :
              i < upload[u].next =>
                 chunkData[upload[u].peer][Sum256[upload[u].content[i]]] # None

\* A download has stored the chunks of every good result under the digest the
\* metadata names.
ResultsVerified ==
    \A d \in Download : \A k \in DOMAIN download[d].results :
        LET r == download[d].results[k]
            g == download[d].meta.chunks[r.index]
        IN  (download[d].pc = "fetch" /\ r.data # None)
            => Sum256[r.data] = g /\ chunkData[download[d].peer][g] # None

\* What is advertised, and what a download works from, was uploaded.
SharedIsUploaded ==
    ~raced => \A p \in Peer, n \in FileName : sharedFiles[p][n] # None =>
        \E c \in uploaded[n] : sharedFiles[p][n] = MetaOf(c)

FetchedIsUploaded ==
    ~raced => \A d \in Download :
        download[d].pc \in {"peers", "probe", "fetch", "register"} =>
            \E c \in uploaded[download[d].name] : download[d].meta = MetaOf(c)

\* A download that is about to be registered is complete.
RegisteredIsStored ==
    \A d \in Download : download[d].pc = "register" =>
        \A g \in Range(download[d].meta.chunks) :
            chunkData[download[d].peer][g] # None

ReassembledIsUploaded ==
    ~raced => \A d \in Download :
        download[d].pc \in {"register", "open", "write", "ok"} =>
            download[d].data \in uploaded[download[d].name]

\* The inductive invariant of the proofs in SwarmProofs.
SafetyInv ==
    /\ TypeOK
    /\ UploadsTyped
    /\ DownloadsTyped
    /\ ChunksAccounted
    /\ WritesOpened
    /\ StoreIsContentAddressed
    /\ UploadsStored
    /\ ResultsVerified
    /\ RegisteredIsStored
    /\ SharedIsUploaded
    /\ AdvertisedIsServable
    /\ FetchedIsUploaded
    /\ ReassembledIsUploaded

\* What can get into the registry of p: what is on its command line, and what a
\* node announces.
Listable(p) == Range(PeersFlag[p]) \cup {P2PAddress(q) : q \in Peer}

\* The sources of a download begin with the primary peer; the others come from
\* the registry, each once, were not passed over, and answered over the node's
\* transport.
SourcesDistinct ==
    \A d \in Download :
        LET dl == download[d]
            probed == {dl.avail[k] : k \in DOMAIN dl.avail \ {1}}
        IN  /\ dl.avail # <<>> => dl.peer \in Peer
            /\ Distinct(dl.avail)
            /\ \A a \in probed :
                  /\ a \in Listable(dl.peer) /\ a \notin Skipped(d)
                  /\ Reaches[dl.peer][a].transport = Mode[dl.peer]
            /\ dl.pc \in {"probe", "fetch"} => dl.avail[1] = dl.primary
            /\ dl.pc = "probe" =>
                  /\ Distinct(dl.toProbe)
                  /\ Range(dl.toProbe) \subseteq Listable(dl.peer) \ probed

\* The processes that a download knows of are not yet to come.
EpochsPast ==
    \A d \in Download : download[d].pc \in {"peers", "probe", "fetch"} =>
        \A q \in Peer : download[d].epoch[q] <= incarnation[q]

\* The inductive invariant of the proofs in ServiceProofs.
SourcesInv ==
    /\ SafetyInv
    /\ RegistryInv
    /\ SourcesDistinct
    /\ EpochsPast
    /\ PrimaryKeepsVersion

\* The nodes a download relies on: the one that sent the metadata, and from the
\* probe on all that answered.
SourcesOf(dl) == IF dl.pc = "peers" THEN {dl.primary} ELSE Range(dl.avail)

\* A source that has not stopped since has every chunk of the only version.
SourcesComplete ==
    \A d \in Download :
        (/\ ~raced
         /\ download[d].pc \in {"peers", "probe", "fetch"}
         /\ SingleVersion(download[d].name))
        => \A a \in SourcesOf(download[d]) :
              Stands(d, a) =>
                 /\ Answering(d, a)
                 /\ \A g \in Range(download[d].meta.chunks) :
                       chunkData[Source(d, a)][g] # None

\* Nothing damages a chunk under way, and nothing is missing without cause.
ArrivedGood ==
    \A d \in Download : download[d].pc = "fetch" =>
        /\ Reliable => \A r \in download[d].replies :
                          Sum256[r.data] = download[d].meta.chunks[r.index]
        /\ Undisturbed(d) => \A k \in DOMAIN download[d].results :
                                download[d].results[k].data # None

\* The inductive invariant behind DownloadFailsForCause.
CauseInv ==
    /\ SourcesInv
    /\ SourcesComplete
    /\ ArrivedGood

-----------------------------------------------------------------------------
(***************************************************************************)
(* The swarm implements FileService.                                       *)
(***************************************************************************)
RequestOf(dl) ==
    CASE dl.pc = "idle"   -> [status |-> "idle"]
      [] dl.pc = "failed" -> [status |-> "refused"]
      [] dl.pc = "ok"     -> [status |-> "answered", name |-> dl.name,
                              data |-> dl.data]
      [] OTHER            -> [status |-> "pending", name |-> dl.name]

Service == INSTANCE FileService WITH
    Version  <- Content,
    Request  <- Download,
    versions <- uploaded,
    request  <- [d \in Download |-> RequestOf(download[d])],
    broken   <- raced

\* Whatever peers, chunks and failures do, users see published versions:
\* Downloader.Download answers with one of them or with an error.
ServiceImplemented == Service!ServiceSpec

-----------------------------------------------------------------------------
(***************************************************************************)
(* What the documentation says and the code does not do.                   *)
(***************************************************************************)

\* docs/architecture.md:338: "Concurrent Safety | RWMutex on all shared
\* state".  The metadata a download works from is one that was registered.
MetadataIsOneVersion ==
    \A d \in Download : download[d].pc \in {"peers", "probe", "fetch"} =>
        \E c \in uploaded[download[d].name] : download[d].meta = MetaOf(c)

\* README.md:29: "Chunks are acquired out-of-order and seamlessly
\* reconstructed into the final file locally."  When no save is going on,
\* a downloaded file holds one version of the file.
DiskHoldsOneVersion ==
    \A w \in Peer, n \in FileName :
        \/ disk[w][n] \in uploaded[n] \cup {None}
        \/ raced
        \/ \E d \in Download :
              download[d].pc = "write" /\ Folder(d) = w /\ download[d].name = n
=============================================================================
