---------------------------- MODULE SwarmProofs -----------------------------
(***************************************************************************)
(* SafetyInv is an inductive invariant of Swarm: proofs for any number of  *)
(* nodes, files, chunks and requests, and for every set of faults.         *)
(*                                                                         *)
(* The invariant is proved in two halves.  TypesInv says of every record   *)
(* what it holds at each place of the handler; the lemmas ...Types show    *)
(* that each action keeps it.  SafetyInv2 says how requests, chunk stores, *)
(* advertised files and disks are related; the lemmas ...Safe show that    *)
(* each action keeps it, given the first half.  Most of the second half    *)
(* rests on two facts: stores, versions and files on disk only grow while  *)
(* a process lives (the Stable lemmas), and the results of a download are  *)
(* a permutation of its positions (SortRestoresOrder), so that blocks that *)
(* match the digests of a version merge into that version.                 *)
(***************************************************************************)
EXTENDS Swarm, RegistryProofs, ChunkOrderProofs

\* The first half: types and places.
TypesInv == TypeOK /\ UploadsTyped /\ DownloadsTyped /\ ChunksAccounted

\* The records of a request that has not begun and of one that failed are
\* legal (IdleUpload and IdleDownload, UploadHandler and Downloader.Download).
LEMMA IdleTyped ==
    /\ IdleUpload \in UploadRecord
    /\ IdleDownload \in DownloadRecord
    /\ Failed \in DownloadRecord
    /\ DownloadTyped(IdleDownload)
    /\ DownloadTyped(Failed)
<1>1. ZeroMeta \in Meta
  BY DEF ZeroMeta, Meta
<1>2. IdleUpload \in UploadRecord
  BY DEF IdleUpload, UploadRecord, UploadPC, Maybe
<1>3. IdleDownload \in DownloadRecord
  BY <1>1 DEF IdleDownload, DownloadRecord, DownloadPC, Maybe
<1>4. Failed \in DownloadRecord
  BY <1>3 DEF Failed, DownloadRecord, DownloadPC
<1>5. DownloadTyped(IdleDownload) /\ DownloadTyped(Failed)
  BY DEF Failed, IdleDownload, DownloadTyped, Active, DownloadPC
<1> QED
  BY <1>2, <1>3, <1>4, <1>5

-----------------------------------------------------------------------------
\* UploadHandler, parsing and splitting: the new upload is at its first chunk,
\* or past the last one when the file is empty (upload.go:48-55).
LEMMA UploadBeginTypes ==
    ASSUME TypesInv, UNCHANGED registryVars, NEW u \in Upload, NEW p \in Peer,
           NEW n \in FileName, NEW c \in Content, UploadBegin(u, p, n, c)
    PROVE  TypesInv'
<1>1. RegistryTypeOK'
  BY DEF TypesInv, TypeOK, RegistryTypeOK, registryVars
<1>2. c \in Seq(Block)
  BY ContentAssumption
<1> DEFINE new == [pc |-> IF c = <<>> THEN "add" ELSE "store",
                   peer |-> p, name |-> n, content |-> c, next |-> 1]
<1>3. new \in UploadRecord
  BY <1>2 DEF UploadRecord, UploadPC, Maybe
<1>4. upload' = [upload EXCEPT ![u] = new]
  BY DEF UploadBegin
<1>5. UploadsTyped'
  <2>1. c # <<>> => 1 \in DOMAIN c
    BY <1>2
  <2>2. c = <<>> => Len(c) + 1 = 1
    OBVIOUS
  <2> QED
    BY <1>2, <1>4, <2>1, <2>2 DEF TypesInv, TypeOK, UploadsTyped
<1>6. TypeOK'
  <2>1. upload' \in [Upload -> UploadRecord]
    BY <1>3, <1>4 DEF TypesInv, TypeOK
  <2>2. uploaded' \in [FileName -> SUBSET Seq(Block)]
    BY <1>2 DEF TypesInv, TypeOK, UploadBegin
  <2> QED
    BY <1>1, <2>1, <2>2 DEF TypesInv, TypeOK, UploadBegin
<1>7. DownloadsTyped' /\ ChunksAccounted'
  BY DEF TypesInv, DownloadsTyped, ChunksAccounted, UploadBegin
<1> QED
  BY <1>5, <1>6, <1>7 DEF TypesInv

\* One turn of UploadHandler's loop over the chunks keeps the place of the
\* upload within the file (upload.go:57-68).
LEMMA UploadStoreTypes ==
    ASSUME TypesInv, UNCHANGED registryVars, NEW u \in Upload, UploadStore(u)
    PROVE  TypesInv'
<1>1. RegistryTypeOK'
  BY DEF TypesInv, TypeOK, RegistryTypeOK, registryVars
<1> DEFINE up == upload[u]
           b == up.content[up.next]
           new == [up EXCEPT !.next = @ + 1,
                             !.pc = IF up.next = Len(up.content)
                                    THEN "add" ELSE "store"]
<1>2. /\ up \in UploadRecord /\ up.pc = "store" /\ up.content \in Seq(Block)
      /\ up.peer \in Peer /\ up.name \in FileName /\ up.content \in Content
      /\ up.next \in DOMAIN up.content
  BY DEF TypesInv, TypeOK, UploadsTyped, UploadStore, UploadRecord
<1>3. b \in Block /\ Sum256[b] \in Digest
  BY <1>2, DigestAssumption
<1>4. upload' = [upload EXCEPT ![u] = new]
  BY DEF UploadStore, LastChunk
<1>5. new \in UploadRecord
  <2>1. up.next + 1 \in Nat
    BY <1>2 DEF UploadRecord
  <2>2. (IF up.next = Len(up.content) THEN "add" ELSE "store") \in UploadPC
    BY DEF UploadPC
  <2> QED
    BY <1>2, <2>1, <2>2 DEF UploadRecord
<1>6. IF new.pc = "store" THEN new.next \in DOMAIN new.content
      ELSE new.next = Len(new.content) + 1
  BY <1>2 DEF UploadRecord
<1>7. UploadsTyped'
  BY <1>2, <1>4, <1>5, <1>6 DEF TypesInv, TypeOK, UploadsTyped, UploadRecord
<1>8. TypeOK'
  <2>1. upload' \in [Upload -> UploadRecord]
    BY <1>4, <1>5 DEF TypesInv, TypeOK
  <2>2. chunkData' \in [Peer -> [Digest -> Maybe(Block)]]
    BY <1>2, <1>3 DEF TypesInv, TypeOK, UploadStore, Maybe
  <2> QED
    BY <1>1, <2>1, <2>2 DEF TypesInv, TypeOK, UploadStore
<1>9. DownloadsTyped' /\ ChunksAccounted'
  BY DEF TypesInv, DownloadsTyped, ChunksAccounted, UploadStore
<1> QED
  BY <1>7, <1>8, <1>9 DEF TypesInv

\* The metadata BuildFileMetadata makes of a file is metadata, and its chunks
\* are the digests of the file's blocks.
LEMMA MetaOfType ==
    ASSUME NEW c \in Seq(Block)
    PROVE  MetaOf(c) \in Meta /\ Range(MetaOf(c).chunks) = {Sum256[c[i]] : i \in DOMAIN c}
BY DigestAssumption DEF MetaOf, Meta, Range

\* The metadata at hand while an entry is written is the old entry's or the zero
\* value of FileMeta.
LEMMA CurrentType ==
    ASSUME NEW q, NEW n, sharedFiles[q][n] \in Maybe(Meta)
    PROVE  Current(q, n) \in Meta
<1>1. ZeroMeta \in Meta
  <2>1. <<>> \in Seq(Digest) /\ 0 \in Nat
    OBVIOUS
  <2> QED
    BY <2>1 DEF ZeroMeta, Meta
<1>2. sharedFiles[q][n] # None => sharedFiles[q][n] \in Meta
  BY DEF Maybe
<1> QED
  BY <1>1, <1>2 DEF Current

\* A FileMeta copied word by word while another is written is still a count
\* and a list of digests.
LEMMA MixedType ==
    ASSUME NEW old \in Meta, NEW new \in Meta, NEW m \in Mixed(old, new)
    PROVE  m \in Meta
<1>1. ASSUME NEW s \in Seq(Digest), NEW n \in Nat
      PROVE  Overread(s, n) \subseteq Seq(Digest)
  BY DEF Overread
<1>2. Len(old.chunks) \in Nat /\ Len(new.chunks) \in Nat
  BY DEF Meta
<1>3. /\ Overread(old.chunks, Len(new.chunks)) \subseteq Seq(Digest)
      /\ Overread(new.chunks, Len(old.chunks)) \subseteq Seq(Digest)
  BY <1>1, <1>2 DEF Meta
<1> QED
  BY <1>3 DEF Mixed, Meta

\* The value of SharedFiles after a racing write is metadata or absent.
LEMMA RacyWriteType ==
    ASSUME TypesInv, NEW p \in Peer, NEW n \in FileName, NEW m \in Meta,
           NEW others \in SUBSET Meta, NEW x \in RacyWrites(p, n, m, others)
    PROVE  x \in Maybe(Meta)
<1>1. sharedFiles[p][n] \in Maybe(Meta)
  BY DEF TypesInv, TypeOK
<1>2. Current(p, n) \in Meta
  BY <1>1, CurrentType
<1>3. \A o \in others \cup {Current(p, n)} : Mixed(o, m) \subseteq Meta
  BY <1>2, MixedType
<1> QED
  BY <1>1, <1>2, <1>3 DEF RacyWrites, Maybe

\* AddFile, raced or not, leaves metadata in the map (upload.go:70-76).
LEMMA UploadAddTypes ==
    ASSUME TypesInv, UNCHANGED registryVars, NEW u \in Upload,
           UploadAdd(u) \/ UploadAddRaces(u)
    PROVE  TypesInv'
<1>1. RegistryTypeOK'
  BY DEF TypesInv, TypeOK, RegistryTypeOK, registryVars
<1> DEFINE p == upload[u].peer
           n == upload[u].name
           c == upload[u].content
<1>2. p \in Peer /\ n \in FileName /\ c \in Seq(Block)
  BY DEF TypesInv, TypeOK, UploadsTyped, UploadAdd, UploadAddRaces, UploadRecord
<1>3. MetaOf(c) \in Meta
  BY <1>2, MetaOfType
<1>4. sharedFiles' \in [Peer -> [FileName -> Maybe(Meta)]]
  <2>1. CASE UploadAdd(u)
    BY <1>2, <1>3, <2>1 DEF TypesInv, TypeOK, UploadAdd, Maybe
  <2>2. CASE UploadAddRaces(u)
    <3> DEFINE uploads   == {v \in Adding(p) \ {u} : upload[v].name = n}
               downloads == {d \in Registering(p) : download[d].name = n}
               others == {MetaOf(upload[v].content) : v \in uploads}
                           \cup {download[d].meta : d \in downloads}
    <3>1. \A v \in Upload : MetaOf(upload[v].content) \in Meta
      <4>1. \A v \in Upload : upload[v].content \in Seq(Block)
        BY DEF TypesInv, TypeOK, UploadRecord
      <4> QED
        BY <4>1, MetaOfType
    <3>2. \A d \in Download : download[d].meta \in Meta
      BY DEF TypesInv, TypeOK, DownloadRecord
    <3>3. others \in SUBSET Meta
      BY <3>1, <3>2 DEF Adding, Registering
    <3>4. PICK m \in RacyWrites(p, n, MetaOf(c), others) :
              sharedFiles' = [sharedFiles EXCEPT ![p][n] = m]
      BY <2>2 DEF UploadAddRaces
    <3>5. m \in Maybe(Meta)
      BY <1>2, <1>3, <3>3, RacyWriteType
    <3> QED
      BY <1>2, <3>4, <3>5 DEF TypesInv, TypeOK
  <2> QED
    BY <2>1, <2>2
<1> DEFINE new == [IdleUpload EXCEPT !.pc = "done"]
<1>5. upload' = [upload EXCEPT ![u] = new]
  BY DEF UploadAdd, UploadAddRaces, UploadDone
<1>6. new \in UploadRecord /\ new.pc = "done"
  BY IdleTyped DEF UploadRecord, UploadPC, IdleUpload
<1>7. TypeOK'
  <2>1. upload' \in [Upload -> UploadRecord]
    BY <1>5, <1>6 DEF TypesInv, TypeOK
  <2> QED
    BY <1>1, <1>4, <2>1 DEF TypesInv, TypeOK, UploadAdd, UploadAddRaces
<1>8. UploadsTyped'
  BY <1>5, <1>6 DEF TypesInv, TypeOK, UploadsTyped
<1>9. DownloadsTyped' /\ ChunksAccounted'
  BY DEF TypesInv, DownloadsTyped, ChunksAccounted, UploadAdd, UploadAddRaces
<1> QED
  BY <1>7, <1>8, <1>9 DEF TypesInv

-----------------------------------------------------------------------------
\* A record that keeps a download's state legal.
LegalDownload(dl) ==
    /\ dl \in DownloadRecord
    /\ DownloadTyped(dl)
    /\ dl.pc = "fetch" => Accounted(dl)

\* The invariant holds after a step of one download whose new record is legal.
LEMMA DownloadStepTypes ==
    ASSUME TypesInv, UNCHANGED registryVars, NEW d \in Download,
           NEW dl, LegalDownload(dl), Becomes(d, dl),
           UNCHANGED <<upload, uploaded>>,
           sharedFiles' \in [Peer -> [FileName -> Maybe(Meta)]],
           chunkData' \in [Peer -> [Digest -> Maybe(Block)]],
           disk' \in [Peer -> [FileName -> Seq(Block) \cup {None}]],
           raced' \in BOOLEAN
    PROVE  TypesInv'
<1>1. RegistryTypeOK'
  BY DEF TypesInv, TypeOK, RegistryTypeOK, registryVars
<1>2. download' \in [Download -> DownloadRecord]
  BY DEF TypesInv, TypeOK, Becomes, LegalDownload
<1>3. TypeOK'
  BY <1>1, <1>2 DEF TypesInv, TypeOK
<1>4. UploadsTyped'
  BY DEF TypesInv, UploadsTyped
<1>5. \A e \in Download : download'[e] = IF e = d THEN dl ELSE download[e]
  BY DEF TypesInv, TypeOK, Becomes
<1>6. DownloadsTyped'
  BY <1>5 DEF TypesInv, DownloadsTyped, LegalDownload
<1>7. ChunksAccounted'
  BY <1>5 DEF TypesInv, ChunksAccounted, LegalDownload
<1> QED
  BY <1>3, <1>4, <1>6, <1>7 DEF TypesInv

\* What the invariant says of one download.
LEMMA DownloadIsLegal ==
    ASSUME TypesInv, NEW d \in Download
    PROVE  LegalDownload(download[d])
BY DEF TypesInv, TypeOK, DownloadsTyped, ChunksAccounted, LegalDownload

\* The record of a failed download is legal in every state.
LEMMA FailedIsLegal == LegalDownload(Failed)
<1>1. Failed.pc = "failed"
  BY DEF Failed, IdleDownload
<1> QED
  BY <1>1, IdleTyped DEF LegalDownload

\* A download may fail at any point without breaking the types.
LEMMA FailTypes ==
    ASSUME TypesInv, UNCHANGED registryVars, NEW d \in Download, Fail(d),
           UNCHANGED <<sharedFiles, chunkData, disk, upload, uploaded>>,
           raced' \in BOOLEAN
    PROVE  TypesInv'
BY FailedIsLegal, DownloadStepTypes DEF Fail, TypesInv, TypeOK

\* DownloadHandler accepts a request (distribute.go:94-111).
LEMMA DownloadBeginTypes ==
    ASSUME TypesInv, UNCHANGED registryVars, NEW d \in Download, NEW p \in Peer,
           NEW n \in FileName, NEW a \in Address, DownloadBegin(d, p, n, a)
    PROVE  TypesInv'
<1> DEFINE new == [IdleDownload EXCEPT !.pc = "meta", !.peer = p,
                                       !.name = n, !.primary = a]
<1>1. new \in DownloadRecord
  BY IdleTyped DEF DownloadRecord, DownloadPC, Maybe
<1>2. DownloadTyped(new)
  BY DEF DownloadTyped, IdleDownload, Active, DownloadPC
<1>3. LegalDownload(new)
  BY <1>1, <1>2 DEF LegalDownload, IdleDownload
<1> QED
  BY <1>3, DownloadStepTypes DEF DownloadBegin, TypesInv, TypeOK

\* Metadata that arrives is refused when it is empty and kept otherwise
\* (downloader.go:76-85).
LEMMA MetaArrivesTypes ==
    ASSUME TypesInv, UNCHANGED registryVars, NEW d \in Download,
           download[d].pc = "meta", NEW m \in Meta, MetaArrives(d, m),
           UNCHANGED <<sharedFiles, chunkData, disk, upload, uploaded>>,
           raced' \in BOOLEAN
    PROVE  TypesInv'
<1>1. CASE m.totalChunks = 0 \/ m.chunks = <<>>
  BY <1>1, FailTypes DEF MetaArrives
<1>2. CASE ~(m.totalChunks = 0 \/ m.chunks = <<>>)
  <2> DEFINE dl == download[d]
             new == [dl EXCEPT !.pc = "peers", !.meta = m,
                               !.epoch = incarnation]
  <2>1. LegalDownload(dl)
    BY DownloadIsLegal
  <2>2. incarnation \in [Peer -> Nat]
    <3>1. incarnation \in [Peer -> 0 .. MaxIncarnation]
      BY DEF TypesInv, TypeOK, RegistryTypeOK
    <3> QED
      BY <3>1, MaxIncarnationAssumption
  <2>3. new \in DownloadRecord
    BY <2>1, <2>2 DEF LegalDownload, DownloadRecord, DownloadPC
  <2>4. DownloadTyped(new)
    BY <1>2, <2>1 DEF LegalDownload, DownloadTyped, DownloadRecord, Active, DownloadPC
  <2>5. LegalDownload(new)
    BY <2>1, <2>3, <2>4 DEF LegalDownload, DownloadRecord
  <2>6. Becomes(d, new)
    BY <1>2 DEF MetaArrives
  <2> QED
    BY <2>5, <2>6, DownloadStepTypes DEF TypesInv, TypeOK
<1> QED
  BY <1>1, <1>2

\* A node finds some node behind each address it dials, or nobody.
LEMMA SourceType ==
    ASSUME NEW d, download[d].peer \in Peer, NEW a \in Address
    PROVE  Source(d, a) \in Peer
BY NodeAtType DEF Source

\* FetchFileMeta from the primary peer, answered, raced or failed.
LEMMA FetchMetaTypes ==
    ASSUME TypesInv, UNCHANGED registryVars, NEW d \in Download,
           FetchMeta(d) \/ FetchMetaRaces(d) \/ FetchMetaFails(d)
    PROVE  TypesInv'
<1> DEFINE dl == download[d]
           q == Source(d, dl.primary)
<1>1. dl.pc = "meta" /\ LegalDownload(dl)
  BY DownloadIsLegal DEF FetchMeta, FetchMetaRaces, FetchMetaFails
<1>2. q \in Peer /\ dl.name \in FileName
  BY <1>1, SourceType DEF LegalDownload, DownloadTyped, Active, DownloadPC
<1>3. sharedFiles[q][dl.name] \in Maybe(Meta)
  BY <1>2 DEF TypesInv, TypeOK
<1>4. CASE FetchMeta(d)
  BY <1>1, <1>3, <1>4, MetaArrivesTypes DEF FetchMeta, Maybe, TypesInv, TypeOK
<1>5. CASE FetchMetaRaces(d) /\ Fail(d)
  BY <1>5, FailTypes DEF FetchMetaRaces, TypesInv, TypeOK
<1>6. CASE FetchMetaRaces(d) /\ ~Fail(d)
  <2>1. PICK u \in Adding(q) :
            \E m \in Mixed(Current(q, dl.name), MetaOf(upload[u].content)) :
                MetaArrives(d, m)
    BY <1>6 DEF FetchMetaRaces
  <2>2. PICK m \in Mixed(Current(q, dl.name), MetaOf(upload[u].content)) :
            MetaArrives(d, m)
    BY <2>1
  <2>3. MetaOf(upload[u].content) \in Meta
    <3>1. u \in Upload /\ upload \in [Upload -> UploadRecord]
      BY DEF Adding, TypesInv, TypeOK
    <3>2. upload[u] \in UploadRecord
      BY <3>1
    <3>3. upload[u].content \in Seq(Block)
      BY <3>2 DEF UploadRecord
    <3> QED
      BY <3>3, MetaOfType
  <2>4. Current(q, dl.name) \in Meta
    BY <1>3, CurrentType
  <2>5. m \in Meta
    BY <2>3, <2>4, MixedType
  <2> QED
    BY <1>1, <1>6, <2>2, <2>5, MetaArrivesTypes DEF FetchMetaRaces
<1>7. CASE FetchMetaFails(d)
  BY <1>7, FailTypes DEF FetchMetaFails, TypesInv, TypeOK
<1> QED
  BY <1>4, <1>5, <1>6, <1>7

\* findPeersWithFile starts from the primary peer and a copy of the registry
\* (downloader.go:54-58).
LEMMA FindPeersTypes ==
    ASSUME TypesInv, UNCHANGED registryVars, NEW d \in Download, FindPeers(d)
    PROVE  TypesInv'
<1> DEFINE dl == download[d]
           new == [dl EXCEPT !.pc = "probe", !.avail = <<dl.primary>>,
                             !.toProbe = registry[dl.peer]]
<1>1. dl.pc = "peers" /\ LegalDownload(dl)
  BY DownloadIsLegal DEF FindPeers
<1>2. dl.peer \in Peer /\ dl.primary \in Address
  BY <1>1 DEF LegalDownload, DownloadTyped, Active, DownloadPC
<1>3. registry[dl.peer] \in Seq(Address)
  BY <1>2 DEF TypesInv, TypeOK, RegistryTypeOK
<1>4. <<dl.primary>> \in Seq(Address) /\ <<dl.primary>> # <<>>
  BY <1>2
<1>5. new \in DownloadRecord
  BY <1>1, <1>3, <1>4 DEF LegalDownload, DownloadRecord, DownloadPC
<1>6. DownloadTyped(new)
  BY <1>1, <1>4 DEF LegalDownload, DownloadTyped, DownloadRecord, Active, DownloadPC
<1>7. LegalDownload(new)
  BY <1>1, <1>5, <1>6 DEF LegalDownload, DownloadRecord
<1>8. Becomes(d, new)
  BY DEF FindPeers
<1> QED
  BY <1>7, <1>8, DownloadStepTypes DEF FindPeers, TypesInv, TypeOK

\* One probe of findPeersWithFile keeps the list of sources non-empty
\* (downloader.go:58-71).
LEMMA ProbePeerTypes ==
    ASSUME TypesInv, UNCHANGED registryVars, NEW d \in Download, ProbePeer(d)
    PROVE  TypesInv'
<1> DEFINE dl == download[d]
           a == Head(dl.toProbe)
           skipped == [dl EXCEPT !.toProbe = Tail(@)]
           added == [dl EXCEPT !.toProbe = Tail(@), !.avail = Append(@, a)]
<1>1. dl.pc = "probe" /\ LegalDownload(dl) /\ dl.toProbe # <<>>
  BY DownloadIsLegal DEF ProbePeer
<1>2. dl.toProbe \in Seq(Address) /\ dl.avail \in Seq(Address)
  BY <1>1 DEF LegalDownload, DownloadRecord
<1>3. a \in Address /\ Tail(dl.toProbe) \in Seq(Address)
  BY <1>1, <1>2
<1>4. Append(dl.avail, a) \in Seq(Address) /\ Append(dl.avail, a) # <<>>
  BY <1>2, <1>3
<1>5. skipped \in DownloadRecord /\ added \in DownloadRecord
  BY <1>1, <1>3, <1>4 DEF LegalDownload, DownloadRecord
<1>6. DownloadTyped(skipped) /\ DownloadTyped(added)
  BY <1>1, <1>4 DEF LegalDownload, DownloadTyped, DownloadRecord, Active, DownloadPC
<1>7. LegalDownload(skipped) /\ LegalDownload(added)
  BY <1>1, <1>5, <1>6 DEF LegalDownload, DownloadRecord
<1>8. Becomes(d, skipped) \/ Becomes(d, added)
  BY DEF ProbePeer
<1> QED
  BY <1>7, <1>8, DownloadStepTypes DEF ProbePeer, TypesInv, TypeOK

\* When the goroutines are started, each position of the file has one that is
\* waiting, and none has sent a result (downloader.go:93-106).
LEMMA LaunchChunksTypes ==
    ASSUME TypesInv, UNCHANGED registryVars, NEW d \in Download, LaunchChunks(d)
    PROVE  TypesInv'
<1> DEFINE dl == download[d]
           new == [dl EXCEPT !.pc = "fetch", !.pending = DOMAIN dl.meta.chunks]
<1>1. dl.pc = "probe" /\ LegalDownload(dl)
  BY DownloadIsLegal DEF LaunchChunks
<1>2. dl.replies = {} /\ dl.results = <<>> /\ dl.avail # <<>> /\ dl.meta.chunks # <<>>
  BY <1>1 DEF LegalDownload, DownloadTyped
<1>3. DOMAIN dl.meta.chunks \in SUBSET Nat
  BY <1>1 DEF LegalDownload, DownloadRecord, Meta
<1>4. new \in DownloadRecord
  BY <1>1, <1>3 DEF LegalDownload, DownloadRecord, DownloadPC
<1>5. DownloadTyped(new)
  BY <1>1, <1>2 DEF LegalDownload, DownloadTyped, DownloadRecord, Active, DownloadPC
<1>6. Accounted(new)
  <2>1. /\ new.pending = DOMAIN new.meta.chunks
        /\ new.replies = {}
        /\ DOMAIN new.results = {}
    BY <1>1, <1>2 DEF LegalDownload, DownloadRecord
  <2>2. ReplyIndexes(new) = {} /\ ResultIndexes(new) = {}
    BY <2>1 DEF ReplyIndexes, ResultIndexes
  <2> QED
    BY <2>1, <2>2 DEF Accounted
<1>7. LegalDownload(new)
  BY <1>4, <1>5, <1>6 DEF LegalDownload
<1>8. Becomes(d, new)
  BY DEF LaunchChunks
<1> QED
  BY <1>7, <1>8, DownloadStepTypes DEF LaunchChunks, TypesInv, TypeOK

\* A goroutine is only waiting or answered while chunks are being fetched.
LEMMA FetchingLegal ==
    ASSUME TypesInv, NEW d \in Download,
           download[d].pending # {} \/ download[d].replies # {}
    PROVE  /\ download[d].pc = "fetch"
           /\ LegalDownload(download[d])
           /\ Accounted(download[d])
           /\ download[d].peer \in Peer
           /\ download[d].primary \in Address
           /\ download[d].meta \in Meta
BY DownloadIsLegal DEF LegalDownload, DownloadTyped, DownloadRecord, Active, DownloadPC

Indexes(s) == {s[k].index : k \in DOMAIN s}
Once(s) == \A j, k \in DOMAIN s : s[j].index = s[k].index => j = k

\* Sending one more result to the channel.
LEMMA AppendIndexes ==
    ASSUME NEW s \in Seq(ChunkResult), NEW x \in ChunkResult
    PROVE  /\ Indexes(Append(s, x)) = Indexes(s) \cup {x.index}
           /\ Once(s) /\ x.index \notin Indexes(s) => Once(Append(s, x))
<1> DEFINE t == Append(s, x)
<1>1. /\ Len(s) \in Nat /\ DOMAIN s = 1 .. Len(s)
      /\ DOMAIN t = 1 .. Len(s) + 1
      /\ t[Len(s) + 1] = x
      /\ \A k \in DOMAIN s : t[k] = s[k]
  OBVIOUS
<1> HIDE DEF t
<1>2. \A k \in DOMAIN t : k \in DOMAIN s \/ k = Len(s) + 1
  BY <1>1
<1>3. \A k \in DOMAIN s : k \in DOMAIN t
  BY <1>1
<1>4. Len(s) + 1 \in DOMAIN t
  BY <1>1
<1>5. Indexes(t) = Indexes(s) \cup {x.index}
  BY <1>1, <1>2, <1>3, <1>4 DEF Indexes
<1>6. Once(s) /\ x.index \notin Indexes(s) => Once(t)
  <2> SUFFICES ASSUME Once(s), x.index \notin Indexes(s),
                      NEW j \in DOMAIN t, NEW k \in DOMAIN t,
                      t[j].index = t[k].index
               PROVE  j = k
    BY DEF Once
  <2>1. \A i \in DOMAIN s : s[i].index # x.index
    BY DEF Indexes
  <2>2. CASE j \in DOMAIN s /\ k \in DOMAIN s
    BY <1>1, <2>2 DEF Once
  <2>3. CASE j \notin DOMAIN s \/ k \notin DOMAIN s
    BY <1>1, <1>2, <2>1, <2>3
  <2> QED
    BY <2>2, <2>3
<1> QED
  BY <1>5, <1>6 DEF t

\* An answer to FetchChunk moves one goroutine from waiting to answered.
LEMMA FetchChunkTypes ==
    ASSUME TypesInv, UNCHANGED registryVars, NEW d \in Download,
           NEW i \in download[d].pending, FetchChunk(d, i)
    PROVE  TypesInv'
<1> DEFINE dl == download[d]
           a == Assigned(d, i)
<1>1. /\ dl.pc = "fetch" /\ LegalDownload(dl) /\ Accounted(dl)
      /\ dl.meta \in Meta /\ dl.avail \in Seq(Address) /\ dl.avail # <<>>
      /\ dl.pending \in SUBSET Nat
  BY FetchingLegal DEF LegalDownload, DownloadRecord, DownloadTyped
<1>2. dl.meta.chunks[i] \in Digest
  BY <1>1 DEF Accounted, Meta
<1>3. Source(d, a) \in Peer
  <2>1. a \in Address
    <3>1. Len(dl.avail) \in Nat \ {0} /\ i \in Nat
      BY <1>1
    <3>2. ((i - 1) % Len(dl.avail)) + 1 \in 1 .. Len(dl.avail)
      BY <3>1
    <3> QED
      BY <1>1, <3>2 DEF Assigned
  <2> QED
    BY <1>1, <2>1, SourceType DEF LegalDownload, DownloadTyped, Active, DownloadPC
<1>4. chunkData[Source(d, a)][dl.meta.chunks[i]] \in Maybe(Block)
  BY <1>2, <1>3 DEF TypesInv, TypeOK
<1>5. PICK b \in Block :
          Becomes(d, [dl EXCEPT !.pending = @ \ {i},
                                !.replies = @ \cup {[index |-> i, data |-> b]}])
  BY <1>4 DEF FetchChunk, Maybe
<1> DEFINE r == [index |-> i, data |-> b]
           new == [dl EXCEPT !.pending = @ \ {i}, !.replies = @ \cup {r}]
<1>6. r \in ChunkReply
  BY <1>1 DEF ChunkReply
<1>7. new \in DownloadRecord
  BY <1>1, <1>6 DEF LegalDownload, DownloadRecord
<1>8. DownloadTyped(new)
  BY <1>1 DEF LegalDownload, DownloadTyped, DownloadRecord, Active, DownloadPC
<1>9. Accounted(new)
  <2>1. /\ new.pending = dl.pending \ {i}
        /\ new.replies = dl.replies \cup {r}
        /\ new.results = dl.results /\ new.meta = dl.meta
    BY <1>1 DEF LegalDownload, DownloadRecord
  <2>2. r.index = i /\ i \in dl.pending
    OBVIOUS
  <2> HIDE DEF new, dl, r
  <2>3. ReplyIndexes(new) = ReplyIndexes(dl) \cup {i}
    BY <2>1, <2>2 DEF ReplyIndexes
  <2>4. ResultIndexes(new) = ResultIndexes(dl)
    BY <2>1 DEF ResultIndexes
  <2>5. \A s \in dl.replies : s.index # i
    BY <1>1, <2>2 DEF Accounted, ReplyIndexes
  <2>6. \A s, t \in new.replies : s.index = t.index => s = t
    BY <1>1, <2>1, <2>2, <2>5 DEF Accounted
  <2>7. new.pending \cup ReplyIndexes(new) = dl.pending \cup ReplyIndexes(dl)
    BY <2>1, <2>2, <2>3
  <2>8. new.pending \cap ReplyIndexes(new) = {}
    BY <1>1, <2>1, <2>2, <2>3 DEF Accounted
  <2> QED
    BY <1>1, <2>1, <2>4, <2>6, <2>7, <2>8 DEF Accounted
<1>10. LegalDownload(new)
  BY <1>7, <1>8, <1>9 DEF LegalDownload
<1> QED
  BY <1>5, <1>10, DownloadStepTypes DEF FetchChunk, TypesInv, TypeOK

\* A result enters the channel for a goroutine that was waiting or answered.
LEMMA ResultLegal ==
    ASSUME NEW dl, LegalDownload(dl), dl.pc = "fetch", NEW x \in ChunkResult,
           NEW waiting \in SUBSET dl.pending, NEW answered \in SUBSET dl.replies,
           x.index \in dl.pending \cup ReplyIndexes(dl),
           waiting = dl.pending \ {x.index},
           answered = {r \in dl.replies : r.index # x.index}
    PROVE  LegalDownload([dl EXCEPT !.pending = waiting, !.replies = answered,
                                    !.results = Append(@, x)])
<1> DEFINE new == [dl EXCEPT !.pending = waiting, !.replies = answered,
                             !.results = Append(@, x)]
<1>1. /\ dl \in DownloadRecord /\ dl.results \in Seq(ChunkResult) /\ Accounted(dl)
      /\ DownloadTyped(dl)
  BY DEF LegalDownload, DownloadRecord
<1>2. Append(dl.results, x) \in Seq(ChunkResult)
  BY <1>1
<1>3. new \in DownloadRecord
  BY <1>1, <1>2 DEF DownloadRecord
<1>4. /\ new.pc = "fetch" /\ new.meta = dl.meta /\ new.peer = dl.peer
      /\ new.name = dl.name /\ new.primary = dl.primary /\ new.avail = dl.avail
      /\ new.pending = waiting /\ new.replies = answered
      /\ new.results = Append(dl.results, x)
  BY <1>1 DEF DownloadRecord
<1>5. DownloadTyped(new)
  BY <1>1, <1>4 DEF DownloadTyped
<1>6. Accounted(new)
  <2>1. ResultIndexes(new) = ResultIndexes(dl) \cup {x.index}
    BY <1>1, <1>4, AppendIndexes DEF ResultIndexes, Indexes
  <2>2. x.index \notin ResultIndexes(dl)
    BY <1>1 DEF Accounted
  <2>3. Once(new.results)
    BY <1>1, <1>4, <2>2, AppendIndexes DEF Accounted, ResultIndexes, Indexes, Once
  <2>4. ReplyIndexes(new) = ReplyIndexes(dl) \ {x.index}
    BY <1>4 DEF ReplyIndexes
  <2> HIDE DEF new
  <2> QED
    BY <1>1, <1>4, <2>1, <2>2, <2>3, <2>4 DEF Accounted, Once
<1> QED
  BY <1>3, <1>4, <1>5, <1>6 DEF LegalDownload

\* A failed FetchChunk sends one error for its position (downloader.go:178-183).
LEMMA FetchChunkFailsTypes ==
    ASSUME TypesInv, UNCHANGED registryVars, NEW d \in Download,
           NEW i \in download[d].pending, FetchChunkFails(d, i)
    PROVE  TypesInv'
<1> DEFINE dl == download[d]
           x == [index |-> i, data |-> None]
           new == [dl EXCEPT !.pending = @ \ {i}, !.results = Append(@, x)]
<1>1. /\ dl.pc = "fetch" /\ LegalDownload(dl) /\ Accounted(dl)
      /\ dl \in DownloadRecord /\ dl.pending \in SUBSET Nat
  BY FetchingLegal DEF LegalDownload, DownloadRecord
<1>2. x \in ChunkResult
  BY <1>1 DEF ChunkResult, Maybe
<1>3. dl.replies = {r \in dl.replies : r.index # x.index}
  BY <1>1 DEF Accounted, ReplyIndexes
<1>4. new = [dl EXCEPT !.pending = dl.pending \ {i}, !.replies = dl.replies,
                       !.results = Append(@, x)]
  BY <1>1 DEF DownloadRecord
<1>5. LegalDownload([dl EXCEPT !.pending = dl.pending \ {i}, !.replies = dl.replies,
                               !.results = Append(@, x)])
  BY <1>1, <1>2, <1>3, ResultLegal
<1>6. Becomes(d, new)
  BY DEF FetchChunkFails, Sent
<1> QED
  BY <1>4, <1>5, <1>6, DownloadStepTypes DEF FetchChunkFails, Sent, TypesInv, TypeOK

\* downloadChunk sends one result for its position, good or not
\* (downloader.go:186-211).
LEMMA DownloadChunkTypes ==
    ASSUME TypesInv, UNCHANGED registryVars, NEW d \in Download,
           NEW r \in download[d].replies, DownloadChunk(d, r)
    PROVE  TypesInv'
<1> DEFINE dl == download[d]
           g == dl.meta.chunks[r.index]
           x == [index |-> r.index,
                 data  |-> IF Sum256[r.data] = g THEN r.data ELSE None]
           new == [dl EXCEPT !.replies = @ \ {r}, !.results = Append(@, x)]
<1>1. /\ dl.pc = "fetch" /\ LegalDownload(dl) /\ Accounted(dl)
      /\ dl \in DownloadRecord /\ dl.replies \in SUBSET ChunkReply
      /\ dl.peer \in Peer /\ dl.meta \in Meta
  BY FetchingLegal DEF LegalDownload, DownloadRecord
<1>2. r \in ChunkReply /\ r.index \in Nat /\ r.data \in Block
  BY <1>1 DEF ChunkReply
<1>3. x \in ChunkResult
  BY <1>2 DEF ChunkResult, Maybe
<1>4. r.index \in ReplyIndexes(dl) /\ r.index \notin dl.pending
  BY <1>1 DEF Accounted, ReplyIndexes
<1>5. dl.replies \ {r} = {s \in dl.replies : s.index # x.index}
  BY <1>1 DEF Accounted
<1>6. new = [dl EXCEPT !.pending = dl.pending \ {r.index}, !.replies = dl.replies \ {r},
                       !.results = Append(@, x)]
  <2>1. dl.pending \ {r.index} = dl.pending
    BY <1>4
  <2>2. dl = [dl EXCEPT !.pending = dl.pending]
    BY <1>1 DEF DownloadRecord
  <2> HIDE DEF dl, x
  <2> QED
    BY <2>1, <2>2
<1>7. LegalDownload([dl EXCEPT !.pending = dl.pending \ {r.index},
                               !.replies = dl.replies \ {r},
                               !.results = Append(@, x)])
  BY <1>1, <1>3, <1>4, <1>5, ResultLegal
<1>8. Becomes(d, new)
  BY DEF DownloadChunk, Sent, Verified
<1>9. g \in Digest
  BY <1>1, <1>4 DEF Accounted, Meta
<1>10. chunkData' \in [Peer -> [Digest -> Maybe(Block)]]
  <2>1. \/ chunkData' = chunkData
        \/ chunkData' = [chunkData EXCEPT ![dl.peer][g] = r.data]
    BY DEF DownloadChunk, Sent, Verified
  <2>2. chunkData \in [Peer -> [Digest -> Maybe(Block)]] /\ r.data \in Maybe(Block)
    BY <1>2 DEF TypesInv, TypeOK, Maybe
  <2> HIDE DEF dl, g
  <2> QED
    BY <1>1, <1>9, <2>1, <2>2
<1> QED
  BY <1>6, <1>7, <1>8, <1>10, DownloadStepTypes DEF DownloadChunk, Sent, Verified, TypesInv, TypeOK

\* A download whose goroutines are done has one result for each chunk.
LEMMA CollectedIsComplete ==
    ASSUME NEW dl, LegalDownload(dl), dl.pc = "fetch",
           dl.pending = {}, dl.replies = {}
    PROVE  /\ Complete(dl.results, 1, Len(dl.meta.chunks))
           /\ dl.results \in Seq(ChunkResult)
           /\ Len(dl.meta.chunks) \in Nat
           /\ DOMAIN dl.meta.chunks = 1 .. Len(dl.meta.chunks)
<1>1. dl.results \in Seq(ChunkResult) /\ dl.meta.chunks \in Seq(Digest) /\ Accounted(dl)
  BY DEF LegalDownload, DownloadRecord, Meta
<1>2. ReplyIndexes(dl) = {}
  BY DEF ReplyIndexes
<1>3. ResultIndexes(dl) = 1 .. Len(dl.meta.chunks)
  BY <1>1, <1>2 DEF Accounted
<1>4. Complete(dl.results, 1, Len(dl.meta.chunks))
  BY <1>1, <1>3 DEF Complete, ResultIndexes, Accounted
<1> QED
  BY <1>1, <1>4

\* What MergeChunks makes of the results of a finished download.
LEMMA ReassembleResults ==
    ASSUME NEW dl, LegalDownload(dl), dl.pc = "fetch",
           dl.pending = {}, dl.replies = {},
           \A r \in Range(dl.results) : r.data # None
    PROVE  /\ Reassemble(dl.results) \in Seq(Block)
           /\ Len(Reassemble(dl.results)) = Len(dl.meta.chunks)
           /\ \A k \in 1 .. Len(dl.meta.chunks) :
                 \E j \in DOMAIN dl.results :
                    /\ dl.results[j].index = k
                    /\ Reassemble(dl.results)[k] = dl.results[j].data
<1> DEFINE s == dl.results
           n == Len(dl.meta.chunks)
<1>1. Complete(s, 1, n) /\ s \in Seq(ChunkResult) /\ n \in Nat
  BY CollectedIsComplete
<1>2. Len(s) = n /\ DOMAIN s = 1 .. n
  BY <1>1, CompleteLen
<1>3. \A k \in 1 .. n : SortByIndex(s)[k] \in Range(s) /\ SortByIndex(s)[k].index = k
  BY <1>1, SortRestoresOrder
<1>4. \A k \in 1 .. n : \E j \in DOMAIN s : s[j] = SortByIndex(s)[k]
  BY <1>3 DEF Range
<1>5. Reassemble(s) = [k \in 1 .. n |-> SortByIndex(s)[k].data]
  BY <1>2 DEF Reassemble
<1>6. \A k \in 1 .. n : SortByIndex(s)[k].data \in Block
  <2>1. Range(s) \subseteq ChunkResult
    BY <1>1 DEF Range
  <2> QED
    BY <1>3, <2>1 DEF ChunkResult, Maybe
<1>7. Reassemble(s) \in Seq(Block) /\ Len(Reassemble(s)) = n
  <2>1. Reassemble(s) \in [1 .. n -> Block]
    BY <1>5, <1>6
  <2> QED
    BY <1>1, <2>1
<1>8. \A k \in 1 .. n : \E j \in DOMAIN s :
          s[j].index = k /\ Reassemble(s)[k] = s[j].data
  BY <1>3, <1>4, <1>5
<1> QED
  BY <1>7, <1>8

\* The end of the collection keeps the types: what MergeChunks returns is a
\* sequence of blocks (downloader.go:114-156).
LEMMA CollectResultsTypes ==
    ASSUME TypesInv, UNCHANGED registryVars, NEW d \in Download, CollectResults(d)
    PROVE  TypesInv'
<1> DEFINE dl == download[d]
           new == [dl EXCEPT !.pc = "register", !.data = Reassemble(dl.results)]
<1>1. /\ dl.pc = "fetch" /\ dl.pending = {} /\ dl.replies = {}
      /\ LegalDownload(dl) /\ dl \in DownloadRecord
  BY DownloadIsLegal DEF CollectResults, Usable, Collected, LegalDownload
<1>2. CASE Fail(d)
  BY <1>2, FailTypes DEF CollectResults, Usable, TypesInv, TypeOK
<1>3. CASE (\A r \in Range(dl.results) : r.data # None) /\ Becomes(d, new)
  <2>1. Reassemble(dl.results) \in Seq(Block)
    BY <1>1, <1>3, ReassembleResults
  <2>2. new \in DownloadRecord
    BY <1>1, <2>1 DEF DownloadRecord, DownloadPC
  <2>3. DownloadTyped(new)
    BY <1>1 DEF LegalDownload, DownloadTyped, DownloadRecord, Active, DownloadPC
  <2>4. LegalDownload(new)
    BY <1>1, <2>2, <2>3 DEF LegalDownload, DownloadRecord
  <2> QED
    BY <1>3, <2>4, DownloadStepTypes DEF CollectResults, Usable, TypesInv, TypeOK
<1> QED
  BY <1>2, <1>3 DEF CollectResults, Usable, Usable

\* Moving on with nothing but the place changed.
LEMMA MovedIsLegal ==
    ASSUME NEW dl, LegalDownload(dl), dl.pc \in {"register", "open"},
           NEW pc \in {"open", "write"}
    PROVE  LegalDownload([dl EXCEPT !.pc = pc])
<1> DEFINE new == [dl EXCEPT !.pc = pc]
<1>1. new \in DownloadRecord
  BY DEF LegalDownload, DownloadRecord, DownloadPC
<1>2. DownloadTyped(new)
  BY DEF LegalDownload, DownloadTyped, DownloadRecord, Active, DownloadPC
<1> QED
  BY <1>1, <1>2 DEF LegalDownload, DownloadRecord

\* Registering the downloaded file, raced or not, leaves metadata in the map
\* (downloader.go:160-169).
LEMMA RegisterDownloadTypes ==
    ASSUME TypesInv, UNCHANGED registryVars, NEW d \in Download,
           RegisterDownload(d) \/ RegisterDownloadRaces(d)
    PROVE  TypesInv'
<1> DEFINE dl == download[d]
           p == dl.peer
           n == dl.name
           new == [dl EXCEPT !.pc = "open"]
<1>1. /\ dl.pc = "register" /\ LegalDownload(dl) /\ dl.meta \in Meta
      /\ p \in Peer /\ n \in FileName
  BY DownloadIsLegal DEF RegisterDownload, RegisterDownloadRaces, LegalDownload,
                         DownloadRecord, DownloadTyped, Active, DownloadPC
<1>2. LegalDownload(new)
  BY <1>1, MovedIsLegal
<1>3. Becomes(d, new)
  BY DEF RegisterDownload, RegisterDownloadRaces
<1>4. CASE RegisterDownload(d)
  <2>1. sharedFiles' \in [Peer -> [FileName -> Maybe(Meta)]]
    BY <1>1, <1>4 DEF RegisterDownload, TypesInv, TypeOK, Maybe
  <2> QED
    BY <1>2, <1>3, <1>4, <2>1, DownloadStepTypes DEF RegisterDownload, TypesInv, TypeOK
<1>5. CASE RegisterDownloadRaces(d)
  <2> DEFINE uploads == {u \in Adding(p) : upload[u].name = n}
             others == {MetaOf(upload[u].content) : u \in uploads}
  <2>1. \A u \in Upload : upload[u].content \in Seq(Block)
    BY DEF TypesInv, TypeOK, UploadRecord
  <2>2. others \in SUBSET Meta
    BY <2>1, MetaOfType DEF Adding
  <2>3. PICK m \in RacyWrites(p, n, dl.meta, others) :
            sharedFiles' = [sharedFiles EXCEPT ![p][n] = m]
    BY <1>5 DEF RegisterDownloadRaces
  <2>4. m \in Maybe(Meta)
    BY <1>1, <2>2, RacyWriteType
  <2>5. sharedFiles' \in [Peer -> [FileName -> Maybe(Meta)]]
    BY <1>1, <2>3, <2>4 DEF TypesInv, TypeOK
  <2> QED
    BY <1>2, <1>3, <1>5, <2>5, DownloadStepTypes
       DEF RegisterDownloadRaces, TypesInv, TypeOK
<1> QED
  BY <1>4, <1>5

\* os.WriteFile leaves a sequence of blocks in the file, because a file that
\* is being written has been created (distribute.go:118-152).
LEMMA SaveTypes ==
    ASSUME TypesInv, WritesOpened, UNCHANGED registryVars, NEW d \in Download,
           SaveOpen(d) \/ SaveWrite(d) \/ SaveFails(d)
    PROVE  TypesInv'
<1> DEFINE dl == download[d]
           p == dl.peer
           w == Folder(d)
           n == dl.name
<1>1. /\ LegalDownload(dl) /\ dl \in DownloadRecord /\ dl.pc \in {"open", "write"}
      /\ p \in Peer /\ w = WorkDir[p] /\ w \in Peer
      /\ n \in FileName /\ dl.data \in Seq(Block)
  BY DownloadIsLegal, WorkDirAssumption
     DEF SaveOpen, SaveWrite, SaveFails, LegalDownload, Folder, DownloadRecord,
         DownloadTyped, Active, DownloadPC
<1>2. disk \in [Peer -> [FileName -> Seq(Block) \cup {None}]]
  BY DEF TypesInv, TypeOK
<1>3. CASE SaveOpen(d)
  <2>1. disk' \in [Peer -> [FileName -> Seq(Block) \cup {None}]]
    BY <1>1, <1>2, <1>3 DEF SaveOpen
  <2>2. LegalDownload([dl EXCEPT !.pc = "write"])
    BY <1>1, <1>3, MovedIsLegal DEF SaveOpen
  <2> QED
    BY <1>3, <2>1, <2>2, DownloadStepTypes DEF SaveOpen, TypesInv, TypeOK
<1>4. CASE SaveWrite(d)
  <2>1. disk[w][n] \in Seq(Block)
    BY <1>1, <1>2, <1>4 DEF SaveWrite, WritesOpened
  <2>2. Overwrite(disk[w][n], dl.data) \in Seq(Block)
    BY <1>1, <2>1 DEF Overwrite
  <2>3. disk' \in [Peer -> [FileName -> Seq(Block) \cup {None}]]
    BY <1>1, <1>2, <1>4, <2>2 DEF SaveWrite
  <2> DEFINE new == Succeeded(dl)
  <2>4. new \in DownloadRecord
    BY <1>1, IdleTyped DEF Succeeded, DownloadRecord, DownloadPC
  <2>5. DownloadTyped(new) /\ new.pc = "ok"
    BY <1>1 DEF Succeeded, IdleDownload, DownloadTyped, Active, DownloadPC
  <2>6. LegalDownload(new)
    BY <2>4, <2>5 DEF LegalDownload
  <2> QED
    BY <1>4, <2>3, <2>6, DownloadStepTypes DEF SaveWrite, TypesInv, TypeOK
<1>5. CASE SaveFails(d) /\ dl.pc = "open"
  <2>1. UNCHANGED disk
    BY <1>5 DEF SaveFails
  <2> QED
    BY <1>5, <2>1, FailTypes DEF SaveFails, TypesInv, TypeOK
<1>6. CASE SaveFails(d) /\ dl.pc = "write"
  <2>1. disk[w][n] \in Seq(Block)
    BY <1>1, <1>2, <1>6 DEF WritesOpened
  <2>2. PICK k \in 0 .. Len(dl.data) :
            disk' = [disk EXCEPT ![w][n] = Overwrite(@, SubSeq(dl.data, 1, k))]
    BY <1>6 DEF SaveFails
  <2>3. SubSeq(dl.data, 1, k) \in Seq(Block)
    BY <1>1
  <2>4. Overwrite(disk[w][n], SubSeq(dl.data, 1, k)) \in Seq(Block)
    BY <2>1, <2>3 DEF Overwrite
  <2>5. disk' \in [Peer -> [FileName -> Seq(Block) \cup {None}]]
    BY <1>1, <1>2, <2>2, <2>4
  <2> QED
    BY <1>6, <2>5, FailedIsLegal, DownloadStepTypes DEF SaveFails, Fail, TypesInv, TypeOK
<1> QED
  BY <1>1, <1>3, <1>4, <1>5, <1>6

\* The end of a process keeps the types: its maps are empty and its requests
\* are over.
LEMMA CrashTypes ==
    ASSUME TypesInv, NEW p \in Peer, CrashPeer(p)
    PROVE  TypesInv'
<1>1. RegistryTypeOK'
  BY StopTypes DEF TypesInv, TypeOK, CrashPeer
<1> DEFINE done == [IdleUpload EXCEPT !.pc = "done"]
<1>2. done \in UploadRecord /\ done.pc = "done"
  BY IdleTyped DEF UploadRecord, UploadPC, IdleUpload
<1>3. \A u \in Upload : upload'[u] \in {done, upload[u]}
  BY DEF CrashPeer
<1>4. \A d \in Download : download'[d] \in {Failed, download[d]}
  BY DEF CrashPeer
<1>5. \A d \in Download : LegalDownload(download'[d])
  BY <1>4, FailedIsLegal, DownloadIsLegal
<1>6. upload' \in [Upload -> UploadRecord]
  BY <1>2, <1>3 DEF CrashPeer, TypesInv, TypeOK
<1>7. download' \in [Download -> DownloadRecord]
  BY <1>5 DEF CrashPeer, LegalDownload
<1>8. TypeOK'
  BY <1>1, <1>6, <1>7 DEF CrashPeer, TypesInv, TypeOK, Maybe
<1>9. UploadsTyped'
  BY <1>2, <1>3 DEF TypesInv, UploadsTyped
<1>10. DownloadsTyped' /\ ChunksAccounted'
  BY <1>5 DEF DownloadsTyped, ChunksAccounted, LegalDownload
<1> QED
  BY <1>8, <1>9, <1>10 DEF TypesInv

-----------------------------------------------------------------------------
(***************************************************************************)
(* The second half of the invariant, per request: what holds of one        *)
(* download or upload given the chunk stores, the uploaded versions, the   *)
(* disks and the race flag.                                                *)
(***************************************************************************)
SafeDownload(dl, stores, versions, disks, torn) ==
    /\ dl.pc = "fetch" =>
          \A k \in DOMAIN dl.results : dl.results[k].data # None =>
             LET g == dl.meta.chunks[dl.results[k].index]
             IN  Sum256[dl.results[k].data] = g /\ stores[dl.peer][g] # None
    /\ dl.pc = "register" =>
          \A g \in Range(dl.meta.chunks) : stores[dl.peer][g] # None
    /\ dl.pc = "write" => disks[WorkDir[dl.peer]][dl.name] # None
    /\ ~torn /\ dl.pc \in {"peers", "probe", "fetch", "register"} =>
          \E c \in versions[dl.name] : dl.meta = MetaOf(c)
    /\ ~torn /\ dl.pc \in {"register", "open", "write", "ok"} =>
          dl.data \in versions[dl.name]

SafeUpload(up, stores, versions) ==
    up.pc \in {"store", "add"} =>
        /\ up.content \in versions[up.name]
        /\ \A i \in DOMAIN up.content :
              i < up.next => stores[up.peer][Sum256[up.content[i]]] # None

\* What may be advertised under a name by a node with a given chunk store.
SafeMeta(m, store, contents) ==
    m # None => /\ \E c \in contents : m = MetaOf(c)
                /\ \A g \in Range(m.chunks) : store[g] # None

SafetyInv2 ==
    /\ StoreIsContentAddressed
    /\ \A d \in Download : SafeDownload(download[d], chunkData, uploaded, disk, raced)
    /\ \A u \in Upload : SafeUpload(upload[u], chunkData, uploaded)
    /\ ~raced => \A p \in Peer, n \in FileName :
                    SafeMeta(sharedFiles[p][n], chunkData[p], uploaded[n])

\* SafetyInv, the invariant of the specification, is the conjunction of the
\* two halves the proof handles: types and places, and what is stored.
LEMMA SafetyInvSplit == SafetyInv <=> TypesInv /\ SafetyInv2
<1>1. (\A d \in Download : SafeDownload(download[d], chunkData, uploaded, disk, raced))
      <=> ResultsVerified /\ RegisteredIsStored /\ WritesOpened
          /\ FetchedIsUploaded /\ ReassembledIsUploaded
  BY DEF SafeDownload, ResultsVerified, RegisteredIsStored, WritesOpened, Folder,
         FetchedIsUploaded, ReassembledIsUploaded
<1>2. (\A u \in Upload : SafeUpload(upload[u], chunkData, uploaded)) <=> UploadsStored
  BY DEF SafeUpload, UploadsStored
<1>3. (~raced => \A p \in Peer, n \in FileName :
                    SafeMeta(sharedFiles[p][n], chunkData[p], uploaded[n]))
      <=> SharedIsUploaded /\ AdvertisedIsServable
  BY DEF SafeMeta, SharedIsUploaded, AdvertisedIsServable
<1> QED
  BY <1>1, <1>2, <1>3 DEF SafetyInv, TypesInv, SafetyInv2

\* Stores, versions and disks that only gained something; torn may be set.
Grows(old, new) == \A p \in Peer, g \in Digest : old[p][g] # None => new[p][g] # None

\* What holds of a download keeps holding while the store of its node, the
\* uploaded versions and the disks only gain something: no handler deletes a
\* chunk, a version or a file.
LEMMA SafeDownloadStable ==
    ASSUME NEW dl, LegalDownload(dl),
           NEW s1, NEW s2, NEW v1, NEW v2, NEW k1, NEW k2, NEW t1, NEW t2,
           SafeDownload(dl, s1, v1, k1, t1),
           dl.pc \in Active =>
              \A g \in Digest : s1[dl.peer][g] # None => s2[dl.peer][g] # None,
           \A n \in FileName : v1[n] \subseteq v2[n],
           \A p \in Peer, n \in FileName : k1[p][n] # None => k2[p][n] # None,
           t1 => t2
    PROVE  SafeDownload(dl, s2, v2, k2, t2)
<1>1. /\ dl \in DownloadRecord /\ DownloadTyped(dl) /\ dl.meta \in Meta
      /\ dl.pc = "fetch" => Accounted(dl)
  BY DEF LegalDownload, DownloadRecord
<1>2. dl.meta.chunks \in Seq(Digest)
  BY <1>1 DEF Meta
<1>3. dl.pc = "fetch" =>
          \A k \in DOMAIN dl.results : dl.meta.chunks[dl.results[k].index] \in Digest
  BY <1>1, <1>2 DEF Accounted, ResultIndexes
<1>4. \A g \in Range(dl.meta.chunks) : g \in Digest
  BY <1>2 DEF Range
<1>5. CASE dl.pc = "fetch"
  BY <1>1, <1>3, <1>5 DEF SafeDownload, DownloadTyped, Active, DownloadPC
<1>6. CASE dl.pc = "register"
  BY <1>1, <1>4, <1>6 DEF SafeDownload, DownloadTyped, Active, DownloadPC
<1>7. CASE dl.pc \in {"peers", "probe"}
  BY <1>1, <1>7 DEF SafeDownload, DownloadTyped, Active, DownloadPC
<1>8. CASE dl.pc \in {"open", "write", "ok"}
  BY <1>1, <1>8, WorkDirAssumption DEF SafeDownload, DownloadTyped, Active, DownloadPC
<1>9. CASE dl.pc \notin {"fetch", "register", "peers", "probe", "open", "write", "ok"}
  BY <1>9 DEF SafeDownload
<1> QED
  BY <1>5, <1>6, <1>7, <1>8, <1>9

\* What holds of an upload keeps holding under the same condition.
LEMMA SafeUploadStable ==
    ASSUME TypesInv, NEW u \in Upload, NEW s1, NEW s2, NEW v1, NEW v2,
           SafeUpload(upload[u], s1, v1),
           upload[u].pc \in {"store", "add"} => \A g \in Digest :
               s1[upload[u].peer][g] # None => s2[upload[u].peer][g] # None,
           \A n \in FileName : v1[n] \subseteq v2[n]
    PROVE  SafeUpload(upload[u], s2, v2)
<1> DEFINE up == upload[u]
<1> SUFFICES ASSUME up.pc \in {"store", "add"} PROVE SafeUpload(up, s2, v2)
  BY DEF SafeUpload
<1>1. up.name \in FileName /\ up.peer \in Peer /\ up.content \in Seq(Block)
  BY DEF TypesInv, TypeOK, UploadsTyped, UploadRecord
<1>2. \A i \in DOMAIN up.content : Sum256[up.content[i]] \in Digest
  BY <1>1, DigestAssumption
<1> QED
  BY <1>1, <1>2 DEF SafeUpload

\* A file that may be advertised stays servable under the same condition.
LEMMA SafeMetaStable ==
    ASSUME NEW m \in Maybe(Meta), NEW s1, NEW s2, NEW c1, NEW c2,
           SafeMeta(m, s1, c1), c1 \subseteq c2,
           \A g \in Digest : s1[g] # None => s2[g] # None
    PROVE  SafeMeta(m, s2, c2)
<1>1. m # None => \A g \in Range(m.chunks) : g \in Digest
  BY DEF Maybe, Meta, Range
<1> QED
  BY <1>1 DEF SafeMeta

\* The failed download is safe whatever the rest of the state is.
LEMMA FailedIsSafe ==
    \A s, v, k, t : SafeDownload(Failed, s, v, k, t)
<1>1. Failed.pc = "failed"
  BY DEF Failed, IdleDownload
<1> QED
  BY <1>1 DEF SafeDownload

-----------------------------------------------------------------------------
(***************************************************************************)
(* The second half is preserved by every step.                             *)
(***************************************************************************)
\* A step of one download keeps the second half when stores and disks only
\* grow, the new record is safe and what is advertised is servable.
LEMMA DownloadStepSafe ==
    ASSUME TypesInv, SafetyInv2, NEW d \in Download, NEW dl,
           Becomes(d, dl), UNCHANGED <<upload, uploaded>>,
           Grows(chunkData, chunkData'), StoreIsContentAddressed',
           \A p \in Peer, n \in FileName : disk[p][n] # None => disk'[p][n] # None,
           raced => raced',
           SafeDownload(dl, chunkData', uploaded, disk', raced'),
           ~raced' => \A p \in Peer, n \in FileName :
                         SafeMeta(sharedFiles'[p][n], chunkData'[p], uploaded[n])
    PROVE  SafetyInv2'
<1>1. ASSUME NEW e \in Download
      PROVE  SafeDownload(download'[e], chunkData', uploaded', disk', raced')
  <2>1. CASE e = d
    BY <2>1 DEF Becomes, TypesInv, TypeOK
  <2>2. CASE e # d
    <3>1. download'[e] = download[e]
      BY <2>2 DEF Becomes, TypesInv, TypeOK
    <3>2. LegalDownload(download[e])
      BY DownloadIsLegal
    <3>3. download[e].pc \in Active => download[e].peer \in Peer
      BY <3>2 DEF LegalDownload, DownloadTyped
    <3>4. SafeDownload(download[e], chunkData, uploaded, disk, raced)
      BY DEF SafetyInv2
    <3> QED
      BY <3>1, <3>2, <3>3, <3>4, SafeDownloadStable DEF Grows
  <2> QED
    BY <2>1, <2>2
<1>2. ASSUME NEW u \in Upload
      PROVE  SafeUpload(upload'[u], chunkData', uploaded')
  <2>1. upload[u].pc \in {"store", "add"} => upload[u].peer \in Peer
    BY DEF TypesInv, UploadsTyped
  <2>2. SafeUpload(upload[u], chunkData, uploaded)
    BY DEF SafetyInv2
  <2> QED
    BY <2>1, <2>2, SafeUploadStable DEF Grows
<1> QED
  BY <1>1, <1>2 DEF SafetyInv2

\* A step that only moves one download on.
LEMMA QuietStepSafe ==
    ASSUME TypesInv, SafetyInv2, NEW d \in Download, NEW dl,
           Becomes(d, dl),
           UNCHANGED <<sharedFiles, chunkData, disk, upload, uploaded>>,
           raced => raced',
           SafeDownload(dl, chunkData, uploaded, disk, raced')
    PROVE  SafetyInv2'
<1>1. Grows(chunkData, chunkData') /\ StoreIsContentAddressed'
  BY DEF Grows, SafetyInv2, StoreIsContentAddressed
<1>2. ~raced' => \A p \in Peer, n \in FileName :
                    SafeMeta(sharedFiles'[p][n], chunkData'[p], uploaded[n])
  BY DEF SafetyInv2
<1> QED
  BY <1>1, <1>2, DownloadStepSafe

\* A download that fails keeps the second half.
LEMMA FailSafe ==
    ASSUME TypesInv, SafetyInv2, NEW d \in Download, Fail(d),
           UNCHANGED <<sharedFiles, chunkData, disk, upload, uploaded>>,
           raced => raced'
    PROVE  SafetyInv2'
BY FailedIsSafe, QuietStepSafe DEF Fail

\* DownloadHandler accepts a request: nothing is claimed of it yet.
LEMMA DownloadBeginSafe ==
    ASSUME TypesInv, SafetyInv2, NEW d \in Download, NEW p \in Peer,
           NEW n \in FileName, NEW a \in Address, DownloadBegin(d, p, n, a)
    PROVE  SafetyInv2'
<1> DEFINE new == [IdleDownload EXCEPT !.pc = "meta", !.peer = p,
                                       !.name = n, !.primary = a]
<1>1. SafeDownload(new, chunkData, uploaded, disk, raced')
  BY DEF SafeDownload, IdleDownload
<1> QED
  BY <1>1, QuietStepSafe DEF DownloadBegin

\* The metadata a download keeps is that of an uploaded version, unless the
\* read of the map raced with an AddFile.
LEMMA MetaArrivesSafe ==
    ASSUME TypesInv, SafetyInv2, NEW d \in Download, NEW m \in Meta,
           download[d].pc = "meta", MetaArrives(d, m),
           UNCHANGED <<sharedFiles, chunkData, disk, upload, uploaded>>,
           raced => raced',
           ~raced' => \E c \in uploaded[download[d].name] : m = MetaOf(c)
    PROVE  SafetyInv2'
<1> DEFINE dl == download[d]
           new == [dl EXCEPT !.pc = "peers", !.meta = m,
                             !.epoch = incarnation]
<1>1. dl \in DownloadRecord
  BY DownloadIsLegal DEF LegalDownload
<1>2. new.pc = "peers" /\ new.meta = m /\ new.name = dl.name
  BY <1>1 DEF DownloadRecord
<1>3. SafeDownload(new, chunkData, uploaded, disk, raced')
  BY <1>2 DEF SafeDownload
<1>4. Fail(d) \/ Becomes(d, new)
  BY DEF MetaArrives
<1> QED
  BY <1>3, <1>4, FailSafe, QuietStepSafe

\* FetchFileMeta returns what the primary peer advertises, which was uploaded.
LEMMA FetchMetaSafe ==
    ASSUME TypesInv, SafetyInv2, NEW d \in Download,
           FetchMeta(d) \/ FetchMetaRaces(d) \/ FetchMetaFails(d)
    PROVE  SafetyInv2'
<1> DEFINE dl == download[d]
           q == Source(d, dl.primary)
<1>1. dl.pc = "meta" /\ LegalDownload(dl)
  BY DownloadIsLegal DEF FetchMeta, FetchMetaRaces, FetchMetaFails
<1>2. q \in Peer /\ dl.name \in FileName
  BY <1>1, SourceType DEF LegalDownload, DownloadTyped, Active, DownloadPC
<1>3. sharedFiles[q][dl.name] \in Maybe(Meta)
  BY <1>2 DEF TypesInv, TypeOK
<1>4. CASE FetchMeta(d)
  <2> DEFINE m == sharedFiles[q][dl.name]
  <2>1. m \in Meta /\ MetaArrives(d, m)
    BY <1>3, <1>4 DEF FetchMeta, Maybe
  <2>2. ~raced => \E c \in uploaded[dl.name] : m = MetaOf(c)
    BY <1>2, <1>4 DEF FetchMeta, SafetyInv2, SafeMeta
  <2> QED
    BY <1>1, <1>4, <2>1, <2>2, MetaArrivesSafe DEF FetchMeta
<1>5. CASE FetchMetaRaces(d) /\ Fail(d)
  BY <1>5, FailSafe DEF FetchMetaRaces
<1>6. CASE FetchMetaRaces(d) /\ ~Fail(d)
  <2>1. PICK u \in Adding(q) :
            \E m \in Mixed(Current(q, dl.name), MetaOf(upload[u].content)) :
                MetaArrives(d, m)
    BY <1>6 DEF FetchMetaRaces
  <2>2. PICK m \in Mixed(Current(q, dl.name), MetaOf(upload[u].content)) :
            MetaArrives(d, m)
    BY <2>1
  <2>3. MetaOf(upload[u].content) \in Meta
    <3>1. u \in Upload /\ upload \in [Upload -> UploadRecord]
      BY DEF Adding, TypesInv, TypeOK
    <3>2. upload[u] \in UploadRecord
      BY <3>1
    <3>3. upload[u].content \in Seq(Block)
      BY <3>2 DEF UploadRecord
    <3> QED
      BY <3>3, MetaOfType
  <2>4. Current(q, dl.name) \in Meta
    BY <1>3, CurrentType
  <2>5. m \in Meta
    BY <2>3, <2>4, MixedType
  <2> QED
    BY <1>1, <1>6, <2>2, <2>5, MetaArrivesSafe DEF FetchMetaRaces
<1>7. CASE FetchMetaFails(d)
  BY <1>7, FailSafe DEF FetchMetaFails
<1> QED
  BY <1>4, <1>5, <1>6, <1>7

\* FindPeers, ProbePeer and LaunchChunks keep the metadata and collect nothing.
LEMMA FindAndLaunchSafe ==
    ASSUME TypesInv, SafetyInv2, NEW d \in Download,
           FindPeers(d) \/ ProbePeer(d) \/ LaunchChunks(d)
    PROVE  SafetyInv2'
<1> DEFINE dl == download[d]
<1>1. LegalDownload(dl) /\ dl \in DownloadRecord /\ dl.pc \in {"peers", "probe"}
  BY DownloadIsLegal DEF LegalDownload, FindPeers, ProbePeer, LaunchChunks
<1>2. dl.results = <<>>
  BY <1>1 DEF LegalDownload, DownloadTyped
<1>3. SafeDownload(dl, chunkData, uploaded, disk, raced)
  BY DEF SafetyInv2
<1>4. PICK new : /\ Becomes(d, new)
                 /\ new.pc \in {"probe", "fetch"}
                 /\ new.results = dl.results /\ new.meta = dl.meta
                 /\ new.name = dl.name
  <2>1. CASE FindPeers(d)
    <3> DEFINE new == [dl EXCEPT !.pc = "probe", !.avail = <<dl.primary>>,
                                 !.toProbe = registry[dl.peer]]
    <3>1. /\ new.pc = "probe" /\ new.results = dl.results
          /\ new.meta = dl.meta /\ new.name = dl.name
      BY <1>1 DEF DownloadRecord
    <3> QED
      BY <2>1, <3>1 DEF FindPeers
  <2>2. CASE ProbePeer(d)
    <3> DEFINE skipped == [dl EXCEPT !.toProbe = Tail(@)]
               added == [dl EXCEPT !.toProbe = Tail(@),
                                   !.avail = Append(@, Head(dl.toProbe))]
    <3>1. \A new \in {skipped, added} :
              /\ new.pc = dl.pc /\ new.results = dl.results
              /\ new.meta = dl.meta /\ new.name = dl.name
      BY <1>1 DEF DownloadRecord
    <3>2. Becomes(d, skipped) \/ Becomes(d, added)
      BY <2>2 DEF ProbePeer
    <3>3. dl.pc = "probe"
      BY <2>2 DEF ProbePeer
    <3> QED
      BY <3>1, <3>2, <3>3
  <2>3. CASE LaunchChunks(d)
    <3> DEFINE new == [dl EXCEPT !.pc = "fetch", !.pending = DOMAIN dl.meta.chunks]
    <3>1. /\ new.pc = "fetch" /\ new.results = dl.results
          /\ new.meta = dl.meta /\ new.name = dl.name
      BY <1>1 DEF DownloadRecord
    <3> QED
      BY <2>3, <3>1 DEF LaunchChunks
  <2> QED
    BY <2>1, <2>2, <2>3
<1>5. SafeDownload(new, chunkData, uploaded, disk, raced)
  BY <1>1, <1>2, <1>3, <1>4 DEF SafeDownload
<1> QED
  BY <1>4, <1>5, QuietStepSafe DEF FindPeers, ProbePeer, LaunchChunks

\* An answer of the chunk handler, damaged or not, is not yet stored.
LEMMA FetchChunkSafe ==
    ASSUME TypesInv, SafetyInv2, NEW d \in Download,
           NEW i \in download[d].pending, FetchChunk(d, i)
    PROVE  SafetyInv2'
<1> DEFINE dl == download[d]
<1>1. dl.pc = "fetch" /\ dl \in DownloadRecord
  BY FetchingLegal DEF LegalDownload
<1>2. PICK b : Becomes(d, [dl EXCEPT !.pending = @ \ {i},
                               !.replies = @ \cup {[index |-> i, data |-> b]}])
  BY DEF FetchChunk
<1> DEFINE new == [dl EXCEPT !.pending = @ \ {i},
                             !.replies = @ \cup {[index |-> i, data |-> b]}]
<1>3. /\ new.pc = "fetch" /\ new.results = dl.results /\ new.meta = dl.meta
      /\ new.name = dl.name /\ new.peer = dl.peer
  BY <1>1 DEF DownloadRecord
<1>4. SafeDownload(dl, chunkData, uploaded, disk, raced)
  BY DEF SafetyInv2
<1>5. SafeDownload(new, chunkData, uploaded, disk, raced)
  BY <1>1, <1>3, <1>4 DEF SafeDownload
<1> QED
  BY <1>2, <1>5, QuietStepSafe DEF FetchChunk

\* One more result, which is an error or whose block is stored and verified.
LEMMA ResultSafe ==
    ASSUME NEW dl, dl \in DownloadRecord, dl.pc = "fetch", NEW x \in ChunkResult,
           NEW stores, NEW versions, NEW disks, NEW torn,
           SafeDownload(dl, stores, versions, disks, torn),
           x.data # None => /\ Sum256[x.data] = dl.meta.chunks[x.index]
                            /\ stores[dl.peer][dl.meta.chunks[x.index]] # None,
           NEW new, new.pc = "fetch", new.meta = dl.meta, new.name = dl.name,
           new.peer = dl.peer, new.results = Append(dl.results, x)
    PROVE  SafeDownload(new, stores, versions, disks, torn)
<1>1. dl.results \in Seq(ChunkResult)
  BY DEF DownloadRecord
<1>2. \A k \in DOMAIN new.results :
          new.results[k] = x \/ (k \in DOMAIN dl.results /\ new.results[k] = dl.results[k])
  BY <1>1
<1> QED
  BY <1>2 DEF SafeDownload

\* An error sent to the channel claims nothing of the store.
LEMMA FetchChunkFailsSafe ==
    ASSUME TypesInv, SafetyInv2, NEW d \in Download,
           NEW i \in download[d].pending, FetchChunkFails(d, i)
    PROVE  SafetyInv2'
<1> DEFINE dl == download[d]
           x == [index |-> i, data |-> None]
           new == [dl EXCEPT !.pending = @ \ {i}, !.results = Append(@, x)]
<1>1. dl.pc = "fetch" /\ dl \in DownloadRecord /\ dl.pending \in SUBSET Nat
  BY FetchingLegal DEF LegalDownload, DownloadRecord
<1>2. x \in ChunkResult /\ x.data = None
  BY <1>1 DEF ChunkResult, Maybe
<1>3. /\ new.pc = "fetch" /\ new.results = Append(dl.results, x)
      /\ new.meta = dl.meta /\ new.name = dl.name /\ new.peer = dl.peer
  BY <1>1 DEF DownloadRecord
<1>4. SafeDownload(dl, chunkData, uploaded, disk, raced)
  BY DEF SafetyInv2
<1>5. Becomes(d, new)
  BY DEF FetchChunkFails, Sent
<1> HIDE DEF dl, x, new
<1>6. SafeDownload(new, chunkData, uploaded, disk, raced)
  BY <1>1, <1>2, <1>3, <1>4, ResultSafe
<1> QED
  BY <1>5, <1>6, QuietStepSafe DEF FetchChunkFails, Sent

\* downloadChunk stores a block only under the digest it has, and before it
\* sends the result (downloader.go:188-206).
LEMMA DownloadChunkSafe ==
    ASSUME TypesInv, SafetyInv2, NEW d \in Download,
           NEW r \in download[d].replies, DownloadChunk(d, r)
    PROVE  SafetyInv2'
<1> DEFINE dl == download[d]
           g == dl.meta.chunks[r.index]
           x == [index |-> r.index,
                 data  |-> IF Sum256[r.data] = g THEN r.data ELSE None]
           new == [dl EXCEPT !.replies = @ \ {r}, !.results = Append(@, x)]
<1>1. /\ dl.pc = "fetch" /\ LegalDownload(dl) /\ dl \in DownloadRecord
      /\ Accounted(dl) /\ dl.meta \in Meta /\ dl.peer \in Peer
      /\ dl.replies \in SUBSET ChunkReply
  BY FetchingLegal DEF LegalDownload, DownloadRecord
<1>2. r.index \in Nat /\ r.data \in Block /\ r.data # None
  BY <1>1, NoneAssumption DEF ChunkReply
<1>3. g \in Digest
  BY <1>1 DEF Accounted, ReplyIndexes, Meta
<1>4. x \in ChunkResult /\ x.index = r.index
  BY <1>2 DEF ChunkResult, Maybe
<1>5. x.data # None => Sum256[x.data] = g /\ x.data = r.data
  OBVIOUS
<1>6. /\ new.pc = "fetch" /\ new.results = Append(dl.results, x)
      /\ new.meta = dl.meta /\ new.name = dl.name /\ new.peer = dl.peer
  BY <1>1 DEF DownloadRecord
<1>7. Becomes(d, new)
  BY DEF DownloadChunk, Sent, Verified
<1>8. \/ chunkData' = chunkData /\ x.data = None
      \/ /\ chunkData' = [chunkData EXCEPT ![dl.peer][g] = r.data]
         /\ Sum256[r.data] = g
  BY DEF DownloadChunk, Sent, Verified
<1>9. chunkData \in [Peer -> [Digest -> Maybe(Block)]]
  BY DEF TypesInv, TypeOK
<1>10. SafeDownload(dl, chunkData, uploaded, disk, raced)
  BY DEF SafetyInv2
<1>11. UNCHANGED <<sharedFiles, disk, upload, uploaded, raced>>
  BY DEF DownloadChunk, Sent, Verified
<1> HIDE DEF dl, g, x, new
<1>12. Grows(chunkData, chunkData')
  BY <1>1, <1>2, <1>3, <1>8, <1>9 DEF Grows
<1>13. StoreIsContentAddressed'
  BY <1>1, <1>2, <1>3, <1>8, <1>9 DEF SafetyInv2, StoreIsContentAddressed
<1>14. SafeDownload(dl, chunkData', uploaded, disk, raced)
  BY <1>1, <1>10, <1>12, SafeDownloadStable DEF Grows
<1>15. x.data # None => chunkData'[dl.peer][g] # None
  BY <1>1, <1>2, <1>3, <1>8, <1>9
<1>16. SafeDownload(new, chunkData', uploaded, disk, raced)
  BY <1>1, <1>4, <1>5, <1>6, <1>14, <1>15, ResultSafe DEF g
<1>17. ~raced => \A p \in Peer, n \in FileName :
                    SafeMeta(sharedFiles[p][n], chunkData'[p], uploaded[n])
  <2> SUFFICES ASSUME ~raced, NEW p \in Peer, NEW n \in FileName
               PROVE  SafeMeta(sharedFiles[p][n], chunkData'[p], uploaded[n])
    OBVIOUS
  <2>1. sharedFiles[p][n] \in Maybe(Meta)
    BY DEF TypesInv, TypeOK
  <2>2. SafeMeta(sharedFiles[p][n], chunkData[p], uploaded[n])
    BY DEF SafetyInv2
  <2> QED
    BY <1>12, <2>1, <2>2, SafeMetaStable DEF Grows
<1> QED
  BY <1>7, <1>11, <1>12, <1>13, <1>16, <1>17, DownloadStepSafe

\* The heart of the integrity argument: results that match the digests of an
\* uploaded version, one per position, merge into that version.
LEMMA MergedIsVersion ==
    ASSUME NEW dl, LegalDownload(dl), dl.pc = "fetch",
           dl.pending = {}, dl.replies = {},
           \A r \in Range(dl.results) : r.data # None,
           \A k \in DOMAIN dl.results :
              Sum256[dl.results[k].data] = dl.meta.chunks[dl.results[k].index],
           NEW c \in Seq(Block), dl.meta = MetaOf(c)
    PROVE  Reassemble(dl.results) = c
<1> DEFINE m == Reassemble(dl.results)
           n == Len(c)
<1>1. /\ n \in Nat /\ Len(dl.meta.chunks) = n
      /\ \A k \in 1 .. n : dl.meta.chunks[k] = Sum256[c[k]] /\ c[k] \in Block
  BY DEF MetaOf
<1>2. /\ m \in Seq(Block) /\ Len(m) = n
      /\ \A k \in 1 .. n : \E j \in DOMAIN dl.results :
            dl.results[j].index = k /\ m[k] = dl.results[j].data
  BY <1>1, ReassembleResults
<1>3. ASSUME NEW k \in 1 .. n PROVE m[k] = c[k]
  <2>1. Sum256[m[k]] = Sum256[c[k]]
    BY <1>1, <1>2
  <2>2. m[k] \in Block /\ c[k] \in Block
    BY <1>1, <1>2
  <2> QED
    BY <2>1, <2>2, CollisionFree
<1> HIDE DEF m
<1> QED
  BY <1>1, <1>2, <1>3 DEF m

\* A download that collected all chunks without an error holds an uploaded
\* version, and every chunk of it is stored (downloader.go:138-156).
LEMMA CollectResultsSafe ==
    ASSUME TypesInv, SafetyInv2, NEW d \in Download, CollectResults(d)
    PROVE  SafetyInv2'
<1> DEFINE dl == download[d]
           new == [dl EXCEPT !.pc = "register", !.data = Reassemble(dl.results)]
<1>1. /\ dl.pc = "fetch" /\ dl.pending = {} /\ dl.replies = {}
      /\ LegalDownload(dl) /\ dl \in DownloadRecord /\ dl.name \in FileName
  BY DownloadIsLegal DEF CollectResults, Usable, Collected, LegalDownload, DownloadTyped,
                         Active, DownloadPC
<1>2. CASE Fail(d)
  BY <1>2, FailSafe DEF CollectResults, Usable, Usable
<1>3. CASE (\A r \in Range(dl.results) : r.data # None) /\ Becomes(d, new)
  <2>1. SafeDownload(dl, chunkData, uploaded, disk, raced)
    BY DEF SafetyInv2
  <2>2. /\ new.pc = "register" /\ new.meta = dl.meta /\ new.name = dl.name
        /\ new.peer = dl.peer /\ new.data = Reassemble(dl.results)
    BY <1>1 DEF DownloadRecord
  <2>3. \A k \in DOMAIN dl.results : dl.results[k].data # None
    BY <1>3 DEF Range
  <2>4. \A k \in DOMAIN dl.results :
            LET g == dl.meta.chunks[dl.results[k].index]
            IN  Sum256[dl.results[k].data] = g /\ chunkData[dl.peer][g] # None
    BY <1>1, <2>1, <2>3 DEF SafeDownload
  <2>5. \A h \in Range(dl.meta.chunks) : chunkData[dl.peer][h] # None
    <3> SUFFICES ASSUME NEW k \in DOMAIN dl.meta.chunks
                 PROVE  chunkData[dl.peer][dl.meta.chunks[k]] # None
      BY DEF Range
    <3>1. /\ Complete(dl.results, 1, Len(dl.meta.chunks))
          /\ DOMAIN dl.meta.chunks = 1 .. Len(dl.meta.chunks)
      BY <1>1, CollectedIsComplete
    <3>2. PICK j \in DOMAIN dl.results : dl.results[j].index = k
      BY <3>1 DEF Complete
    <3> QED
      BY <2>4, <3>2
  <2>6. ~raced => \E c \in uploaded[dl.name] : dl.meta = MetaOf(c)
    BY <1>1, <2>1 DEF SafeDownload
  <2>7. ASSUME ~raced PROVE Reassemble(dl.results) \in uploaded[dl.name]
    <3>1. PICK c \in uploaded[dl.name] : dl.meta = MetaOf(c)
      BY <2>6, <2>7
    <3>2. c \in Seq(Block)
      BY <1>1 DEF TypesInv, TypeOK
    <3>3. Reassemble(dl.results) = c
      BY <1>1, <1>3, <2>4, <3>1, <3>2, MergedIsVersion
    <3> QED
      BY <3>3
  <2>8. SafeDownload(new, chunkData, uploaded, disk, raced)
    <3> HIDE DEF new, dl
    <3> QED
      BY <2>2, <2>5, <2>6, <2>7 DEF SafeDownload
  <2> QED
    BY <1>3, <2>8, QuietStepSafe DEF CollectResults, Usable, Usable
<1> QED
  BY <1>2, <1>3 DEF CollectResults, Usable, Usable

\* What a racing write of SharedFiles leaves does not matter any more; what an
\* orderly one leaves is the metadata of a version whose chunks are stored.
LEMMA RegisterDownloadSafe ==
    ASSUME TypesInv, SafetyInv2, NEW d \in Download,
           RegisterDownload(d) \/ RegisterDownloadRaces(d)
    PROVE  SafetyInv2'
<1> DEFINE dl == download[d]
           new == [dl EXCEPT !.pc = "open"]
<1>1. /\ dl.pc = "register" /\ LegalDownload(dl) /\ dl \in DownloadRecord
      /\ dl.peer \in Peer /\ dl.name \in FileName
  BY DownloadIsLegal DEF RegisterDownload, RegisterDownloadRaces, LegalDownload,
                         DownloadTyped, Active, DownloadPC
<1>2. /\ Becomes(d, new)
      /\ UNCHANGED <<chunkData, disk, upload, uploaded>>
      /\ raced => raced'
  BY DEF RegisterDownload, RegisterDownloadRaces
<1>3. SafeDownload(dl, chunkData, uploaded, disk, raced)
  BY DEF SafetyInv2
<1>4. /\ new.pc = "open" /\ new.data = dl.data /\ new.name = dl.name
  BY <1>1 DEF DownloadRecord
<1>5. SafeDownload(new, chunkData', uploaded, disk', raced')
  <2> HIDE DEF new, dl
  <2> QED
    BY <1>1, <1>2, <1>3, <1>4 DEF SafeDownload
<1>6. Grows(chunkData, chunkData') /\ StoreIsContentAddressed'
  BY <1>2 DEF Grows, SafetyInv2, StoreIsContentAddressed
<1>7. ASSUME ~raced', NEW p \in Peer, NEW n \in FileName
      PROVE  SafeMeta(sharedFiles'[p][n], chunkData'[p], uploaded[n])
  <2>1. RegisterDownload(d) /\ ~raced
    BY <1>7 DEF RegisterDownload, RegisterDownloadRaces
  <2>2. sharedFiles' = [sharedFiles EXCEPT ![dl.peer][dl.name] = dl.meta]
    BY <2>1 DEF RegisterDownload
  <2>3. sharedFiles \in [Peer -> [FileName -> Maybe(Meta)]]
    BY DEF TypesInv, TypeOK
  <2>4. CASE p = dl.peer /\ n = dl.name
    <3>1. sharedFiles'[p][n] = dl.meta
      BY <2>2, <2>3, <2>4
    <3>2. SafeMeta(dl.meta, chunkData[p], uploaded[n])
      BY <1>1, <1>3, <2>1, <2>4 DEF SafeDownload, SafeMeta
    <3> QED
      BY <1>2, <3>1, <3>2
  <2>5. CASE ~(p = dl.peer /\ n = dl.name)
    <3>1. sharedFiles'[p][n] = sharedFiles[p][n]
      BY <2>2, <2>3, <2>5
    <3> QED
      BY <1>2, <2>1, <3>1 DEF SafetyInv2
  <2> QED
    BY <2>4, <2>5
<1> QED
  BY <1>2, <1>5, <1>6, <1>7, DownloadStepSafe

\* Saving changes the disk only, and never removes a file.
LEMMA SaveSafe ==
    ASSUME TypesInv, SafetyInv2, NEW d \in Download,
           SaveOpen(d) \/ SaveWrite(d) \/ SaveFails(d)
    PROVE  SafetyInv2'
<1> DEFINE dl == download[d]
           p == dl.peer
           w == Folder(d)
           n == dl.name
<1>1. /\ LegalDownload(dl) /\ dl \in DownloadRecord /\ dl.pc \in {"open", "write"}
      /\ p \in Peer /\ w = WorkDir[p] /\ w \in Peer
      /\ n \in FileName /\ dl.data \in Seq(Block)
  BY DownloadIsLegal, WorkDirAssumption
     DEF SaveOpen, SaveWrite, SaveFails, LegalDownload, Folder, DownloadRecord,
         DownloadTyped, Active, DownloadPC
<1>2. disk \in [Peer -> [FileName -> Seq(Block) \cup {None}]]
  BY DEF TypesInv, TypeOK
<1>3. SafeDownload(dl, chunkData, uploaded, disk, raced)
  BY DEF SafetyInv2
<1>4. ASSUME NEW new, Becomes(d, new), NEW file \in Seq(Block),
             disk' = [disk EXCEPT ![w][n] = file],
             UNCHANGED <<sharedFiles, chunkData, upload, uploaded, raced>>,
             SafeDownload(new, chunkData, uploaded, disk', raced)
      PROVE  SafetyInv2'
  <2>1. \A q \in Peer, m \in FileName : disk[q][m] # None => disk'[q][m] # None
    BY <1>1, <1>2, <1>4, NoneAssumption
  <2>2. Grows(chunkData, chunkData') /\ StoreIsContentAddressed'
    BY <1>4 DEF Grows, SafetyInv2, StoreIsContentAddressed
  <2>3. ~raced' => \A q \in Peer, m \in FileName :
                      SafeMeta(sharedFiles'[q][m], chunkData'[q], uploaded[m])
    BY <1>4 DEF SafetyInv2
  <2> QED
    BY <1>4, <2>1, <2>2, <2>3, DownloadStepSafe
<1>5. CASE SaveOpen(d)
  <2> DEFINE new == [dl EXCEPT !.pc = "write"]
  <2>1. /\ Becomes(d, new) /\ disk' = [disk EXCEPT ![w][n] = <<>>]
        /\ UNCHANGED <<sharedFiles, chunkData, upload, uploaded, raced>>
        /\ dl.pc = "open"
    BY <1>5 DEF SaveOpen
  <2>2. <<>> \in Seq(Block) /\ disk'[w][n] # None
    <3>1. <<>> \in Seq(Block) /\ <<>> # None
      <4>1. <<>> \in Seq(Block)
        OBVIOUS
      <4> QED
        BY <4>1, NoneAssumption
    <3>2. disk'[w][n] = <<>>
      BY <1>1, <1>2, <2>1
    <3> QED
      BY <3>1, <3>2
  <2>3. /\ new.pc = "write" /\ new.peer = p /\ new.name = n /\ new.data = dl.data
    BY <1>1 DEF DownloadRecord
  <2>4. SafeDownload(new, chunkData, uploaded, disk', raced)
    <3> HIDE DEF new, dl, w
    <3> QED
      BY <1>1, <1>3, <2>1, <2>2, <2>3 DEF SafeDownload
  <2> HIDE DEF new
  <2> QED
    BY <1>4, <2>1, <2>2, <2>4
<1>6. CASE SaveWrite(d)
  <2> DEFINE new == Succeeded(dl)
             file == Overwrite(disk[w][n], dl.data)
  <2>1. dl.pc = "write" /\ disk[w][n] \in Seq(Block)
    BY <1>1, <1>2, <1>3, <1>6 DEF SaveWrite, SafeDownload
  <2>2. file \in Seq(Block)
    BY <1>1, <2>1 DEF Overwrite
  <2>3. /\ Becomes(d, new) /\ disk' = [disk EXCEPT ![w][n] = file]
        /\ UNCHANGED <<sharedFiles, chunkData, upload, uploaded, raced>>
    BY <1>1, <1>2, <1>6 DEF SaveWrite
  <2>4. /\ new.pc = "ok" /\ new.name = n /\ new.data = dl.data
    BY DEF Succeeded, IdleDownload
  <2>5. SafeDownload(new, chunkData, uploaded, disk', raced)
    <3> HIDE DEF new, dl
    <3> QED
      BY <1>3, <2>1, <2>4 DEF SafeDownload
  <2> HIDE DEF new, file
  <2> QED
    BY <1>4, <2>2, <2>3, <2>5
<1>7. CASE SaveFails(d) /\ dl.pc = "open"
  <2>1. Fail(d) /\ UNCHANGED <<sharedFiles, chunkData, disk, upload, uploaded, raced>>
    BY <1>7 DEF SaveFails
  <2> QED
    BY <2>1, FailSafe
<1>8. CASE SaveFails(d) /\ dl.pc = "write"
  <2>1. disk[w][n] \in Seq(Block)
    BY <1>1, <1>2, <1>3, <1>8 DEF SafeDownload
  <2>2. PICK k \in 0 .. Len(dl.data) :
            disk' = [disk EXCEPT ![w][n] = Overwrite(@, SubSeq(dl.data, 1, k))]
    BY <1>8 DEF SaveFails
  <2> DEFINE file == Overwrite(disk[w][n], SubSeq(dl.data, 1, k))
  <2>3. SubSeq(dl.data, 1, k) \in Seq(Block)
    BY <1>1
  <2>4. file \in Seq(Block)
    BY <2>1, <2>3 DEF Overwrite
  <2>5. /\ Becomes(d, Failed) /\ disk' = [disk EXCEPT ![w][n] = file]
        /\ UNCHANGED <<sharedFiles, chunkData, upload, uploaded, raced>>
    BY <1>1, <1>2, <1>8, <2>2 DEF SaveFails, Fail
  <2> HIDE DEF file
  <2> QED
    BY <1>4, <2>4, <2>5, FailedIsSafe
<1> QED
  BY <1>1, <1>5, <1>6, <1>7, <1>8
-----------------------------------------------------------------------------
\* Uploads: another version of a name is recorded, nothing is taken away.
LEMMA UploadBeginSafe ==
    ASSUME TypesInv, SafetyInv2, NEW u \in Upload, NEW p \in Peer,
           NEW n \in FileName, NEW c \in Content, UploadBegin(u, p, n, c)
    PROVE  SafetyInv2'
<1> DEFINE new == [pc |-> IF c = <<>> THEN "add" ELSE "store",
                   peer |-> p, name |-> n, content |-> c, next |-> 1]
<1>1. /\ upload' = [upload EXCEPT ![u] = new]
      /\ uploaded' = [uploaded EXCEPT ![n] = @ \cup {c}]
      /\ UNCHANGED <<sharedFiles, chunkData, disk, download, raced>>
  BY DEF UploadBegin
<1>2. /\ upload \in [Upload -> UploadRecord]
      /\ uploaded \in [FileName -> SUBSET Seq(Block)]
      /\ sharedFiles \in [Peer -> [FileName -> Maybe(Meta)]]
  BY DEF TypesInv, TypeOK
<1>3. \A m \in FileName : uploaded[m] \subseteq uploaded'[m]
  BY <1>1, <1>2
<1>4. c \in uploaded'[n]
  BY <1>1, <1>2
<1>5. StoreIsContentAddressed'
  BY <1>1 DEF SafetyInv2, StoreIsContentAddressed
<1>6. ASSUME NEW d \in Download
      PROVE  SafeDownload(download'[d], chunkData', uploaded', disk', raced')
  <2>1. LegalDownload(download[d])
    BY DownloadIsLegal
  <2>2. SafeDownload(download[d], chunkData, uploaded, disk, raced)
    BY DEF SafetyInv2
  <2>3. SafeDownload(download[d], chunkData, uploaded', disk, raced)
    BY <1>3, <2>1, <2>2, SafeDownloadStable
  <2> QED
    BY <1>1, <2>3
<1>7. ASSUME NEW v \in Upload
      PROVE  SafeUpload(upload'[v], chunkData', uploaded')
  <2>1. CASE v = u
    <3>1. upload'[v] = new /\ c \in Seq(Block)
      BY <1>1, <1>2, <2>1, ContentAssumption
    <3>2. \A i \in DOMAIN c : ~(i < 1)
      BY <3>1
    <3>3. SafeUpload(new, chunkData', uploaded')
      BY <1>4, <3>2 DEF SafeUpload
    <3> QED
      BY <3>1, <3>3
  <2>2. CASE v # u
    <3>1. upload'[v] = upload[v]
      BY <1>1, <1>2, <2>2
    <3>2. SafeUpload(upload[v], chunkData, uploaded)
      BY DEF SafetyInv2
    <3>3. SafeUpload(upload[v], chunkData, uploaded')
      BY <1>3, <3>2, SafeUploadStable
    <3> QED
      BY <1>1, <3>1, <3>3
  <2> QED
    BY <2>1, <2>2
<1>8. ASSUME ~raced', NEW q \in Peer, NEW m \in FileName
      PROVE  SafeMeta(sharedFiles'[q][m], chunkData'[q], uploaded'[m])
  <2>1. SafeMeta(sharedFiles[q][m], chunkData[q], uploaded[m])
    BY <1>1, <1>8 DEF SafetyInv2
  <2>2. sharedFiles[q][m] \in Maybe(Meta)
    BY <1>2
  <2>3. SafeMeta(sharedFiles[q][m], chunkData[q], uploaded'[m])
    BY <1>3, <2>1, <2>2, SafeMetaStable
  <2> QED
    BY <1>1, <2>3
<1> QED
  BY <1>5, <1>6, <1>7, <1>8 DEF SafetyInv2

\* One turn of UploadHandler's loop stores a block under its digest; what was
\* stored before is still there (upload.go:57-68).
LEMMA UploadStoreSafe ==
    ASSUME TypesInv, SafetyInv2, NEW u \in Upload, UploadStore(u)
    PROVE  SafetyInv2'
<1> DEFINE up == upload[u]
           b == up.content[up.next]
           g == Sum256[b]
           new == [up EXCEPT !.next = @ + 1,
                             !.pc = IF up.next = Len(up.content)
                                    THEN "add" ELSE "store"]
<1>1. /\ up \in UploadRecord /\ up.pc = "store" /\ up.content \in Seq(Block)
      /\ up.peer \in Peer /\ up.next \in DOMAIN up.content /\ up.name \in FileName
  BY DEF TypesInv, TypeOK, UploadsTyped, UploadStore, UploadRecord
<1>2. b \in Block /\ g \in Digest /\ b # None
  BY <1>1, DigestAssumption, NoneAssumption
<1>3. /\ upload' = [upload EXCEPT ![u] = new]
      /\ chunkData' = [chunkData EXCEPT ![up.peer][g] = b]
      /\ UNCHANGED <<sharedFiles, disk, download, uploaded, raced>>
  BY DEF UploadStore, LastChunk
<1>4. /\ chunkData \in [Peer -> [Digest -> Maybe(Block)]]
      /\ upload \in [Upload -> UploadRecord]
      /\ sharedFiles \in [Peer -> [FileName -> Maybe(Meta)]]
  BY DEF TypesInv, TypeOK
<1>5. /\ new.content = up.content /\ new.name = up.name /\ new.peer = up.peer
      /\ new.next = up.next + 1
  BY <1>1 DEF UploadRecord
<1>6. \A i \in DOMAIN up.content : i < up.next + 1 => i < up.next \/ i = up.next
  BY <1>1
<1> HIDE DEF g, new
<1>7. Grows(chunkData, chunkData') /\ chunkData'[up.peer][g] # None
  BY <1>1, <1>2, <1>3, <1>4 DEF Grows
<1>8. StoreIsContentAddressed'
  BY <1>1, <1>2, <1>3, <1>4 DEF SafetyInv2, StoreIsContentAddressed, g
<1>9. ASSUME NEW d \in Download
      PROVE  SafeDownload(download'[d], chunkData', uploaded', disk', raced')
  <2>1. LegalDownload(download[d])
    BY DownloadIsLegal
  <2>2. download[d].pc \in Active => download[d].peer \in Peer
    BY <2>1 DEF LegalDownload, DownloadTyped
  <2>3. SafeDownload(download[d], chunkData, uploaded, disk, raced)
    BY DEF SafetyInv2
  <2>4. SafeDownload(download[d], chunkData', uploaded, disk, raced)
    BY <1>7, <2>1, <2>2, <2>3, SafeDownloadStable DEF Grows
  <2> QED
    BY <1>3, <2>4
<1>10. ASSUME NEW v \in Upload
       PROVE  SafeUpload(upload'[v], chunkData', uploaded')
  <2>1. upload[v].pc \in {"store", "add"} => upload[v].peer \in Peer
    BY DEF TypesInv, UploadsTyped
  <2>2. SafeUpload(upload[v], chunkData, uploaded)
    BY DEF SafetyInv2
  <2>3. SafeUpload(upload[v], chunkData', uploaded)
    BY <1>7, <2>1, <2>2, SafeUploadStable DEF Grows
  <2>4. CASE v = u
    <3>1. upload'[v] = new
      BY <1>3, <1>4, <2>4
    <3>2. /\ up.content \in uploaded[up.name]
          /\ \A i \in DOMAIN up.content :
                i < up.next => chunkData'[up.peer][Sum256[up.content[i]]] # None
      BY <1>1, <2>3, <2>4 DEF SafeUpload
    <3>3. \A i \in DOMAIN up.content :
              i < up.next + 1 => chunkData'[up.peer][Sum256[up.content[i]]] # None
      BY <1>6, <1>7, <3>2 DEF g
    <3>4. SafeUpload(new, chunkData', uploaded)
      BY <1>5, <3>2, <3>3 DEF SafeUpload
    <3> QED
      BY <1>3, <3>1, <3>4
  <2>5. CASE v # u
    <3>1. upload'[v] = upload[v]
      BY <1>3, <1>4, <2>5
    <3> QED
      BY <1>3, <2>3, <3>1
  <2> QED
    BY <2>4, <2>5
<1>11. ASSUME ~raced', NEW q \in Peer, NEW m \in FileName
       PROVE  SafeMeta(sharedFiles'[q][m], chunkData'[q], uploaded'[m])
  <2>1. SafeMeta(sharedFiles[q][m], chunkData[q], uploaded[m])
    BY <1>3, <1>11 DEF SafetyInv2
  <2>2. sharedFiles[q][m] \in Maybe(Meta)
    BY <1>4
  <2>3. SafeMeta(sharedFiles[q][m], chunkData'[q], uploaded[m])
    BY <1>7, <2>1, <2>2, SafeMetaStable DEF Grows
  <2> QED
    BY <1>3, <2>3
<1> QED
  BY <1>8, <1>9, <1>10, <1>11 DEF SafetyInv2

\* AddFile comes after the last chunk is stored; racing writes are excused.
LEMMA UploadAddSafe ==
    ASSUME TypesInv, SafetyInv2, NEW u \in Upload,
           UploadAdd(u) \/ UploadAddRaces(u)
    PROVE  SafetyInv2'
<1> DEFINE up == upload[u]
           new == [IdleUpload EXCEPT !.pc = "done"]
<1>1. /\ up.pc = "add" /\ up.content \in Seq(Block) /\ up.peer \in Peer
      /\ up.name \in FileName /\ up.next = Len(up.content) + 1
  BY DEF TypesInv, TypeOK, UploadsTyped, UploadAdd, UploadAddRaces, UploadRecord
<1>2. /\ upload' = [upload EXCEPT ![u] = new]
      /\ UNCHANGED <<chunkData, disk, download, uploaded>>
      /\ raced => raced'
  BY DEF UploadAdd, UploadAddRaces, UploadDone
<1>3. /\ upload \in [Upload -> UploadRecord]
      /\ sharedFiles \in [Peer -> [FileName -> Maybe(Meta)]]
  BY DEF TypesInv, TypeOK
<1>4. StoreIsContentAddressed'
  BY <1>2 DEF SafetyInv2, StoreIsContentAddressed
<1>5. ASSUME NEW d \in Download
      PROVE  SafeDownload(download'[d], chunkData', uploaded', disk', raced')
  <2>1. LegalDownload(download[d])
    BY DownloadIsLegal
  <2>2. SafeDownload(download[d], chunkData, uploaded, disk, raced)
    BY DEF SafetyInv2
  <2>3. SafeDownload(download[d], chunkData, uploaded, disk, raced')
    BY <1>2, <2>1, <2>2, SafeDownloadStable
  <2> QED
    BY <1>2, <2>3
<1>6. ASSUME NEW v \in Upload
      PROVE  SafeUpload(upload'[v], chunkData', uploaded')
  <2>1. CASE v = u
    <3>1. upload'[v] = new /\ new.pc = "done"
      BY <1>2, <1>3, <2>1 DEF IdleUpload
    <3> QED
      BY <3>1 DEF SafeUpload
  <2>2. CASE v # u
    BY <1>2, <1>3, <2>2 DEF SafetyInv2
  <2> QED
    BY <2>1, <2>2
<1>7. ASSUME ~raced', NEW q \in Peer, NEW m \in FileName
      PROVE  SafeMeta(sharedFiles'[q][m], chunkData'[q], uploaded'[m])
  <2>1. UploadAdd(u) /\ ~raced
    BY <1>7 DEF UploadAdd, UploadAddRaces
  <2>2. sharedFiles' = [sharedFiles EXCEPT ![up.peer][up.name] = MetaOf(up.content)]
    BY <2>1 DEF UploadAdd
  <2>3. CASE q = up.peer /\ m = up.name
    <3>1. sharedFiles'[q][m] = MetaOf(up.content)
      BY <1>3, <2>2, <2>3
    <3>2. /\ up.content \in uploaded[m]
          /\ \A i \in DOMAIN up.content :
                i < up.next => chunkData[q][Sum256[up.content[i]]] # None
      BY <1>1, <2>3 DEF SafetyInv2, SafeUpload
    <3>3. \A i \in DOMAIN up.content : i < up.next
      BY <1>1
    <3>4. \A g \in Range(MetaOf(up.content).chunks) : chunkData[q][g] # None
      <4>1. Range(MetaOf(up.content).chunks) =
               {Sum256[up.content[i]] : i \in DOMAIN up.content}
        BY <1>1, MetaOfType
      <4> QED
        BY <3>2, <3>3, <4>1
    <3>5. SafeMeta(MetaOf(up.content), chunkData[q], uploaded[m])
      BY <3>2, <3>4 DEF SafeMeta
    <3> QED
      BY <1>2, <3>1, <3>5
  <2>4. CASE ~(q = up.peer /\ m = up.name)
    <3>1. sharedFiles'[q][m] = sharedFiles[q][m]
      BY <1>3, <2>2, <2>4
    <3> QED
      BY <1>2, <2>1, <3>1 DEF SafetyInv2
  <2> QED
    BY <2>3, <2>4
<1> QED
  BY <1>4, <1>5, <1>6, <1>7 DEF SafetyInv2

\* A node that stops advertises nothing and stores nothing afterwards, and no
\* request relies on its chunks any more.
LEMMA CrashSafe ==
    ASSUME TypesInv, SafetyInv2, NEW p \in Peer, CrashPeer(p)
    PROVE  SafetyInv2'
<1> DEFINE done == [IdleUpload EXCEPT !.pc = "done"]
<1>1. /\ sharedFiles' = [sharedFiles EXCEPT ![p] = [n \in FileName |-> None]]
      /\ chunkData' = [chunkData EXCEPT ![p] = [g \in Digest |-> None]]
      /\ UNCHANGED <<disk, uploaded, raced>>
  BY DEF CrashPeer
<1>2. /\ sharedFiles \in [Peer -> [FileName -> Maybe(Meta)]]
      /\ chunkData \in [Peer -> [Digest -> Maybe(Block)]]
  BY DEF TypesInv, TypeOK
<1>3. \A q \in Peer : q # p => chunkData'[q] = chunkData[q]
                                /\ sharedFiles'[q] = sharedFiles[q]
  BY <1>1, <1>2
<1>4. \A g \in Digest : chunkData'[p][g] = None
  BY <1>1, <1>2
<1>5. \A n \in FileName : sharedFiles'[p][n] = None
  BY <1>1, <1>2
<1>6. StoreIsContentAddressed'
  BY <1>3, <1>4 DEF SafetyInv2, StoreIsContentAddressed
<1>7. ASSUME NEW d \in Download
      PROVE  SafeDownload(download'[d], chunkData', uploaded', disk', raced')
  <2>1. CASE download[d].peer = p /\ download[d].pc \in Active
    <3>1. download'[d] = Failed
      BY <2>1 DEF CrashPeer
    <3> QED
      BY <3>1, FailedIsSafe
  <2>2. CASE ~(download[d].peer = p /\ download[d].pc \in Active)
    <3>1. download'[d] = download[d]
      BY <2>2 DEF CrashPeer
    <3>2. LegalDownload(download[d])
      BY DownloadIsLegal
    <3>3. SafeDownload(download[d], chunkData, uploaded, disk, raced)
      BY DEF SafetyInv2
    <3>4. download[d].pc \in Active => download[d].peer \in Peer /\ download[d].peer # p
      BY <2>2, <3>2 DEF LegalDownload, DownloadTyped
    <3>5. download[d].pc \in Active =>
              \A g \in Digest : chunkData[download[d].peer][g] # None
                                => chunkData'[download[d].peer][g] # None
      BY <1>3, <3>4
    <3>6. SafeDownload(download[d], chunkData', uploaded, disk, raced)
      BY <3>2, <3>3, <3>5, SafeDownloadStable
    <3> QED
      BY <1>1, <3>1, <3>6
  <2> QED
    BY <2>1, <2>2
<1>8. ASSUME NEW v \in Upload
      PROVE  SafeUpload(upload'[v], chunkData', uploaded')
  <2>1. CASE upload[v].peer = p
    <3>1. upload'[v] = done /\ done.pc = "done"
      BY <2>1 DEF CrashPeer, IdleUpload
    <3> QED
      BY <3>1 DEF SafeUpload
  <2>2. CASE upload[v].peer # p
    <3>1. upload'[v] = upload[v]
      BY <2>2 DEF CrashPeer
    <3>2. SafeUpload(upload[v], chunkData, uploaded)
      BY DEF SafetyInv2
    <3>3. upload[v].pc \in {"store", "add"} => upload[v].peer \in Peer
      BY DEF TypesInv, UploadsTyped
    <3>4. SafeUpload(upload[v], chunkData', uploaded)
      BY <1>3, <2>2, <3>2, <3>3, SafeUploadStable
    <3> QED
      BY <1>1, <3>1, <3>4
  <2> QED
    BY <2>1, <2>2
<1>9. ASSUME ~raced', NEW q \in Peer, NEW m \in FileName
      PROVE  SafeMeta(sharedFiles'[q][m], chunkData'[q], uploaded'[m])
  <2>1. CASE q = p
    BY <1>5, <2>1 DEF SafeMeta
  <2>2. CASE q # p
    BY <1>1, <1>3, <1>9, <2>2 DEF SafetyInv2
  <2> QED
    BY <2>1, <2>2
<1> QED
  BY <1>6, <1>7, <1>8, <1>9 DEF SafetyInv2
-----------------------------------------------------------------------------
(***************************************************************************)
(* The invariant of the specification.                                     *)
(***************************************************************************)

\* Nothing is stored, shared or requested when the nodes are started.
LEMMA InitSafetyInv ==
    SwarmInit => SafetyInv
<1> SUFFICES ASSUME SwarmInit PROVE SafetyInv
  OBVIOUS
<1>1. RegistryTypeOK
  BY MaxIncarnationAssumption DEF SwarmInit, RegistryInit, RegistryTypeOK
<1>2. \A u \in Upload : upload[u] = IdleUpload /\ upload[u].pc = "idle"
  BY DEF SwarmInit, IdleUpload
<1>3. \A d \in Download : download[d] = IdleDownload /\ download[d].pc = "idle"
  BY DEF SwarmInit, IdleDownload
<1>4. /\ upload \in [Upload -> UploadRecord]
      /\ download \in [Download -> DownloadRecord]
  BY IdleTyped DEF SwarmInit
<1>5. TypeOK
  BY <1>1, <1>4 DEF SwarmInit, TypeOK, Maybe
<1>6. UploadsTyped
  BY <1>2 DEF UploadsTyped
<1>7. DownloadsTyped
  BY <1>3, IdleTyped DEF DownloadsTyped
<1>8. ChunksAccounted
  BY <1>3 DEF ChunksAccounted
<1>9. StoreIsContentAddressed
  BY DEF SwarmInit, StoreIsContentAddressed
<1>10. \A d \in Download : SafeDownload(download[d], chunkData, uploaded, disk, raced)
  BY <1>3 DEF SafeDownload
<1>11. \A u \in Upload : SafeUpload(upload[u], chunkData, uploaded)
  BY <1>2 DEF SafeUpload
<1>12. \A p \in Peer, n \in FileName :
          SafeMeta(sharedFiles[p][n], chunkData[p], uploaded[n])
  BY DEF SwarmInit, SafeMeta
<1> QED
  BY <1>5, <1>6, <1>7, <1>8, <1>9, <1>10, <1>11, <1>12, SafetyInvSplit
     DEF TypesInv, SafetyInv2

\* The steps of one upload.
LEMMA UploadsKeepInv ==
    ASSUME SafetyInv, UNCHANGED registryVars, NEW u \in Upload,
           \/ \E p \in Peer, n \in FileName, c \in Content : UploadBegin(u, p, n, c)
           \/ UploadStep(u)
    PROVE  SafetyInv'
<1>1. TypesInv /\ SafetyInv2
  BY SafetyInvSplit
<1>2. TypesInv'
  BY <1>1, UploadBeginTypes, UploadStoreTypes, UploadAddTypes DEF UploadStep
<1>3. SafetyInv2'
  BY <1>1, UploadBeginSafe, UploadStoreSafe, UploadAddSafe DEF UploadStep
<1> QED
  BY <1>2, <1>3, SafetyInvSplit, PTL

\* The steps of one download.
LEMMA DownloadsKeepInv ==
    ASSUME SafetyInv, UNCHANGED registryVars, NEW d \in Download,
           \/ \E p \in Peer, n \in FileName, a \in Address : DownloadBegin(d, p, n, a)
           \/ DownloadStep(d)
    PROVE  SafetyInv'
<1> SUFFICES TypesInv' /\ SafetyInv2'
  BY SafetyInvSplit, PTL
<1>1. TypesInv /\ SafetyInv2 /\ WritesOpened
  BY SafetyInvSplit DEF SafetyInv
<1>2. CASE \E p \in Peer, n \in FileName, a \in Address : DownloadBegin(d, p, n, a)
  BY <1>1, <1>2, DownloadBeginTypes, DownloadBeginSafe
<1>3. CASE FetchMeta(d) \/ FetchMetaRaces(d) \/ FetchMetaFails(d)
  BY <1>1, <1>3, FetchMetaTypes, FetchMetaSafe
<1>4. CASE FindPeers(d) \/ ProbePeer(d) \/ LaunchChunks(d)
  BY <1>1, <1>4, FindPeersTypes, ProbePeerTypes, LaunchChunksTypes, FindAndLaunchSafe
<1>5. ASSUME NEW i \in download[d].pending, FetchChunk(d, i) \/ FetchChunkFails(d, i)
      PROVE  TypesInv' /\ SafetyInv2'
  BY <1>1, <1>5, FetchChunkTypes, FetchChunkSafe, FetchChunkFailsTypes,
     FetchChunkFailsSafe
<1>6. ASSUME NEW r \in download[d].replies, DownloadChunk(d, r)
      PROVE  TypesInv' /\ SafetyInv2'
  BY <1>1, <1>6, DownloadChunkTypes, DownloadChunkSafe
<1>7. CASE CollectResults(d)
  BY <1>1, <1>7, CollectResultsTypes, CollectResultsSafe
<1>8. CASE RegisterDownload(d) \/ RegisterDownloadRaces(d)
  BY <1>1, <1>8, RegisterDownloadTypes, RegisterDownloadSafe
<1>9. CASE SaveOpen(d) \/ SaveWrite(d) \/ SaveFails(d)
  BY <1>1, <1>9, SaveTypes, SaveSafe
<1> QED
  BY <1>2, <1>3, <1>4, <1>5, <1>6, <1>7, <1>8, <1>9 DEF DownloadStep

\* Steps of the registry, and stuttering, change nothing the other conjuncts
\* mention.
LEMMA QuietKeepsInv ==
    ASSUME SafetyInv, RegistryTypeOK', UNCHANGED fileVars
    PROVE  SafetyInv'
<1>1. TypesInv /\ SafetyInv2
  BY SafetyInvSplit
<1>2. TypesInv'
  BY <1>1 DEF TypesInv, TypeOK, UploadsTyped, DownloadsTyped, ChunksAccounted, fileVars
<1>3. SafetyInv2'
  BY <1>1 DEF SafetyInv2, StoreIsContentAddressed, fileVars
<1> QED
  BY <1>2, <1>3, SafetyInvSplit, PTL

\* SafetyInv is inductive.
LEMMA NextSafetyInv ==
    SafetyInv /\ [Next]_vars => SafetyInv'
<1> SUFFICES ASSUME SafetyInv, [Next]_vars PROVE SafetyInv'
  OBVIOUS
<1>1. TypesInv /\ SafetyInv2 /\ RegistryTypeOK
  BY SafetyInvSplit DEF TypesInv, TypeOK
<1>2. CASE Discovery /\ UNCHANGED fileVars
  BY <1>1, <1>2, DiscoveryTypes, QuietKeepsInv
<1>3. CASE FileStep /\ UNCHANGED registryVars
  BY <1>3, UploadsKeepInv, DownloadsKeepInv DEF FileStep
<1>4. ASSUME NEW p \in Peer, CrashPeer(p) PROVE SafetyInv'
  <2>1. TypesInv' /\ SafetyInv2'
    BY <1>1, <1>4, CrashTypes, CrashSafe
  <2> QED
    BY <2>1, SafetyInvSplit, PTL
<1>5. CASE UNCHANGED vars
  <2>1. RegistryTypeOK' /\ UNCHANGED fileVars
    BY <1>1, <1>5 DEF vars, RegistryTypeOK, registryVars
  <2> QED
    BY <2>1, QuietKeepsInv
<1> QED
  BY <1>2, <1>3, <1>4, <1>5 DEF Next

\* The inductive invariant holds in every reachable state.
THEOREM SafetyInvHolds == Spec => []SafetyInv
BY InitSafetyInv, NextSafetyInv, PTL DEF Spec

\* The values of the variables keep their types.
THEOREM TypeCorrect == Spec => []TypeOK
<1>1. SafetyInv => TypeOK
  BY DEF SafetyInv
<1> QED
  BY <1>1, SafetyInvHolds, PTL

\* Whatever answers are damaged on the way, a node stores a chunk under its
\* own digest only (upload.go:64-66, downloader.go:189-204).
THEOREM StoresAreContentAddressed == Spec => []StoreIsContentAddressed
<1>1. SafetyInv => StoreIsContentAddressed
  BY DEF SafetyInv
<1> QED
  BY <1>1, SafetyInvHolds, PTL

\* A node that advertises a file has every chunk of it, as long as no data
\* race has struck (upload.go:57-71, downloader.go:161-163).
THEOREM AdvertisedFilesAreServable == Spec => []AdvertisedIsServable
<1>1. SafetyInv => AdvertisedIsServable
  BY DEF SafetyInv
<1> QED
  BY <1>1, SafetyInvHolds, PTL

\* Every chunk of a download is waiting, answered or collected, exactly once
\* (downloader.go:95-136).
THEOREM ChunksAreAccounted == Spec => []ChunksAccounted
<1>1. SafetyInv => ChunksAccounted
  BY DEF SafetyInv
<1> QED
  BY <1>1, SafetyInvHolds, PTL

\* A download that succeeds returns a version of the file that a user
\* uploaded under its name, whole and in order, as long as no data race has
\* struck (downloader.go:76-170, chunking.go:46-58).
THEOREM DownloadsAreCorrect == Spec => []DownloadCorrect
<1>1. SafetyInv => DownloadCorrect
  BY DEF SafetyInv, ReassembledIsUploaded, DownloadCorrect
<1> QED
  BY <1>1, SafetyInvHolds, PTL
=============================================================================
